------------------------------ MODULE ServerProofs ------------------------------
(***************************************************************************)
(* Proofs about the parts of the server that MCServer runs, each for every *)
(* value of its constants and every order of its steps.                    *)
(*                                                                         *)
(* Memory comes first.  What is kept rests on what each part of the memory *)
(* is at: the lists that compressions keep back (NothingLost), the calls   *)
(* and the profiles they read (CallOK), and the functions of the chain, of *)
(* which the first alone has read (Chained).                               *)
(*                                                                         *)
(* After it come settings, accounts, plugins, chat sessions, the admin's   *)
(* page, the browser, feelings and the file of the accounts, with an       *)
(* invariant each, and at last what holds of the server as a whole.        *)
(***************************************************************************)
EXTENDS MCServer, SequenceTheorems, FiniteSetTheorems, TLAPS

Numbers == 1 .. MaxMessages
Places == {"free", "digest", "profile", "search", "embed", "locked", "generate"}
Gots   == {Nothing} \union [read : {TRUE}, value : [Facts -> Nat] \union SUBSET Facts]
Copies == {Nothing} \union [read : {TRUE}, value : SUBSET Facts]
Jobs   == [by : Calls \union {Nothing}, step : Steps \union {Cleanup}, got : Gots]

\* Of the first n messages, those that were not seen are in the list msgs.
Covered(msgs, n, seen) ==
    /\ msgs \in Seq(Numbers)
    /\ \A m \in 1 .. n : m \in ToSet(msgs) \union seen

Seen == taken \union exposed

\* A compression that is under way will leave its list as the short memory: it
\* loses no message either that was not exposed to it.
NothingLost ==
    /\ added \in 0 .. MaxMessages
    /\ Covered(short, added, Seen)
    /\ rest = [k \in Calls |-> rest[k]]
    /\ \A k \in Calls : rest[k] # Nothing => Covered(rest[k].value, added, Seen)
    /\ taken \subseteq Numbers /\ exposed \subseteq Numbers

\* The calls: what they are going to do, and the profile of a reply, which it
\* holds from its reading to the update that uses it, before all else it does.
CallOK(k) ==
    /\ at[k] \in Places
    /\ todo[k] \in Seq(Steps)
    /\ \A n \in 2 .. Len(todo[k]) : todo[k][n] # Stale
    /\ at[k] \in {"embed", "locked"} => todo[k] # <<>>
    /\ at[k] = "embed" => Head(todo[k]).op = "save"
    /\ copy[k] \in Copies
    /\ copy[k] # Nothing => noted \subseteq copy[k].value
    /\ at[k] = "search" => copy[k] # Nothing
    /\ at[k] = "locked" /\ Head(todo[k]) = Stale => copy[k] # Nothing

Maps == /\ at = [k \in Calls |-> at[k]]
        /\ todo = [k \in Calls |-> todo[k]]
        /\ copy = [k \in Calls |-> copy[k]]

\* What a function has read still tells all that was saved or noted.
Good(job) ==
    IF OnMemories(job.step)
    THEN job.got.value \in [Facts -> Nat] /\ \A f \in saved : job.got.value[f] > 0
    ELSE job.got.value \in SUBSET Facts /\ noted \subseteq job.got.value

\* A function of the chain is the next step of a call that waits for it.
Owned(job) ==
    job.step # Cleanup => /\ job.by \in Calls
                          /\ at[job.by] = "locked"
                          /\ Head(todo[job.by]) = job.step

Chained(l) ==
    /\ l \in Seq(Jobs)
    /\ \A i \in 2 .. Len(l) : l[i].got = Nothing
    /\ \A i \in 1 .. Len(l) : Owned(l[i]) /\ (l[i].got # Nothing => Good(l[i]))
    /\ \A i, j \in 1 .. Len(l) :
          l[i].step # Cleanup /\ l[j].step # Cleanup /\ l[i].by = l[j].by => i = j

Kept ==
    /\ memories \in [Facts -> Nat] /\ profile \subseteq Facts
    /\ saved \subseteq Facts /\ noted \subseteq Facts
    /\ FactsAreKept

\* The inductive invariant.
MemoryInv ==
    /\ NothingLost
    /\ Maps /\ (\A k \in Calls : CallOK(k))
    /\ Chained(lock)
    /\ Kept
    /\ removal \in {"no", "memories", "profile", "done"} /\ later \in BOOLEAN

-----------------------------------------------------------------------------
LEMMA AppendFacts ==
    ASSUME NEW S, NEW s \in Seq(S), NEW n \in S
    PROVE  /\ Append(s, n) \in Seq(S)
           /\ ToSet(Append(s, n)) = ToSet(s) \union {n}
<1>1. /\ Append(s, n) \in Seq(S) /\ Len(Append(s, n)) = Len(s) + 1
      /\ \A i \in 1..Len(s) : Append(s, n)[i] = s[i]
      /\ Append(s, n)[Len(s) + 1] = n
  OBVIOUS
<1>2. /\ DOMAIN s = 1..Len(s) /\ Len(s) \in Nat
      /\ DOMAIN Append(s, n) = 1..(Len(s) + 1)
  BY <1>1, LenProperties
<1> QED
  BY <1>1, <1>2 DEF ToSet

\* A list falls apart into its batch and what is kept back.
LEMMA BatchFacts ==
    ASSUME NEW S, NEW s \in Seq(S), Batch =< Len(s)
    PROVE  /\ KeptBack(s) \in Seq(S)
           /\ ToSet(s) = ToSet(SubSeq(s, 1, Batch)) \union ToSet(KeptBack(s))
<1> Batch \in Nat \ {0}
  BY MemoryAssumption
<1>1. /\ Len(s) \in Nat /\ DOMAIN s = 1..Len(s) /\ \A i \in 1..Len(s) : s[i] \in S
  BY LenProperties, ElementOfSeq
<1> DEFINE b == SubSeq(s, 1, Batch)
           k == KeptBack(s)
<1>2. /\ b \in Seq(S) /\ Len(b) = Batch
      /\ \A i \in 1..Batch : b[i] = s[i]
  BY <1>1, SubSeqProperties
<1>3. /\ k \in Seq(S) /\ Len(k) = Len(s) - Batch
      /\ \A i \in 1..(Len(s) - Batch) : k[i] = s[Batch + i]
  <2>1. \A i \in (Batch + 1)..Len(s) : s[i] \in S
    BY <1>1
  <2>2. /\ k \in Seq(S)
        /\ Len(k) = IF Batch + 1 <= Len(s) THEN Len(s) - (Batch + 1) + 1 ELSE 0
        /\ \A i \in 1 .. Len(s) - (Batch + 1) + 1 : k[i] = s[(Batch + 1) + i - 1]
    BY <1>1, <2>1, SubSeqProperties DEF KeptBack
  <2>3. Len(k) = Len(s) - Batch
    <3>1. CASE Batch + 1 <= Len(s)
      <4>1. Len(k) = Len(s) - (Batch + 1) + 1
        BY <2>2, <3>1
      <4> HIDE DEF k
      <4> QED
        BY <1>1, <4>1
    <3>2. CASE Batch = Len(s)
      <4>1. Len(k) = 0
        BY <1>1, <2>2, <3>2
      <4> HIDE DEF k
      <4> QED
        BY <1>1, <3>2, <4>1
    <3>3. Batch \in Nat /\ Len(s) \in Nat /\ Batch =< Len(s)
      BY <1>1
    <3>4. Batch + 1 <= Len(s) \/ Batch = Len(s)
      BY <3>3
    <3> QED
      BY <3>1, <3>2, <3>4
  <2>4. \A i \in 1..(Len(s) - Batch) : (Batch + 1) + i - 1 = Batch + i /\ i \in 1 .. Len(s) - (Batch + 1) + 1
    BY <1>1
  <2> HIDE DEF k
  <2> QED
    BY <2>2, <2>3, <2>4
<1>4. DOMAIN b = 1..Batch /\ DOMAIN k = 1..(Len(s) - Batch)
  BY <1>2, <1>3, LenProperties
<1> HIDE DEF b, k
<1>5. \A i \in 1..Len(s) : s[i] \in ToSet(b) \union ToSet(k)
  <2> TAKE i \in 1..Len(s)
  <2>1. CASE i =< Batch
    <3>1. i \in 1..Batch /\ s[i] = b[i]
      BY <1>1, <1>2, <2>1
    <3> QED
      BY <1>4, <3>1 DEF ToSet
  <2>2. CASE i > Batch
    <3>1. i - Batch \in 1..(Len(s) - Batch) /\ s[i] = k[i - Batch]
      BY <1>1, <1>3, <2>2
    <3> QED
      BY <1>4, <3>1 DEF ToSet
  <2> QED
    BY <2>1, <2>2, <1>1
<1>6. ToSet(b) \union ToSet(k) \subseteq ToSet(s)
  <2>1. \A i \in 1..Batch : b[i] \in ToSet(s)
    BY <1>1, <1>2 DEF ToSet
  <2>2. \A i \in 1..(Len(s) - Batch) : k[i] \in ToSet(s)
    <3> TAKE i \in 1..(Len(s) - Batch)
    <3>1. Batch + i \in 1..Len(s)
      BY <1>1
    <3> QED
      BY <1>1, <1>3, <3>1 DEF ToSet
  <2> QED
    BY <1>4, <2>1, <2>2 DEF ToSet
<1> QED
  BY <1>1, <1>3, <1>5, <1>6 DEF ToSet, b, k

-----------------------------------------------------------------------------
LEMMA InitNothingLost == Init => NothingLost
<1> SUFFICES ASSUME Init PROVE NothingLost
  OBVIOUS
<1>1. Covered(short, added, Seen)
  BY DEF Init, Covered
<1>2. \A k \in Calls : rest[k] = Nothing
  BY DEF Init
<1>3. rest = [k \in Calls |-> rest[k]]
  BY DEF Init
<1>4. added \in 0 .. MaxMessages /\ taken \subseteq Numbers /\ exposed \subseteq Numbers
  <2>1. taken = {} /\ exposed = {} /\ added = 0
    BY DEF Init
  <2> QED
    BY <2>1, MemoryAssumption
<1> QED
  BY <1>1, <1>2, <1>3, <1>4 DEF NothingLost

\* A step that adds no message and forgets none of the histories loses nothing,
\* if the short memory and the lists of compressions only move.
LEMMA MoveStep ==
    ASSUME NothingLost, added' = added, taken' = taken, exposed' = exposed,
           short' = short \/ \E k \in Calls : rest[k] # Nothing /\ short' = rest[k].value,
           rest' = rest \/ \E k \in Calls : rest' = [rest EXCEPT ![k] = Nothing]
    PROVE  NothingLost'
<1>1. Seen' = Seen
  BY DEF Seen
<1>2. Covered(short', added, Seen)
  BY DEF NothingLost
<1>3. DOMAIN rest = Calls /\ rest' = [k \in Calls |-> rest'[k]]
  BY DEF NothingLost
<1>4. ASSUME NEW k \in Calls, rest'[k] # Nothing PROVE Covered(rest'[k].value, added, Seen)
  <2>1. rest'[k] = rest[k]
    BY <1>3, <1>4
  <2> QED
    BY <1>4, <2>1 DEF NothingLost
<1> QED
  BY <1>1, <1>2, <1>3, <1>4 DEF NothingLost

\* A new message is in the short memory, and exposed if a compression is under
\* way; the compression it may start takes a batch and keeps the others back.
LEMMA AddLosesNothing ==
    ASSUME NothingLost, NEW k \in Calls, NEW next, Add(k, next)
    PROVE  NothingLost'
<1> DEFINE msgs == Append(short, added + 1)
<1>1. /\ added' = added + 1 /\ short' = msgs /\ added < MaxMessages
      /\ exposed' = IF Compressing = {} THEN exposed ELSE exposed \union {added + 1}
      /\ taken \subseteq taken'
  BY DEF Add
<1>2. /\ added \in Nat /\ added + 1 \in Numbers /\ added' \in 0 .. MaxMessages
      /\ 1 .. added' = 1 .. added \union {added + 1}
  BY <1>1, MemoryAssumption DEF NothingLost, Numbers
<1>3. msgs \in Seq(Numbers) /\ ToSet(msgs) = ToSet(short) \union {added + 1}
  BY <1>2, AppendFacts DEF NothingLost, Covered
<1> HIDE DEF msgs
<1>4. /\ Seen \subseteq Seen' /\ exposed' \subseteq Numbers
      /\ \A c \in Calls : rest[c] # Nothing => added + 1 \in Seen'
  <2>1. \A c \in Calls : rest[c] # Nothing => Compressing # {}
    BY DEF Compressing
  <2> QED
    BY <1>1, <1>2, <2>1 DEF NothingLost, Seen
<1>5. Covered(short', added', Seen')
  BY <1>1, <1>2, <1>3, <1>4 DEF NothingLost, Covered
<1>6. ASSUME NEW c \in Calls, rest[c] # Nothing PROVE Covered(rest[c].value, added', Seen')
  <2>1. Covered(rest[c].value, added, Seen)
    BY <1>6 DEF NothingLost
  <2> QED
    BY <1>2, <1>4, <1>6, <2>1 DEF Covered
<1>7. CASE UNCHANGED <<rest, taken>>
  BY <1>2, <1>4, <1>5, <1>6, <1>7 DEF NothingLost
<1>8. ASSUME NEW c \in Compressions, Len(msgs) > MaxShort,
             rest' = [rest EXCEPT ![c] = Read(KeptBack(msgs))],
             taken' = taken \union ToSet(SubSeq(msgs, 1, Batch))
      PROVE  NothingLost'
  <2>1. Batch =< Len(msgs)
    BY <1>3, <1>8, MemoryAssumption, LenProperties
  <2>2. /\ KeptBack(msgs) \in Seq(Numbers)
        /\ ToSet(msgs) = ToSet(SubSeq(msgs, 1, Batch)) \union ToSet(KeptBack(msgs))
        /\ ToSet(msgs) \subseteq Numbers
    <3>1. ToSet(msgs) \subseteq Numbers
      BY <1>3, LenProperties, ElementOfSeq DEF ToSet
    <3> QED
      BY <1>3, <2>1, <3>1, BatchFacts
  <2>3. c \in Calls /\ DOMAIN rest = Calls
    BY DEF Calls, NothingLost
  <2>4. rest'[c].value = KeptBack(msgs)
    BY <1>8, <2>3 DEF Read
  <2>5. Covered(KeptBack(msgs), added', Seen')
    <3>1. ToSet(msgs) \subseteq ToSet(KeptBack(msgs)) \union Seen'
      BY <1>8, <2>2 DEF Seen
    <3>2. \A m \in 1 .. added' : m \in ToSet(msgs) \union Seen'
      BY <1>1, <1>5 DEF Covered
    <3> QED
      BY <2>2, <3>1, <3>2 DEF Covered
  <2>6. ASSUME NEW d \in Calls, rest'[d] # Nothing PROVE Covered(rest'[d].value, added', Seen')
    <3>1. CASE d = c
      BY <2>4, <2>5, <3>1
    <3>2. CASE d # c
      <4>1. rest'[d] = rest[d]
        BY <1>8, <2>3, <3>2
      <4> QED
        BY <1>6, <2>6, <4>1
    <3> QED
      BY <3>1, <3>2
  <2>7. rest' = [d \in Calls |-> rest'[d]]
    BY <1>8, <2>3 DEF NothingLost
  <2>8. taken' \subseteq Numbers
    BY <1>8, <2>2 DEF NothingLost
  <2> QED
    BY <1>2, <1>4, <1>5, <2>6, <2>7, <2>8 DEF NothingLost
<1> QED
  BY <1>7, <1>8 DEF Add, msgs

\* The removal of the account exposes every message there is.
LEMMA RemoveLosesNothing == ASSUME NothingLost, RemoveShort PROVE NothingLost'
<1>1. /\ short' = <<>> /\ added' = added /\ rest' = rest /\ taken' = taken
      /\ exposed' = 1 .. added
  BY DEF RemoveShort
<1>2. 1 .. added \subseteq Numbers /\ 1 .. added \subseteq Seen' /\ Seen' \subseteq Seen' \union Seen
  BY <1>1, MemoryAssumption DEF NothingLost, Numbers, Seen
<1>3. Covered(<<>>, added, Seen')
  BY <1>2 DEF Covered
<1>4. \A k \in Calls : rest[k] # Nothing => Covered(rest[k].value, added, Seen')
  BY <1>2 DEF NothingLost, Covered
<1> QED
  BY <1>1, <1>2, <1>3, <1>4 DEF NothingLost

-----------------------------------------------------------------------------
\* What the steps are, and what they are not.
LEMMA StepFacts ==
    /\ \A t \in Steps : /\ t.op \in {"save", "note", "points", "stale"} /\ t # Cleanup
                        /\ t.op \in {"save", "note"} => t.fact \in Facts
                        /\ t.op = "stale" => t = Stale
    /\ Cleanup.op = "cleanup" /\ Stale.op = "stale"
    /\ \A t \in Steps : OnMemories(t) <=> t.op = "save"
    /\ OnMemories(Cleanup) /\ ~OnMemories(Stale)
BY DEF Steps, Save, Note, Points, Stale, Cleanup, OnMemories

LEMMA JobFacts ==
    /\ \A k \in Calls, t \in Steps :
          /\ Job(k, t) \in Jobs /\ Job(k, t).by = k /\ Job(k, t).step = t /\ Job(k, t).got = Nothing
    /\ Cleaning \in Jobs /\ Cleaning.step = Cleanup /\ Cleaning.got = Nothing
BY DEF Job, Cleaning, Jobs, Gots

LEMMA AppendJob ==
    ASSUME NEW l \in Seq(Jobs), NEW j \in Jobs
    PROVE  /\ Append(l, j) \in Seq(Jobs) /\ Len(Append(l, j)) = Len(l) + 1 /\ Len(l) \in Nat
           /\ \A i \in 1 .. Len(l) : Append(l, j)[i] = l[i] /\ l[i] \in Jobs
           /\ Append(l, j)[Len(l) + 1] = j
BY LenProperties, ElementOfSeq

\* A chain in which no function of the call k waits, in a state of the others.
Without(l, k) ==
    /\ l \in Seq(Jobs)
    /\ \A i \in 2 .. Len(l) : l[i].got = Nothing
    /\ \A i \in 1 .. Len(l) : Owned(l[i]) /\ (l[i].step # Cleanup => l[i].by # k)
    /\ \A i, j \in 1 .. Len(l) :
          l[i].step # Cleanup /\ l[j].step # Cleanup /\ l[i].by = l[j].by => i = j

LEMMA NotWaiting ==
    ASSUME Chained(lock), NEW k \in Calls, at[k] # "locked" PROVE Without(lock, k)
BY DEF Chained, Without, Owned

\* The chain behind its first function, which has not read anything yet.
Tailed(l) == \A i \in 1 .. Len(l) : l[i].got = Nothing

LEMMA FirstLeaves ==
    ASSUME Chained(lock), NEW i \in DOMAIN lock, MayRun(i)
    PROVE  /\ lock[i] \in Jobs /\ Owned(lock[i]) /\ (lock[i].got # Nothing => Good(lock[i]))
           /\ RemoveAt(lock, i) \in Seq(Jobs) /\ Tailed(RemoveAt(lock, i))
           /\ \A n \in 1 .. Len(RemoveAt(lock, i)) : Owned(RemoveAt(lock, i)[n])
           /\ \A n, m \in 1 .. Len(RemoveAt(lock, i)) :
                 LET l == RemoveAt(lock, i) IN
                 l[n].step # Cleanup /\ l[m].step # Cleanup /\ l[n].by = l[m].by => n = m
           /\ lock[i].step # Cleanup => Without(RemoveAt(lock, i), lock[i].by)
<1>1. i = 1 /\ lock \in Seq(Jobs) /\ lock # <<>> /\ Len(lock) \in Nat /\ Len(lock) > 0
      /\ DOMAIN lock = 1 .. Len(lock)
  BY LenProperties, EmptySeq DEF MayRun, Chained
<1> DEFINE l == RemoveAt(lock, i)
<1>2. l = SubSeq(lock, 1, 0) \o SubSeq(lock, 2, Len(lock))
  BY <1>1 DEF RemoveAt
<1>3. SubSeq(lock, 1, 0) = <<>> /\ SubSeq(lock, 2, Len(lock)) = Tail(lock)
  BY <1>1, SubSeqEmpty, TailIsSubSeq
<1>4. l = Tail(lock)
  BY <1>1, <1>2, <1>3, HeadTailProperties, ConcatEmptySeq
<1> HIDE DEF l
<1>5. /\ l \in Seq(Jobs) /\ Len(l) = Len(lock) - 1
      /\ \A n \in 1 .. Len(l) : l[n] = lock[n + 1]
  BY <1>1, <1>4, HeadTailProperties
<1>6. \A n \in 1 .. Len(l) : n + 1 \in 2 .. Len(lock) /\ n + 1 \in 1 .. Len(lock)
  BY <1>1, <1>5
<1>7. lock[1] \in Jobs /\ Owned(lock[1]) /\ (lock[1].got # Nothing => Good(lock[1]))
  BY <1>1, ElementOfSeq DEF Chained
<1>8. Tailed(l) /\ \A n \in 1 .. Len(l) : Owned(l[n])
  BY <1>5, <1>6 DEF Chained, Tailed
<1>9. \A n, m \in 1 .. Len(l) :
         l[n].step # Cleanup /\ l[m].step # Cleanup /\ l[n].by = l[m].by => n = m
  <2> TAKE n, m \in 1 .. Len(l)
  <2> HAVE l[n].step # Cleanup /\ l[m].step # Cleanup /\ l[n].by = l[m].by
  <2>0. l[n] = lock[n + 1] /\ l[m] = lock[m + 1]
    BY <1>5
  <2>1. n + 1 = m + 1
    BY <1>6, <2>0 DEF Chained
  <2> QED
    BY <2>1, <1>5
<1>10. lock[1].step # Cleanup => \A n \in 1 .. Len(l) : l[n].step # Cleanup => l[n].by # lock[1].by
  <2> SUFFICES ASSUME lock[1].step # Cleanup, NEW n \in 1 .. Len(l), l[n].step # Cleanup,
                      l[n].by = lock[1].by
               PROVE  FALSE
    OBVIOUS
  <2>1. n + 1 = 1
    BY <1>1, <1>5, <1>6 DEF Chained
  <2> QED
    BY <2>1
<1>11. \A n \in 2 .. Len(l) : l[n].got = Nothing
  BY <1>8 DEF Tailed
<1>12. lock[1].step # Cleanup => Without(l, lock[1].by)
  BY <1>5, <1>8, <1>9, <1>10, <1>11 DEF Without
<1> QED
  BY <1>1, <1>5, <1>7, <1>8, <1>9, <1>12 DEF l

-----------------------------------------------------------------------------
\* The other calls, and what waits for them, do not see the call k go on.
LEMMA OthersKeep ==
    ASSUME \A j \in Calls : CallOK(j), NEW k \in Calls,
           NEW j \in Calls, j # k, at'[j] = at[j], todo'[j] = todo[j], copy'[j] = copy[j],
           copy'[j] # Nothing => noted' \subseteq copy'[j].value
    PROVE  CallOK(j)'
BY DEF CallOK

\* A call that waits for its first step is the last of the chain.
LEMMA JoinKeeps ==
    ASSUME NEW k \in Calls, NEW step \in Steps, NEW chain, Without(chain, k),
           at'[k] = "locked", Head(todo'[k]) = step,
           \A j \in Calls : j # k => at'[j] = at[j] /\ todo'[j] = todo[j],
           \A i \in 1 .. Len(chain) : chain[i].got # Nothing => Good(chain[i])',
           lock' = Append(chain, Job(k, step))
    PROVE  Chained(lock)'
<1> DEFINE new == Job(k, step)
<1>1. new \in Jobs /\ new.by = k /\ new.step = step /\ new.got = Nothing /\ step # Cleanup
  BY JobFacts, StepFacts
<1> HIDE DEF new
<1>2. \A i \in 1 .. Len(chain) : chain[i].step # Cleanup =>
         /\ chain[i].by \in Calls /\ chain[i].by # k /\ at'[chain[i].by] = "locked"
         /\ Head(todo'[chain[i].by]) = chain[i].step
  BY DEF Without, Owned
<1>3. /\ lock' \in Seq(Jobs) /\ Len(lock') = Len(chain) + 1 /\ Len(chain) \in Nat
      /\ \A i \in 1 .. Len(chain) : lock'[i] = chain[i]
      /\ lock'[Len(chain) + 1] = new
  BY <1>1, AppendJob DEF Without, new
<1>4. \A i \in 1 .. Len(lock') : i = Len(chain) + 1 \/ i \in 1 .. Len(chain)
  BY <1>3
<1>5. \A i \in 2 .. Len(lock') : lock'[i].got = Nothing
  <2> TAKE i \in 2 .. Len(lock')
  <2>1. i = Len(chain) + 1 \/ i \in 2 .. Len(chain)
    BY <1>3
  <2> QED
    BY <1>1, <1>3, <2>1 DEF Without
<1>6. ASSUME NEW i \in 1 .. Len(lock')
      PROVE  Owned(lock[i])' /\ (lock'[i].got # Nothing => Good(lock[i])')
  <2>1. CASE i = Len(chain) + 1
    BY <1>1, <1>3, <2>1 DEF Owned
  <2>2. CASE i \in 1 .. Len(chain)
    BY <1>2, <1>3, <2>2 DEF Owned, Good
  <2> QED
    BY <1>4, <2>1, <2>2
<1>7. \A i, j \in 1 .. Len(lock') :
         lock'[i].step # Cleanup /\ lock'[j].step # Cleanup /\ lock'[i].by = lock'[j].by => i = j
  BY <1>2, <1>1, <1>3, <1>4 DEF Without
<1> QED
  BY <1>3, <1>5, <1>6, <1>7 DEF Chained

\* A call that goes on with its steps waits for the first one, or is through.
LEMMA ContinueKeeps ==
    ASSUME Maps, \A j \in Calls : CallOK(j), NEW k \in Calls,
           NEW steps \in Seq(Steps), \A n \in 2 .. Len(steps) : steps[n] # Stale,
           NEW chain, Without(chain, k),
           \A i \in 1 .. Len(chain) : chain[i].got # Nothing => Good(chain[i])',
           \A j \in Calls : /\ copy'[j] \in Copies
                            /\ copy'[j] # Nothing => noted' \subseteq copy'[j].value
                            /\ j # k => copy'[j] = copy[j],
           copy' = [j \in Calls |-> copy'[j]],
           steps # <<>> /\ Head(steps) = Stale => copy'[k] # Nothing,
           Continue(k, steps, chain)
    PROVE  Maps' /\ (\A j \in Calls : CallOK(j)') /\ Chained(lock)'
<1>1. /\ todo' = [todo EXCEPT ![k] = steps]
      /\ \E p \in {"generate", "free", "embed", "locked"} : at' = [at EXCEPT ![k] = p]
  BY DEF Continue
<1>2. /\ DOMAIN at = Calls /\ DOMAIN todo = Calls
      /\ todo'[k] = steps
      /\ \A j \in Calls : j # k => at'[j] = at[j] /\ todo'[j] = todo[j]
  BY <1>1 DEF Maps
<1>3. Maps'
  BY <1>1, <1>2 DEF Maps
<1>4. \/ /\ at'[k] \in {"generate", "free"}
         /\ lock' = chain
      \/ /\ at'[k] = "embed" /\ steps # <<>> /\ Head(steps).op = "save"
         /\ lock' = chain
      \/ /\ at'[k] = "locked" /\ steps # <<>>
         /\ lock' = Append(chain, Job(k, Head(steps)))
  BY <1>2 DEF Continue
<1>5. CallOK(k)'
  BY <1>2, <1>4 DEF CallOK, Places
<1>6. \A j \in Calls : CallOK(j)'
  BY <1>2, <1>5, OthersKeep
<1>7. \A i \in 1 .. Len(chain) : chain[i].step # Cleanup =>
         /\ chain[i].by \in Calls /\ chain[i].by # k /\ at'[chain[i].by] = "locked"
         /\ Head(todo'[chain[i].by]) = chain[i].step
  BY <1>2 DEF Without, Owned
<1>8. CASE lock' = chain
  <2>1. \A i \in 1 .. Len(lock') : Owned(lock[i])' /\ (lock'[i].got # Nothing => Good(lock[i])')
    BY <1>7, <1>8 DEF Owned, Good
  <2> QED
    BY <1>3, <1>6, <1>8, <2>1 DEF Without, Chained
<1>9. CASE at'[k] = "locked" /\ steps # <<>> /\ lock' = Append(chain, Job(k, Head(steps)))
  <2>1. Head(steps) \in Steps
    BY <1>9, HeadTailProperties
  <2>2. Chained(lock)'
    BY <1>2, <1>9, <2>1, JoinKeeps
  <2> QED
    BY <1>3, <1>6, <2>2
<1> QED
  BY <1>3, <1>4, <1>6, <1>8, <1>9

\* The calls that roam outside of the chain leave it alone.
LEMMA RoamKeeps ==
    ASSUME Maps, \A j \in Calls : CallOK(j), Chained(lock),
           UNCHANGED <<todo, copy, lock, saved, noted>>,
           at' = [j \in Calls |-> at'[j]],
           \A j \in Calls : \/ at'[j] = at[j]
                            \/ /\ at[j] # "locked"
                               /\ at'[j] \in {"free", "profile", "digest", "generate"}
    PROVE  Maps' /\ (\A j \in Calls : CallOK(j)') /\ Chained(lock)'
<1>1. Maps'
  BY DEF Maps
<1>2. ASSUME NEW j \in Calls PROVE CallOK(j)'
  BY <1>2 DEF CallOK, Places
<1>3. \A i \in 1 .. Len(lock) : Owned(lock[i])'
  BY DEF Chained, Owned
<1>4. \A i \in 1 .. Len(lock) : lock[i].got # Nothing => Good(lock[i])'
  BY DEF Chained, Good
<1>5. Chained(lock)'
  BY <1>3, <1>4 DEF Chained
<1> QED
  BY <1>1, <1>2, <1>5

\* A call that ends by an exception leaves its place in the chain.
LEMMA ThrowKeeps ==
    ASSUME Maps, \A j \in Calls : CallOK(j), NEW k \in Calls,
           NEW chain, Without(chain, k),
           \A i \in 1 .. Len(chain) : chain[i].got # Nothing => Good(chain[i])',
           copy' = copy \/ copy' = [copy EXCEPT ![k] = Nothing], noted' = noted,
           Throw(k, chain)
    PROVE  Maps' /\ (\A j \in Calls : CallOK(j)') /\ Chained(lock)'
<1>1. /\ todo' = [todo EXCEPT ![k] = <<>>] /\ at' = [at EXCEPT ![k] = "free"] /\ lock' = chain
  BY DEF Throw
<1>2. /\ DOMAIN at = Calls /\ DOMAIN todo = Calls /\ DOMAIN copy = Calls
      /\ todo'[k] = <<>> /\ at'[k] = "free" /\ copy'[k] \in {copy[k], Nothing}
      /\ \A j \in Calls : j # k => at'[j] = at[j] /\ todo'[j] = todo[j] /\ copy'[j] = copy[j]
  BY <1>1 DEF Maps
<1>3. Maps'
  BY <1>1, <1>2 DEF Maps
<1>4. CallOK(k)'
  <2>1. copy'[k] \in Copies /\ (copy'[k] # Nothing => noted' \subseteq copy'[k].value)
    BY <1>2 DEF CallOK, Copies
  <2>2. todo'[k] \in Seq(Steps) /\ \A n \in 2 .. Len(todo'[k]) : todo'[k][n] # Stale
    BY <1>2
  <2> QED
    BY <1>2, <2>1, <2>2 DEF CallOK, Places
<1>5. ASSUME NEW j \in Calls, j # k PROVE CallOK(j)'
  <2>1. copy'[j] # Nothing => noted' \subseteq copy'[j].value
    BY <1>2, <1>5 DEF CallOK
  <2> QED
    BY <1>2, <1>5, <2>1, OthersKeep
<1>6. \A i \in 1 .. Len(chain) : Owned(chain[i])'
  BY <1>2 DEF Without, Owned
<1>7. Chained(lock)'
  BY <1>1, <1>6 DEF Without, Chained
<1> QED
  BY <1>3, <1>4, <1>5, <1>7

-----------------------------------------------------------------------------
\* What a compression is told to do is no update with an old profile.
LEMMA DigestFacts ==
    ASSUME NEW steps \in Digests
    PROVE  steps \in Seq(Steps) /\ \A n \in 1 .. Len(steps) : steps[n] # Stale
<1>1. steps \in Seq(Steps \ {Stale})
  BY DigestAssumption
<1> QED
  BY <1>1, SeqMonotonic, ElementOfSeq

\* What is left to a call after the first step.
LEMMA TailFacts ==
    ASSUME NEW t \in Seq(Steps), t # <<>>, \A n \in 2 .. Len(t) : t[n] # Stale
    PROVE  /\ Head(t) \in Steps
           /\ Tail(t) \in Seq(Steps) /\ \A n \in 1 .. Len(Tail(t)) : Tail(t)[n] # Stale
           /\ Tail(t) # <<>> => Head(Tail(t)) # Stale
<1>1. /\ Head(t) \in Steps /\ Tail(t) \in Seq(Steps) /\ Len(Tail(t)) = Len(t) - 1
      /\ \A n \in 1 .. Len(Tail(t)) : Tail(t)[n] = t[n + 1]
      /\ Len(t) \in Nat
  BY HeadTailProperties, LenProperties
<1> DEFINE u == Tail(t)
<1> HIDE DEF u
<1>2. \A n \in 1 .. Len(u) : u[n] # Stale
  <2> TAKE n \in 1 .. Len(u)
  <2>1. n + 1 \in 2 .. Len(t) /\ u[n] = t[n + 1]
    BY <1>1 DEF u
  <2> QED
    BY <2>1
<1>3. u # <<>> => Head(u) = u[1] /\ 1 \in 1 .. Len(u)
  BY <1>1, EmptySeq, LenProperties DEF u
<1> QED
  BY <1>1, <1>2, <1>3 DEF u

LEMMA FirstStep ==
    ASSUME NEW t \in Seq(Steps), \A n \in 1 .. Len(t) : t[n] # Stale, t # <<>>
    PROVE  Head(t) # Stale
<1>1. 1 \in 1 .. Len(t) /\ Head(t) = t[1]
  BY EmptySeq, LenProperties
<1> QED
  BY <1>1

\* What the repository holds, when a step leaves it alone.
LEMMA SameKept == ASSUME Kept, UNCHANGED <<memories, profile, saved, noted>> PROVE Kept'
BY DEF Kept, FactsAreKept, SavedIsKept, NotedIsKept

LEMMA GoodStays ==
    ASSUME UNCHANGED <<saved, noted>>, NEW j, Good(j) PROVE Good(j)'
BY DEF Good

LEMMA InitMemoryInv == Init => MemoryInv
<1> SUFFICES ASSUME Init PROVE MemoryInv
  OBVIOUS
<1>1. Maps
  BY DEF Init, Maps
<1>2. \A k \in Calls : CallOK(k)
  BY DEF Init, CallOK, Places, Copies
<1>3. Chained(lock)
  <2>1. lock = <<>> /\ Len(lock) = 0
    BY DEF Init
  <2> QED
    BY <2>1 DEF Chained
<1>4. Kept
  BY DEF Init, Kept, FactsAreKept, SavedIsKept, NotedIsKept, Empty
<1>5. removal \in {"no", "memories", "profile", "done"} /\ later \in BOOLEAN
  BY DEF Init
<1> QED
  BY InitNothingLost, <1>1, <1>2, <1>3, <1>4, <1>5 DEF MemoryInv

LEMMA AddStep ==
    ASSUME MemoryInv, NEW k \in Calls, at[k] # "locked", NEW next \in {"free", "profile"}, Add(k, next)
    PROVE  MemoryInv'
<1>1. NothingLost'
  BY AddLosesNothing DEF MemoryInv
<1>2. /\ UNCHANGED <<todo, copy, lock, saved, noted, memories, profile, removal>>
      /\ later' = (later \/ removal # "no")
  BY DEF Add, repository
<1>3. \/ at' = [at EXCEPT ![k] = next]
      \/ \E c \in Compressions : at[c] = "free" /\ at' = [at EXCEPT ![k] = next, ![c] = "digest"]
  BY DEF Add
<1>4. DOMAIN at = Calls /\ at' = [j \in Calls |-> at'[j]]
  BY <1>3 DEF MemoryInv, Maps
<1>5. \A j \in Calls :
         \/ at'[j] = at[j]
         \/ at[j] # "locked" /\ at'[j] \in {"free", "profile", "digest", "generate"}
  <2>1. ASSUME at' = [at EXCEPT ![k] = next]
        PROVE  \A j \in Calls :
                  \/ at'[j] = at[j]
                  \/ at[j] # "locked" /\ at'[j] \in {"free", "profile", "digest", "generate"}
    <3> TAKE j \in Calls
    <3>1. CASE j = k
      BY <1>4, <2>1, <3>1
    <3>2. CASE j # k
      <4>1. at'[j] = at[j]
        BY <1>4, <2>1, <3>2
      <4> QED
        BY <4>1
    <3> QED
      BY <3>1, <3>2
  <2>2. ASSUME NEW c \in Compressions, at[c] = "free", at' = [at EXCEPT ![k] = next, ![c] = "digest"]
        PROVE  \A j \in Calls :
                  \/ at'[j] = at[j]
                  \/ at[j] # "locked" /\ at'[j] \in {"free", "profile", "digest", "generate"}
    <3> TAKE j \in Calls
    <3>1. CASE j = c
      <4>1. at'[j] = "digest" /\ at[j] = "free"
        BY <1>4, <2>2, <3>1
      <4> QED
        BY <4>1
    <3>2. CASE j # c /\ j = k
      <4>1. at'[j] = next
        BY <1>4, <2>2, <3>2
      <4> QED
        BY <3>2, <4>1
    <3>3. CASE j # c /\ j # k
      <4>1. at'[j] = at[j]
        BY <1>4, <2>2, <3>3
      <4> QED
        BY <4>1
    <3> QED
      BY <3>1, <3>2, <3>3
  <2> QED
    BY <1>3, <2>1, <2>2
<1>6. Maps' /\ (\A j \in Calls : CallOK(j)') /\ Chained(lock)'
  BY <1>2, <1>4, <1>5, RoamKeeps DEF MemoryInv
<1>7. Kept'
  BY <1>2, SameKept DEF MemoryInv
<1>8. later' \in BOOLEAN
  BY <1>2 DEF MemoryInv
<1> QED
  BY <1>1, <1>2, <1>6, <1>7, <1>8 DEF MemoryInv

\* The repository is left alone by a call that goes on to its next step.
LEMMA GoOn ==
    ASSUME MemoryInv, NEW k \in Calls, at[k] # "locked",
           NEW steps \in Seq(Steps), \A n \in 2 .. Len(steps) : steps[n] # Stale,
           steps # <<>> /\ Head(steps) = Stale => copy[k] # Nothing,
           Continue(k, steps, lock),
           UNCHANGED <<added, copy, memories, profile, removal, history>>
    PROVE  MemoryInv'
<1>1. /\ UNCHANGED <<added, copy, memories, profile, removal>>
      /\ UNCHANGED <<taken, exposed, later, saved, noted>>
  BY DEF history
<1>2. NothingLost'
  BY <1>1, MoveStep DEF MemoryInv, Continue
<1>3. Without(lock, k)
  BY NotWaiting DEF MemoryInv
<1>4. \A i \in 1 .. Len(lock) : lock[i].got # Nothing => Good(lock[i])
  BY DEF MemoryInv, Chained
<1>5. \A j \in Calls : /\ copy[j] \in Copies
                       /\ copy[j] # Nothing => noted \subseteq copy[j].value
  BY DEF MemoryInv, CallOK
<1>6. copy = [j \in Calls |-> copy[j]]
  BY DEF MemoryInv, Maps
<1>7. ASSUME NEW l, l = lock PROVE Maps' /\ (\A j \in Calls : CallOK(j)') /\ Chained(lock)'
  <2>1. \A i \in 1 .. Len(l) : l[i].got # Nothing => Good(l[i])'
    BY <1>1, <1>4, <1>7 DEF Good
  <2> QED
    BY <1>1, <1>3, <1>5, <1>6, <1>7, <2>1, ContinueKeeps DEF MemoryInv
<1>8. Kept'
  BY <1>1, SameKept DEF MemoryInv
<1> QED
  BY <1>1, <1>2, <1>7, <1>8 DEF MemoryInv

LEMMA DigestStep ==
    ASSUME MemoryInv, NEW c \in Compressions, Digested(c) PROVE MemoryInv'
<1>1. c \in Calls
  BY DEF Calls
<1>2. PICK steps \in Digests : Continue(c, steps, lock)
  BY DEF Digested
<1>3. /\ steps \in Seq(Steps) /\ \A n \in 1 .. Len(steps) : steps[n] # Stale
      /\ \A n \in 2 .. Len(steps) : steps[n] # Stale
  <2>1. steps \in Seq(Steps) /\ \A n \in 1 .. Len(steps) : steps[n] # Stale
    BY DigestFacts
  <2> QED
    BY <2>1, LenProperties
<1>4. steps # <<>> => Head(steps) # Stale
  BY <1>3, FirstStep
<1> QED
  BY <1>1, <1>2, <1>3, <1>4, GoOn DEF Digested

LEMMA DigestFailsStep ==
    ASSUME MemoryInv, NEW c \in Compressions, DigestFails(c) PROVE MemoryInv'
<1>1. c \in Calls /\ at[c] # "locked" /\ Throw(c, lock)
      /\ UNCHANGED <<added, copy, memories, profile, removal>>
      /\ UNCHANGED <<taken, exposed, later, saved, noted>>
  BY DEF DigestFails, Calls, history
<1>2. NothingLost'
  BY <1>1, MoveStep DEF MemoryInv, Throw
<1>3. Without(lock, c)
  BY <1>1, NotWaiting DEF MemoryInv
<1>4. lock' = lock
  BY <1>1 DEF Throw
<1>5. \A i \in 1 .. Len(lock) : lock[i].got # Nothing => Good(lock[i])
  BY DEF MemoryInv, Chained
<1>6. ASSUME NEW l, l = lock PROVE Maps' /\ (\A j \in Calls : CallOK(j)') /\ Chained(lock)'
  <2>1. \A i \in 1 .. Len(l) : l[i].got # Nothing => Good(l[i])'
    BY <1>1, <1>5, <1>6 DEF Good
  <2> QED
    BY <1>1, <1>3, <1>6, <2>1, ThrowKeeps DEF MemoryInv
<1>7. Kept'
  BY <1>1, SameKept DEF MemoryInv
<1> QED
  BY <1>1, <1>2, <1>6, <1>7 DEF MemoryInv

LEMMA ReadProfileStep ==
    ASSUME MemoryInv, NEW k \in Calls, ReadProfile(k) PROVE MemoryInv'
<1>1. /\ at[k] = "profile" /\ copy' = [copy EXCEPT ![k] = Read(profile)]
      /\ at' = [at EXCEPT ![k] = "search"]
      /\ UNCHANGED <<short, added, rest, todo, lock, memories, profile, removal>>
      /\ UNCHANGED <<taken, exposed, later, saved, noted>>
  BY DEF ReadProfile, history
<1>2. NothingLost'
  BY <1>1, MoveStep DEF MemoryInv
<1>3. /\ DOMAIN at = Calls /\ DOMAIN copy = Calls
      /\ \A j \in Calls : j # k => at'[j] = at[j] /\ copy'[j] = copy[j]
      /\ at'[k] = "search" /\ copy'[k] = Read(profile)
  BY <1>1 DEF MemoryInv, Maps
<1>4. Maps'
  BY <1>1, <1>3 DEF MemoryInv, Maps
<1>5. Read(profile) \in Copies /\ Read(profile) # Nothing /\ Read(profile).value = profile
  BY DEF Read, Copies, Nothing, MemoryInv, Kept
<1>6. CallOK(k)'
  BY <1>1, <1>3, <1>5 DEF CallOK, Places, MemoryInv, Kept, FactsAreKept, NotedIsKept
<1>7. ASSUME NEW j \in Calls, j # k PROVE CallOK(j)'
  BY <1>1, <1>3, <1>7 DEF CallOK, MemoryInv
<1>8. \A i \in 1 .. Len(lock) : Owned(lock[i])' /\ (lock[i].got # Nothing => Good(lock[i])')
  BY <1>1, <1>3 DEF MemoryInv, Chained, Owned, Good
<1>9. Chained(lock)'
  BY <1>1, <1>8 DEF MemoryInv, Chained
<1>10. Kept'
  BY <1>1, SameKept DEF MemoryInv
<1> QED
  BY <1>1, <1>2, <1>4, <1>6, <1>7, <1>9, <1>10 DEF MemoryInv

LEMMA SearchedStep ==
    ASSUME MemoryInv, NEW k \in Calls, Searched(k) PROVE MemoryInv'
<1>1. /\ at[k] = "search"
      /\ UNCHANGED <<added, copy, memories, profile, removal, history>>
  BY DEF Searched
<1>2. PICK steps \in {<<Stale>>} \union {<<Stale, Save(f)>> : f \in Facts} :
         Continue(k, steps, lock)
  BY DEF Searched
<1>3. Stale \in Steps /\ \A f \in Facts : Save(f) \in Steps /\ Save(f) # Stale
  BY DEF Steps, Save, Stale
<1>4. /\ steps \in Seq(Steps)
      /\ \A n \in 2 .. Len(steps) : steps[n] # Stale
  <2>1. CASE steps = <<Stale>>
    BY <1>3, <2>1
  <2>2. CASE \E f \in Facts : steps = <<Stale, Save(f)>>
    BY <1>3, <2>2
  <2> QED
    BY <1>2, <2>1, <2>2
<1>5. copy[k] # Nothing
  BY <1>1 DEF MemoryInv, CallOK
<1> QED
  BY <1>1, <1>2, <1>4, <1>5, GoOn

LEMMA EmbedFailsStep ==
    ASSUME MemoryInv, NEW k \in Calls, EmbedFails(k) PROVE MemoryInv'
<1>1. /\ at[k] = "embed" /\ Continue(k, Tail(todo[k]), lock)
      /\ UNCHANGED <<added, copy, memories, profile, removal, history>>
  BY DEF EmbedFails
<1>2. /\ todo[k] \in Seq(Steps) /\ todo[k] # <<>>
      /\ \A n \in 2 .. Len(todo[k]) : todo[k][n] # Stale
  BY <1>1 DEF MemoryInv, CallOK
<1>3. /\ Tail(todo[k]) \in Seq(Steps) /\ \A n \in 1 .. Len(Tail(todo[k])) : Tail(todo[k])[n] # Stale
      /\ Tail(todo[k]) # <<>> => Head(Tail(todo[k])) # Stale
  BY <1>2, TailFacts
<1>4. \A n \in 2 .. Len(Tail(todo[k])) : Tail(todo[k])[n] # Stale
  BY <1>3, LenProperties
<1> QED
  BY <1>1, <1>3, <1>4, GoOn

LEMMA EmbeddedStep ==
    ASSUME MemoryInv, NEW k \in Calls, Embedded(k) PROVE MemoryInv'
<1>1. /\ at[k] = "embed" /\ at' = [at EXCEPT ![k] = "locked"]
      /\ lock' = Append(lock, Job(k, Head(todo[k])))
      /\ UNCHANGED <<short, added, rest, todo, copy, memories, profile, removal>>
      /\ UNCHANGED <<taken, exposed, later, saved, noted>>
  BY DEF Embedded, history
<1>2. NothingLost'
  BY <1>1, MoveStep DEF MemoryInv
<1>3. /\ DOMAIN at = Calls /\ at'[k] = "locked"
      /\ \A j \in Calls : j # k => at'[j] = at[j] /\ todo'[j] = todo[j]
  BY <1>1 DEF MemoryInv, Maps
<1>4. Maps'
  BY <1>1, <1>3 DEF MemoryInv, Maps
<1>5. /\ todo[k] \in Seq(Steps) /\ todo[k] # <<>> /\ Head(todo[k]) \in Steps
      /\ Head(todo[k]).op = "save"
  BY <1>1, HeadTailProperties DEF MemoryInv, CallOK
<1>6. CallOK(k)'
  BY <1>1, <1>3, <1>5, StepFacts DEF CallOK, Places, MemoryInv
<1>7. ASSUME NEW j \in Calls, j # k PROVE CallOK(j)'
  BY <1>1, <1>3, <1>7 DEF CallOK, MemoryInv
<1>8. Without(lock, k)
  BY <1>1, NotWaiting DEF MemoryInv
<1>9. \A i \in 1 .. Len(lock) : lock[i].got # Nothing => Good(lock[i])
  BY DEF MemoryInv, Chained
<1>10. ASSUME NEW l, l = lock PROVE Chained(lock)'
  <2>1. \A i \in 1 .. Len(l) : l[i].got # Nothing => Good(l[i])'
    BY <1>1, <1>9, <1>10 DEF Good
  <2> QED
    BY <1>1, <1>3, <1>5, <1>8, <1>10, <2>1, JoinKeeps
<1>11. Kept'
  BY <1>1, SameKept DEF MemoryInv
<1> QED
  BY <1>1, <1>2, <1>4, <1>6, <1>7, <1>10, <1>11 DEF MemoryInv

\* The first function of the chain reads what is good.
LEMMA ReadKeeps ==
    ASSUME Chained(lock), NEW i \in DOMAIN lock, MayRun(i), NEW value,
           IF OnMemories(lock[i].step)
           THEN value \in [Facts -> Nat] /\ \A f \in saved : value[f] > 0
           ELSE value \in SUBSET Facts /\ noted \subseteq value,
           lock' = [lock EXCEPT ![i] = Done(lock[i], value)],
           UNCHANGED <<at, todo, saved, noted>>
    PROVE  Chained(lock)'
<1>1. /\ i = 1 /\ lock \in Seq(Jobs) /\ DOMAIN lock = 1 .. Len(lock) /\ Len(lock) \in Nat
      /\ lock[i] \in Jobs
  BY LenProperties, ElementOfSeq DEF MayRun, Chained
<1> DEFINE done == Done(lock[i], value)
<1>2. /\ done.by = lock[i].by /\ done.step = lock[i].step /\ done.got.value = value
      /\ done \in Jobs
  <2>1. Read(value) \in Gots
    BY DEF Read, Gots
  <2> QED
    BY <1>1, <2>1 DEF Done, Jobs, Read
<1> HIDE DEF done
<1>3. lock' = [lock EXCEPT ![i] = done]
  BY DEF done
<1>4. /\ lock' \in Seq(Jobs) /\ Len(lock') = Len(lock) /\ lock'[1] = done
      /\ \A n \in 1 .. Len(lock) : n # 1 => lock'[n] = lock[n]
  BY <1>1, <1>2, <1>3, ExceptSeq
<1>5. \A n \in 2 .. Len(lock') : lock'[n].got = Nothing
  BY <1>1, <1>4 DEF Chained
<1>6. \A n \in 1 .. Len(lock') : lock'[n].by = lock[n].by /\ lock'[n].step = lock[n].step
  BY <1>1, <1>2, <1>4
<1>7. \A n \in 1 .. Len(lock') : Owned(lock[n])'
  BY <1>4, <1>6 DEF Owned, Chained
<1>8. Good(lock[1])'
  BY <1>1, <1>2, <1>4 DEF Good
<1>9. \A n \in 1 .. Len(lock') : lock'[n].got # Nothing => Good(lock[n])'
  <2> TAKE n \in 1 .. Len(lock')
  <2>1. n = 1 \/ n \in 2 .. Len(lock')
    BY <1>1, <1>4
  <2> QED
    BY <1>5, <1>8, <2>1
<1> QED
  BY <1>4, <1>5, <1>6, <1>7, <1>9 DEF Chained

LEMMA LockedReadStep ==
    ASSUME MemoryInv, NEW i \in DOMAIN lock, LockedRead(i) PROVE MemoryInv'
<1>1. /\ MayRun(i)
      /\ UNCHANGED <<short, added, at, rest, todo, copy, memories, profile, removal>>
      /\ UNCHANGED <<taken, exposed, later, saved, noted>>
  BY DEF LockedRead, history
<1>2. NothingLost' /\ Maps' /\ Kept'
  <2>1. NothingLost'
    BY <1>1, MoveStep DEF MemoryInv
  <2>2. Maps'
    BY <1>1 DEF MemoryInv, Maps
  <2>3. Kept'
    BY <1>1, SameKept DEF MemoryInv
  <2> QED
    BY <2>1, <2>2, <2>3
<1>3. \A k \in Calls : CallOK(k)'
  BY <1>1 DEF MemoryInv, CallOK
<1>4. /\ Chained(lock) /\ lock[i] \in Jobs /\ Owned(lock[i])
      /\ memories \in [Facts -> Nat] /\ \A f \in saved : memories[f] > 0
      /\ profile \in SUBSET Facts /\ noted \subseteq profile
  BY <1>1, FirstLeaves DEF MemoryInv, Kept, FactsAreKept, SavedIsKept, NotedIsKept
<1>5. ASSUME OnMemories(lock[i].step), lock' = [lock EXCEPT ![i] = Done(lock[i], memories)]
      PROVE  Chained(lock)'
  BY <1>1, <1>4, <1>5, ReadKeeps
<1>6. ASSUME lock[i].step.op = "stale",
             lock' = [lock EXCEPT ![i] = Done(lock[i], copy[lock[i].by].value)]
      PROVE  Chained(lock)'
  <2> DEFINE k == lock[i].by
             value == copy[k].value
  <2>1. lock[i].step \in Steps /\ lock[i].step = Stale /\ lock[i].step # Cleanup
    <3>1. lock[i].step \in Steps \union {Cleanup}
      BY <1>4 DEF Jobs
    <3> QED
      BY <1>6, <3>1, StepFacts
  <2>2. k \in Calls /\ at[k] = "locked" /\ Head(todo[k]) = Stale
    BY <1>4, <2>1 DEF Owned
  <2>3. copy[k] # Nothing /\ copy[k] \in Copies /\ noted \subseteq value
    BY <2>2 DEF MemoryInv, CallOK
  <2>4. value \in SUBSET Facts
    BY <2>3 DEF Copies
  <2>5. ~OnMemories(lock[i].step)
    BY <2>1, StepFacts
  <2>6. ASSUME NEW v, v = value PROVE Chained(lock)'
    BY <1>1, <1>4, <1>6, <2>3, <2>4, <2>5, <2>6, ReadKeeps
  <2> QED
    BY <2>6
<1>7. ASSUME lock[i].step.op \in {"note", "points"},
             lock' = [lock EXCEPT ![i] = Done(lock[i], profile)]
      PROVE  Chained(lock)'
  <2>1. ~OnMemories(lock[i].step)
    BY <1>7 DEF OnMemories
  <2> QED
    BY <1>1, <1>4, <1>7, <2>1, ReadKeeps
<1>8. Chained(lock)'
  BY <1>5, <1>6, <1>7, Zenon DEF LockedRead
<1> QED
  BY <1>1, <1>2, <1>3, <1>8 DEF MemoryInv

\* The first function ends: the chain goes on behind it.
LEMMA EndKeeps ==
    ASSUME Chained(lock), NEW i \in DOMAIN lock, MayRun(i), lock' = RemoveAt(lock, i),
           UNCHANGED <<at, todo>>
    PROVE  lock[i].step = Cleanup => Chained(lock)'
<1> DEFINE l == RemoveAt(lock, i)
<1>1. /\ l \in Seq(Jobs) /\ Tailed(l)
      /\ \A n \in 1 .. Len(l) : Owned(l[n])
      /\ \A n, m \in 1 .. Len(l) :
            l[n].step # Cleanup /\ l[m].step # Cleanup /\ l[n].by = l[m].by => n = m
  BY FirstLeaves
<1> HIDE DEF l
<1>2. lock' = l
  BY DEF l
<1>3. Len(l) \in Nat /\ \A n \in 2 .. Len(l) : n \in 1 .. Len(l)
  BY <1>1, LenProperties
<1>4. \A n \in 1 .. Len(l) : Owned(lock[n])'
  BY <1>1, <1>2 DEF Owned
<1> QED
  BY <1>1, <1>2, <1>3, <1>4 DEF Chained, Tailed

\* Nobody's cleaning up may join the chain.
LEMMA CleaningJoins ==
    ASSUME NEW k \in Calls, NEW l, Without(l, k), Tailed(l)
    PROVE  Without(Append(l, Cleaning), k) /\ Tailed(Append(l, Cleaning))
<1> DEFINE m == Append(l, Cleaning)
<1>1. /\ m \in Seq(Jobs) /\ Len(m) = Len(l) + 1 /\ Len(l) \in Nat
      /\ \A i \in 1 .. Len(l) : m[i] = l[i]
      /\ m[Len(l) + 1] = Cleaning
  BY JobFacts, AppendJob DEF Without
<1> HIDE DEF m
<1>2. Cleaning.step = Cleanup /\ Cleaning.got = Nothing
  BY JobFacts
<1>3. \A i \in 1 .. Len(m) : i \in 1 .. Len(l) \/ i = Len(l) + 1
  BY <1>1
<1>4. Tailed(m)
  BY <1>1, <1>2, <1>3 DEF Tailed
<1>5. \A i \in 2 .. Len(m) : m[i].got = Nothing
  BY <1>1, <1>4 DEF Tailed
<1>6. \A i \in 1 .. Len(m) : Owned(m[i]) /\ (m[i].step # Cleanup => m[i].by # k)
  BY <1>1, <1>2, <1>3 DEF Without, Owned
<1>7. \A i, j \in 1 .. Len(m) :
         m[i].step # Cleanup /\ m[j].step # Cleanup /\ m[i].by = m[j].by => i = j
  BY <1>1, <1>2, <1>3 DEF Without
<1> QED
  BY <1>1, <1>4, <1>5, <1>6, <1>7 DEF Without, m

\* What the first function of the chain is, and what its caller still has to do.
LEMMA FirstFacts ==
    ASSUME MemoryInv, NEW i \in DOMAIN lock, MayRun(i), lock[i].step # Cleanup
    PROVE  /\ lock[i].step \in Steps /\ lock[i].by \in Calls
           /\ LET k == lock[i].by
                  rst == Tail(todo[k])
              IN  /\ Without(RemoveAt(lock, i), k) /\ Tailed(RemoveAt(lock, i))
                  /\ rst \in Seq(Steps)
                  /\ \A n \in 2 .. Len(rst) : rst[n] # Stale
                  /\ rst # <<>> => Head(rst) # Stale
<1>1. /\ lock[i] \in Jobs /\ Owned(lock[i]) /\ Tailed(RemoveAt(lock, i))
      /\ Without(RemoveAt(lock, i), lock[i].by)
  BY FirstLeaves DEF MemoryInv
<1>2. lock[i].step \in Steps /\ lock[i].by \in Calls /\ at[lock[i].by] = "locked"
  BY <1>1 DEF Jobs, Owned
<1> DEFINE t == todo[lock[i].by]
<1>3. t \in Seq(Steps) /\ t # <<>> /\ \A n \in 2 .. Len(t) : t[n] # Stale
  BY <1>2 DEF MemoryInv, CallOK
<1> HIDE DEF t
<1>4. /\ Tail(t) \in Seq(Steps) /\ \A n \in 1 .. Len(Tail(t)) : Tail(t)[n] # Stale
      /\ Tail(t) # <<>> => Head(Tail(t)) # Stale
  BY <1>3, TailFacts
<1> HIDE DEF t
<1>5. \A n \in 2 .. Len(Tail(t)) : Tail(t)[n] # Stale
  <2> DEFINE r == Tail(t)
  <2>1. Len(r) \in Nat /\ \A n \in 1 .. Len(r) : r[n] # Stale
    BY <1>4, LenProperties
  <2> HIDE DEF r
  <2>2. \A n \in 2 .. Len(r) : n \in 1 .. Len(r)
    BY <2>1
  <2>3. \A n \in 2 .. Len(r) : r[n] # Stale
    BY <2>1, <2>2
  <2> QED
    BY <2>3 DEF r
<1> QED
  BY <1>1, <1>2, <1>4, <1>5 DEF t

\* The caller of the first function goes on, when its chain is l.
LEMMA CallerGoesOn ==
    ASSUME MemoryInv, NEW i \in DOMAIN lock, MayRun(i), lock[i].step # Cleanup,
           NEW l \in {RemoveAt(lock, i), Append(RemoveAt(lock, i), Cleaning)},
           Continue(lock[i].by, Tail(todo[lock[i].by]), l),
           copy' = copy \/ copy' = [copy EXCEPT ![lock[i].by] = Nothing],
           noted' = noted \/ HoldsProfile = {}
    PROVE  Maps' /\ (\A j \in Calls : CallOK(j)') /\ Chained(lock)'
<1> DEFINE k == lock[i].by
           r == Tail(todo[k])
<1>1. /\ k \in Calls
      /\ Without(RemoveAt(lock, i), k) /\ Tailed(RemoveAt(lock, i))
      /\ r \in Seq(Steps)
      /\ \A n \in 2 .. Len(r) : r[n] # Stale
      /\ r # <<>> => Head(r) # Stale
  BY FirstFacts
<1>2. Continue(k, r, l) /\ (copy' = copy \/ copy' = [copy EXCEPT ![k] = Nothing])
  OBVIOUS
<1> HIDE DEF k, r
<1>3. Without(l, k) /\ Tailed(l)
  BY <1>1, CleaningJoins
<1>4. \A n \in 1 .. Len(l) : l[n].got # Nothing => Good(l[n])'
  BY <1>3 DEF Tailed
<1>5. DOMAIN copy = Calls /\ Maps /\ \A j \in Calls : CallOK(j)
  BY DEF MemoryInv, Maps
<1>6. /\ copy' = [j \in Calls |-> copy'[j]]
      /\ \A j \in Calls : copy'[j] \in {copy[j], Nothing} /\ (j # k => copy'[j] = copy[j])
  BY <1>2, <1>5 DEF Maps
<1>7. \A j \in Calls : copy'[j] \in Copies /\ (copy'[j] # Nothing => noted \subseteq copy'[j].value)
  BY <1>5, <1>6 DEF CallOK, Copies
<1>8. \A j \in Calls : copy'[j] # Nothing => noted' \subseteq copy'[j].value
  <2>1. HoldsProfile = {} => \A j \in Calls : copy[j] = Nothing
    BY DEF HoldsProfile
  <2> QED
    BY <1>6, <1>7, <2>1
<1> QED
  BY <1>1, <1>2, <1>3, <1>4, <1>5, <1>6, <1>7, <1>8, ContinueKeeps

\* What has been read is typed and, under the lock, still tells all that counts.
LEMMA ReadFacts ==
    ASSUME MemoryInv, NEW i \in DOMAIN lock, MayRun(i), lock[i].got.read
    PROVE  IF OnMemories(lock[i].step)
           THEN lock[i].got.value \in [Facts -> Nat] /\ \A f \in saved : lock[i].got.value[f] > 0
           ELSE lock[i].got.value \in SUBSET Facts /\ noted \subseteq lock[i].got.value
<1>1. lock[i].got # Nothing
  BY DEF Nothing
<1> QED
  BY <1>1, FirstLeaves DEF MemoryInv, Good

\* A save ends with the memories it read, the new one, and a cleaning up.
LEMMA SaveStep ==
    ASSUME MemoryInv, NEW i \in DOMAIN lock, LockedWrite(i), lock[i].step.op = "save"
    PROVE  MemoryInv'
<1> DEFINE f == lock[i].step.fact
           value == lock[i].got.value
<1>1. /\ MayRun(i) /\ lock[i].got.read
      /\ memories' = [value EXCEPT ![f] = @ + 1] /\ saved' = saved \union {f}
      /\ Continue(lock[i].by, Tail(todo[lock[i].by]), Append(RemoveAt(lock, i), Cleaning))
      /\ UNCHANGED <<profile, noted, copy>>
      /\ UNCHANGED <<added, removal, taken, exposed, later>>
  BY DEF LockedWrite
<1>2. lock[i].step # Cleanup /\ OnMemories(lock[i].step)
  BY DEF Cleanup, OnMemories
<1>3. lock[i].step \in Steps /\ f \in Facts /\ lock[i].by \in Calls
  BY <1>1, <1>2, FirstFacts, StepFacts
<1>4. value \in [Facts -> Nat] /\ \A g \in saved : value[g] > 0
  BY <1>1, <1>2, ReadFacts
<1> HIDE DEF f, value
<1>5. NothingLost'
  BY <1>1, <1>3, MoveStep DEF MemoryInv, Continue
<1>6. Maps' /\ (\A j \in Calls : CallOK(j)') /\ Chained(lock)'
  BY <1>1, <1>2, CallerGoesOn
<1>7. Kept'
  <2>1. memories' \in [Facts -> Nat] /\ \A g \in saved' : memories'[g] > 0
    BY <1>1, <1>3, <1>4 DEF MemoryInv, Kept
  <2> QED
    BY <1>1, <1>3, <2>1 DEF MemoryInv, Kept, FactsAreKept, SavedIsKept, NotedIsKept
<1> QED
  BY <1>1, <1>5, <1>6, <1>7 DEF MemoryInv

\* Cleaning up leaves one of each fact that is there.
LEMMA CleanupStep ==
    ASSUME MemoryInv, NEW i \in DOMAIN lock, LockedWrite(i), lock[i].step.op = "cleanup"
    PROVE  MemoryInv'
<1> DEFINE value == lock[i].got.value
<1>1. /\ MayRun(i) /\ lock[i].got.read
      /\ memories' = IF Duplicates(value) = {} THEN memories ELSE WithoutDuplicates(value)
      /\ lock' = RemoveAt(lock, i)
      /\ UNCHANGED <<profile, saved, noted, copy, at, todo, rest, short>>
      /\ UNCHANGED <<added, removal, taken, exposed, later>>
  BY DEF LockedWrite
<1>2. lock[i].step = Cleanup /\ OnMemories(lock[i].step)
  <2>1. lock[i].step \in Steps \union {Cleanup}
    BY <1>1, FirstLeaves DEF MemoryInv, Jobs
  <2> QED
    BY <2>1, StepFacts
<1>3. value \in [Facts -> Nat] /\ \A g \in saved : value[g] > 0
  BY <1>1, <1>2, ReadFacts
<1> HIDE DEF value
<1>4. NothingLost'
  BY <1>1, MoveStep DEF MemoryInv
<1>5. Maps' /\ (\A j \in Calls : CallOK(j)')
  BY <1>1 DEF MemoryInv, Maps, CallOK
<1>6. Chained(lock)'
  BY <1>1, <1>2, EndKeeps DEF MemoryInv
<1>7. Kept'
  <2>1. /\ WithoutDuplicates(value) \in [Facts -> Nat]
        /\ \A g \in Facts : value[g] > 0 => WithoutDuplicates(value)[g] > 0
    BY <1>3 DEF WithoutDuplicates
  <2>2. memories' \in [Facts -> Nat] /\ \A g \in saved : memories'[g] > 0
    BY <1>1, <1>3, <2>1 DEF MemoryInv, Kept, FactsAreKept, SavedIsKept
  <2> QED
    BY <1>1, <2>2 DEF MemoryInv, Kept, FactsAreKept, SavedIsKept, NotedIsKept
<1> QED
  BY <1>1, <1>4, <1>5, <1>6, <1>7 DEF MemoryInv

\* The profile is written as it was read, by a reply perhaps long before; what
\* counts as noted was noted while no reply held one.
LEMMA ProfileStep ==
    ASSUME MemoryInv, NEW i \in DOMAIN lock, LockedWrite(i), lock[i].step.op \notin {"save", "cleanup"}
    PROVE  MemoryInv'
<1> DEFINE step == lock[i].step
           value == lock[i].got.value
<1>1. /\ MayRun(i) /\ lock[i].got.read
      /\ profile' = IF step.op = "note" THEN value \union {step.fact} ELSE value
      /\ noted' = IF step.op = "note" /\ HoldsProfile = {} THEN noted \union {step.fact} ELSE noted
      /\ copy' = IF step.op = "stale" THEN [copy EXCEPT ![lock[i].by] = Nothing] ELSE copy
      /\ Continue(lock[i].by, Tail(todo[lock[i].by]), RemoveAt(lock, i))
      /\ UNCHANGED <<memories, saved>>
      /\ UNCHANGED <<added, removal, taken, exposed, later>>
  BY DEF LockedWrite
<1>2. lock[i].step # Cleanup /\ ~OnMemories(lock[i].step)
  BY DEF Cleanup, OnMemories
<1>3. /\ step \in Steps /\ lock[i].by \in Calls
      /\ step.op = "note" => step.fact \in Facts
  BY <1>1, <1>2, FirstFacts, StepFacts
<1>4. value \in SUBSET Facts /\ noted \subseteq value
  BY <1>1, <1>2, ReadFacts
<1>5. Maps' /\ (\A j \in Calls : CallOK(j)') /\ Chained(lock)'
  BY <1>1, <1>2, CallerGoesOn
<1> HIDE DEF step, value
<1>6. NothingLost'
  BY <1>1, <1>3, MoveStep DEF MemoryInv, Continue
<1>7. Kept'
  <2>1. profile' \subseteq Facts /\ noted' \subseteq profile' /\ noted' \subseteq Facts
    BY <1>1, <1>3, <1>4 DEF MemoryInv, Kept
  <2> QED
    BY <1>1, <2>1 DEF MemoryInv, Kept, FactsAreKept, SavedIsKept, NotedIsKept
<1> QED
  BY <1>1, <1>5, <1>6, <1>7 DEF MemoryInv

LEMMA LockedFailsStep ==
    ASSUME MemoryInv, NEW i \in DOMAIN lock, LockedFails(i) PROVE MemoryInv'
<1>1. /\ MayRun(i) /\ UNCHANGED <<added, memories, profile, removal>>
      /\ UNCHANGED <<taken, exposed, later, saved, noted>>
  BY DEF LockedFails, history
<1>2. Kept'
  BY <1>1, SameKept DEF MemoryInv
<1>3. CASE lock[i].step.op = "save"
  <2>1. /\ Continue(lock[i].by, Tail(todo[lock[i].by]), RemoveAt(lock, i))
        /\ copy' = copy /\ lock[i].step # Cleanup
    BY <1>3 DEF LockedFails, Cleanup
  <2>2. lock[i].by \in Calls
    BY <1>1, <2>1, FirstFacts
  <2>3. NothingLost'
    BY <1>1, <2>1, <2>2, MoveStep DEF MemoryInv, Continue
  <2>4. Maps' /\ (\A j \in Calls : CallOK(j)') /\ Chained(lock)'
    BY <1>1, <2>1, CallerGoesOn
  <2> QED
    BY <1>1, <1>2, <2>3, <2>4 DEF MemoryInv
<1>4. CASE lock[i].step.op = "cleanup"
  <2>1. lock' = RemoveAt(lock, i) /\ UNCHANGED <<copy, at, todo, rest, short>>
    BY <1>4 DEF LockedFails
  <2>2. lock[i].step = Cleanup
    <3>1. lock[i].step \in Steps \union {Cleanup}
      BY <1>1, FirstLeaves DEF MemoryInv, Jobs
    <3> QED
      BY <1>4, <3>1, StepFacts
  <2>3. NothingLost'
    BY <1>1, <2>1, MoveStep DEF MemoryInv
  <2>4. Maps' /\ (\A j \in Calls : CallOK(j)')
    BY <1>1, <2>1 DEF MemoryInv, Maps, CallOK
  <2>5. Chained(lock)'
    BY <1>1, <2>1, <2>2, EndKeeps DEF MemoryInv
  <2> QED
    BY <1>1, <1>2, <2>3, <2>4, <2>5 DEF MemoryInv
<1>5. CASE lock[i].step.op \notin {"save", "cleanup"}
  <2>1. /\ Throw(lock[i].by, RemoveAt(lock, i))
        /\ copy' = [copy EXCEPT ![lock[i].by] = Nothing] /\ lock[i].step # Cleanup
    BY <1>5 DEF LockedFails, Cleanup
  <2>2. /\ lock[i].by \in Calls
        /\ Without(RemoveAt(lock, i), lock[i].by) /\ Tailed(RemoveAt(lock, i))
    BY <1>1, <2>1, FirstFacts
  <2>3. NothingLost'
    BY <1>1, <2>1, <2>2, MoveStep DEF MemoryInv, Throw
  <2>4. ASSUME NEW l, l = RemoveAt(lock, i)
        PROVE  Maps' /\ (\A j \in Calls : CallOK(j)') /\ Chained(lock)'
    <3>1. Throw(lock[i].by, l) /\ Without(l, lock[i].by) /\ Tailed(l)
      BY <2>1, <2>2, <2>4
    <3>2. \A n \in 1 .. Len(l) : l[n].got # Nothing => Good(l[n])'
      BY <3>1 DEF Tailed
    <3> QED
      BY <1>1, <2>1, <2>2, <3>1, <3>2, ThrowKeeps DEF MemoryInv
  <2>5. Maps' /\ (\A j \in Calls : CallOK(j)') /\ Chained(lock)'
    BY <2>4
  <2> QED
    BY <1>1, <1>2, <2>3, <2>5 DEF MemoryInv
<1> QED
  BY <1>3, <1>4, <1>5

-----------------------------------------------------------------------------
\* The removal of the account takes away what was saved and noted.
LEMMA RemovalStep ==
    ASSUME MemoryInv, RemoveShort \/ RemoveMemories \/ RemoveProfile PROVE MemoryInv'
<1>1. /\ UNCHANGED <<at, todo, copy, lock>> /\ later' = later
      /\ removal' \in {"no", "memories", "profile", "done"}
      /\ saved' \subseteq saved /\ noted' \subseteq noted
  BY DEF RemoveShort, RemoveMemories, RemoveProfile, repository
<1>2. NothingLost'
  <2>1. RemoveShort => NothingLost'
    BY RemoveLosesNothing DEF MemoryInv
  <2>2. RemoveMemories \/ RemoveProfile => NothingLost'
    BY MoveStep DEF MemoryInv, RemoveMemories, RemoveProfile
  <2> QED
    BY <2>1, <2>2
<1>3. Maps'
  BY <1>1 DEF MemoryInv, Maps
<1>4. ASSUME NEW k \in Calls PROVE CallOK(k)'
  BY <1>1 DEF MemoryInv, CallOK
<1>5. Chained(lock)'
  <2>1. \A i \in 1 .. Len(lock) : Owned(lock[i])' /\ (lock[i].got # Nothing => Good(lock[i])')
    BY <1>1 DEF MemoryInv, Chained, Owned, Good
  <2> QED
    BY <1>1, <2>1 DEF MemoryInv, Chained
<1>6. Kept'
  <2>1. RemoveShort => Kept'
    BY SameKept DEF MemoryInv, RemoveShort, repository
  <2>2. RemoveMemories => Kept'
    BY DEF MemoryInv, Kept, FactsAreKept, SavedIsKept, NotedIsKept, RemoveMemories, Empty
  <2>3. RemoveProfile => Kept'
    BY DEF MemoryInv, Kept, FactsAreKept, SavedIsKept, NotedIsKept, RemoveProfile
  <2> QED
    BY <2>1, <2>2, <2>3
<1> QED
  BY <1>1, <1>2, <1>3, <1>4, <1>5, <1>6 DEF MemoryInv

LEMMA MemoryInvStep == MemoryInv /\ [Next]_vars => MemoryInv'
<1> SUFFICES ASSUME MemoryInv, [Next]_vars PROVE MemoryInv'
  OBVIOUS
<1>1. ASSUME NEW r \in Replies, Message(r) \/ ReadProfile(r) \/ Searched(r) \/ Answer(r)
      PROVE  MemoryInv'
  <2>1. r \in Calls
    BY DEF Calls
  <2>2. CASE Message(r)
    BY <2>1, <2>2, AddStep DEF Message
  <2>3. CASE ReadProfile(r)
    BY <2>1, <2>3, ReadProfileStep
  <2>4. CASE Searched(r)
    BY <2>1, <2>4, SearchedStep
  <2>5. CASE at[r] = "generate" /\ Add(r, "free")
    BY <2>1, <2>5, AddStep
  <2>6. CASE /\ at[r] = "generate" /\ at' = [at EXCEPT ![r] = "free"]
             /\ UNCHANGED <<short, added, rest, todo, copy, lock, memories,
                            profile, removal, history>>
    <3>1. /\ UNCHANGED <<short, added, rest, todo, copy, lock, memories, profile, removal>>
          /\ UNCHANGED <<taken, exposed, later, saved, noted>>
      BY <2>6 DEF history
    <3>2. DOMAIN at = Calls
      BY DEF MemoryInv, Maps
    <3>3. ASSUME NEW j \in Calls
          PROVE  at'[j] = at[j]
                   \/ (at[j] # "locked" /\ at'[j] \in {"free", "profile", "digest", "generate"})
      <4>1. CASE j = r
        BY <2>6, <3>2, <4>1
      <4>2. CASE j # r
        <5>1. at'[j] = at[j]
          BY <2>6, <3>2, <4>2
        <5> QED
          BY <5>1
      <4> QED
        BY <4>1, <4>2
    <3>4. at' = [j \in Calls |-> at'[j]]
      BY <2>6, <3>2 DEF MemoryInv, Maps
    <3>5. Maps' /\ (\A j \in Calls : CallOK(j)') /\ Chained(lock)'
      BY <3>1, <3>3, <3>4, RoamKeeps DEF MemoryInv
    <3>6. NothingLost' /\ Kept'
      BY <3>1, MoveStep, SameKept DEF MemoryInv
    <3> QED
      BY <3>1, <3>5, <3>6 DEF MemoryInv
  <2> QED
    BY <1>1, <2>2, <2>3, <2>4, <2>5, <2>6 DEF Answer
<1>2. ASSUME NEW c \in Compressions, Digested(c) \/ DigestFails(c) PROVE MemoryInv'
  BY <1>2, DigestStep, DigestFailsStep
<1>3. ASSUME NEW k \in Calls, Embedded(k) \/ EmbedFails(k) PROVE MemoryInv'
  BY <1>3, EmbeddedStep, EmbedFailsStep
<1>4. ASSUME NEW i \in DOMAIN lock, LockedRead(i) \/ LockedWrite(i) \/ LockedFails(i)
      PROVE  MemoryInv'
  <2>1. CASE LockedRead(i)
    BY <2>1, LockedReadStep
  <2>2. CASE LockedWrite(i)
    BY <2>2, SaveStep, CleanupStep, ProfileStep
  <2>3. CASE LockedFails(i)
    BY <2>3, LockedFailsStep
  <2> QED
    BY <1>4, <2>1, <2>2, <2>3
<1>5. CASE RemoveShort \/ RemoveMemories \/ RemoveProfile
  BY <1>5, RemovalStep
<1>6. CASE UNCHANGED vars
  <2>1. /\ UNCHANGED <<short, added, at, rest, todo, copy, lock, memories, profile, removal>>
        /\ UNCHANGED <<taken, exposed, later, saved, noted>>
    BY <1>6 DEF vars
  <2>2. NothingLost' /\ Kept'
    BY <2>1, MoveStep, SameKept DEF MemoryInv
  <2>3. Maps' /\ \A j \in Calls : CallOK(j)'
    BY <2>1 DEF MemoryInv, Maps, CallOK
  <2>4. Chained(lock)'
    BY <2>1 DEF MemoryInv, Chained, Owned, Good
  <2> QED
    BY <2>1, <2>2, <2>3, <2>4 DEF MemoryInv
<1> QED
  BY <1>1, <1>2, <1>3, <1>4, <1>5, <1>6 DEF Next

-----------------------------------------------------------------------------
\* The inductive invariant.
THEOREM MemoryInvariance == Spec => []MemoryInv
<1>1. MemoryInv /\ [Next]_vars => MemoryInv'
  BY MemoryInvStep
<1> QED
  BY InitMemoryInv, <1>1, PTL DEF Spec

\* Whatever a user was told or said is in the short memory, went through a
\* compression, or came while one was under way or before the account was
\* removed (addShortMemory, compressConversation): for every MaxShort and Batch.
THEOREM Loses == Spec => []LostOnlyMeanwhile
<1>1. MemoryInv => LostOnlyMeanwhile
  BY DEF MemoryInv, NothingLost, Covered, Seen, LostOnlyMeanwhile
<1> QED
  BY MemoryInvariance, <1>1, PTL

\* What was saved stays among the memories, and what was noted in the profile,
\* however many replies and compressions write under the lock (_withLongTermLock).
THEOREM Keeps == Spec => []FactsAreKept
<1>1. MemoryInv => FactsAreKept
  BY DEF MemoryInv, Kept
<1> QED
  BY MemoryInvariance, <1>1, PTL

\* Every variable keeps its type.
THEOREM MemoryTypes == Spec => []TypeOK
<1>1. MemoryInv => TypeOK
  <2> SUFFICES ASSUME MemoryInv PROVE TypeOK
    OBVIOUS
  <2>1. /\ short \in Seq(Numbers) /\ added \in 0 .. MaxMessages
        /\ taken \subseteq Numbers /\ exposed \subseteq Numbers
        /\ \A k \in Calls : rest[k] # Nothing => rest[k].value \in Seq(Numbers)
    BY DEF MemoryInv, NothingLost, Covered
  <2>2. at \in [Calls -> Places]
    BY DEF MemoryInv, Maps, CallOK
  <2>3. \A k \in Calls : todo[k] \in Seq(Steps) /\ (copy[k] # Nothing => copy[k].value \subseteq Facts)
    BY DEF MemoryInv, CallOK, Copies
  <2>4. DOMAIN lock = 1 .. Len(lock) /\ \A i \in 1 .. Len(lock) : lock[i] \in Jobs
    BY LenProperties, ElementOfSeq DEF MemoryInv, Chained
  <2>5. ASSUME NEW i \in DOMAIN lock
        PROVE  /\ lock[i].step \in Steps \union {Cleanup}
               /\ lock[i].step # Cleanup => lock[i].by \in Calls
               /\ lock[i].got.read =>
                     lock[i].got.value \in IF OnMemories(lock[i].step) THEN [Facts -> Nat]
                                                                      ELSE SUBSET Facts
    <3>1. lock[i].got.read => lock[i].got # Nothing
      BY DEF Nothing
    <3>2. Owned(lock[i]) /\ (lock[i].got # Nothing => Good(lock[i]))
      BY <2>4 DEF MemoryInv, Chained
    <3> QED
      BY <2>4, <3>1, <3>2 DEF Jobs, Owned, Good
  <2> QED
    BY <2>1, <2>2, <2>3, <2>5 DEF TypeOK, MemoryInv, Kept, Numbers, Places
<1> QED
  BY MemoryInvariance, <1>1, PTL

-----------------------------------------------------------------------------
(* What an instance takes from the library is the library's own.             *)
LEMMA SameLibrary ==
    /\ \A s : Browser!ToSet(s) = ToSet(s)
    /\ \A s, i : Browser!RemoveAt(s, i) = RemoveAt(s, i)
    /\ \A s : Browser!IsFiniteSet(s) <=> IsFiniteSet(s)
    /\ \A s : Browser!Cardinality(s) = Cardinality(s)
    /\ \A s : Settings!Cardinality(s) = Cardinality(s)
    /\ \A s : Accounts!IsFiniteSet(s) <=> IsFiniteSet(s)
    /\ \A s : Accounts!Cardinality(s) = Cardinality(s)
  <1>1. \A s : Browser!ToSet(s) = ToSet(s)
    BY DEF Browser!ToSet, ToSet
  <1>2. \A s, i : Browser!RemoveAt(s, i) = RemoveAt(s, i)
    BY DEF Browser!RemoveAt, RemoveAt
  <1>3. \A s : Browser!IsFiniteSet(s) <=> IsFiniteSet(s)
    BY DEF Browser!IsFiniteSet, IsFiniteSet
  <1>4. \A s : Browser!Cardinality(s) = Cardinality(s)
    BY DEF Browser!Cardinality, Cardinality
  <1>5. \A s : Settings!Cardinality(s) = Cardinality(s)
    BY DEF Settings!Cardinality, Cardinality
  <1>6. \A s : Accounts!IsFiniteSet(s) <=> IsFiniteSet(s)
    BY DEF Accounts!IsFiniteSet, IsFiniteSet
  <1>7. \A s : Accounts!Cardinality(s) = Cardinality(s)
    BY DEF Accounts!Cardinality, Cardinality
  <1> QED BY <1>1, <1>2, <1>3, <1>4, <1>5, <1>6, <1>7

-----------------------------------------------------------------------------
(* Settings: a user's file is read, and written as a whole, by each change.   *)

(* What a file that can be read holds is none of the states of a file that   *)
(* cannot.                                                                   *)
LEMMA SettingsAreNotAFile ==
    ASSUME NEW r \in Settings!Contents
    PROVE  r # Settings!Absent /\ r # Settings!Torn /\ r # Settings!Closed
  <1>1. DOMAIN r = {"credentials", "other"} BY DEF Settings!Contents
  <1>2. /\ DOMAIN Settings!Absent = {"state"}
        /\ DOMAIN Settings!Torn = {"state"}
        /\ DOMAIN Settings!Closed = {"state"}
    BY DEF Settings!Absent, Settings!Torn, Settings!Closed
  <1>3. "credentials" \in DOMAIN r /\ "credentials" \notin DOMAIN Settings!Absent
        /\ "credentials" \notin DOMAIN Settings!Torn
        /\ "credentials" \notin DOMAIN Settings!Closed
    BY <1>1, <1>2
  <1> QED BY <1>3

(* The key of the provider p that a file f keeps.                            *)
KeyIn(f, p) == IF f \in {Settings!Absent, Settings!Torn} THEN NoKey ELSE f.credentials[p].key

(* Where no write failed and none came from an older page, a file keeps the   *)
(* keys chosen last; the settings from before users go to one user.          *)
SettingsInv ==
  /\ Settings!TypeOK
  /\ \A u \in Users \ excused, p \in Providers : KeyIn(file[u], p) = chosen[u][p]
  /\ cut \/ Cardinality(heirs) <= 1
  /\ cut \/ ~legacy \/ heirs = {}

(* Settings without a key are settings.                                      *)
LEMMA BlankSettings == Settings!NoRecord \in Settings!Records /\
      Settings!Empty \in Settings!Contents /\ Settings!OldSettings \in Settings!Contents
               /\ \A p \in Providers :
                     Settings!OldSettings.credentials[p].key = NoKey /\
                           Settings!Empty.credentials[p].key = NoKey
  <1>1. Settings!NoRecord \in Settings!Records BY DEF Settings!NoRecord, Settings!Records
  <1>2. Settings!Empty \in Settings!Contents BY <1>1 DEF Settings!Empty, Settings!Contents
  <1>3. Settings!OldSettings \in Settings!Contents
    BY <1>2 DEF Settings!OldSettings, Settings!Contents
  <1>4. \A p \in Providers :
        Settings!OldSettings.credentials[p].key = NoKey /\
              Settings!Empty.credentials[p].key = NoKey
    BY DEF Settings!OldSettings, Settings!Empty, Settings!NoRecord
  <1> QED BY <1>1, <1>2, <1>3, <1>4

(* What reading settings does: the migration alone changes files, and it     *)
(* changes no key.                                                           *)
LEMMA SettingsReads ==
    ASSUME Settings!TypeOK, NEW u \in Users
    PROVE  /\ Settings!Read(u) \in Settings!Contents
           /\ Settings!Migrated(u) \in [Users -> Settings!Contents \union {Settings!Absent,
                 Settings!Torn}]
           /\ \A v \in Users : v # u => Settings!Migrated(u)[v] = file[v]
           /\ \A v \in Users, p \in Providers :
                 KeyIn(Settings!Migrated(u)[v], p) = KeyIn(file[v], p)
           /\ \A p \in Providers : KeyIn(file[u], p) = Settings!Record(u, p).key
           /\ \A p \in Providers : Settings!Record(u, p) \in Settings!Records
  <1>1. Settings!Migrated(u) \in [Users -> Settings!Contents \union {Settings!Absent,
        Settings!Torn}]
    BY BlankSettings DEF Settings!Migrated, Settings!TypeOK
  <1>2. \A v \in Users : v # u => Settings!Migrated(u)[v] = file[v]
    BY DEF Settings!Migrated, Settings!TypeOK
  <1>3. Settings!Read(u) \in Settings!Contents
    BY <1>1, BlankSettings DEF Settings!Read
  <1>4. \A p \in Providers : KeyIn(Settings!Migrated(u)[u], p) = KeyIn(file[u], p)
    BY BlankSettings, SettingsAreNotAFile
       DEF Settings!Migrated, Settings!TypeOK, Settings!Heir, KeyIn
  <1>5. \A p \in Providers : KeyIn(Settings!Migrated(u)[u], p) = Settings!Record(u, p).key
    BY BlankSettings DEF KeyIn, Settings!Read, Settings!Record
  <1>6. \A p \in Providers : Settings!Record(u, p) \in Settings!Records
    BY <1>3 DEF Settings!Record, Settings!Contents
  <1>7. \A v \in Users, p \in Providers : KeyIn(Settings!Migrated(u)[v], p) = KeyIn(file[v], p)
    BY <1>2, <1>4
  <1> QED BY <1>1, <1>2, <1>3, <1>4, <1>5, <1>6, <1>7

(* The migration leaves one heir.                                            *)
LEMMA MigrationHasOneHeir ==
    ASSUME SettingsInv, NEW u \in Users, Settings!Migrate(u)
    PROVE  /\ legacy' \in BOOLEAN /\ heirs' \subseteq Users /\ cut' \in BOOLEAN
           /\ cut' \/ Cardinality(heirs') <= 1
           /\ cut' \/ ~legacy' \/ heirs' = {}
  <1>1. legacy' \in BOOLEAN /\ heirs' \subseteq Users /\ cut' \in BOOLEAN
    BY DEF Settings!Migrate, SettingsInv, Settings!TypeOK
  <1>2. CASE Settings!Heir(u)
    <2>1. Cardinality({} \union {u}) <= 1 BY FS_Singleton
    <2> QED BY <1>1, <1>2, <2>1
        DEF Settings!Migrate, SettingsInv, Settings!TypeOK, Settings!Heir
  <1>3. CASE ~Settings!Heir(u) BY <1>1, <1>3 DEF Settings!Migrate, SettingsInv, Settings!TypeOK
  <1> QED BY <1>2, <1>3

(* What a write leaves in the file, or excuses the user from.                *)
LEMMA SettingsWrites ==
    ASSUME Settings!SettingsAssumption, SettingsInv, NEW u \in Users,
           NEW s \in Settings!Contents, NEW over \in BOOLEAN, Settings!Write(u, s, over)
    PROVE  /\ file' \in [Users -> Settings!Contents \union {Settings!Absent, Settings!Torn}]
           /\ excused' \subseteq Users /\ changes' \in 0..MaxChanges
           /\ \A v \in Users \ excused', p \in Providers : v # u =>
                 v \notin excused /\ KeyIn(file'[v], p) = KeyIn(file[v], p)
           /\ u \notin excused' =>
                 ~over /\ u \notin excused /\ \A p \in Providers :
                       KeyIn(file'[u], p) = s.credentials[p].key
  <1>1. changes' \in 0..MaxChanges
    BY DEF Settings!Write, SettingsInv, Settings!TypeOK, Settings!SettingsAssumption
  <1>2. CASE /\ file' = [file EXCEPT ![u] = s]
             /\ excused' = IF over THEN excused \union {u} ELSE excused
    <2>1. /\ file' \in [Users -> Settings!Contents \union {Settings!Absent, Settings!Torn}]
          /\ excused' \subseteq Users
      BY <1>2 DEF SettingsInv, Settings!TypeOK
    <2>2. \A v \in Users : v # u => file'[v] = file[v] BY <1>2 DEF SettingsInv, Settings!TypeOK
    <2>3. file'[u] = s BY <1>2 DEF SettingsInv, Settings!TypeOK
    <2>4. \A p \in Providers : KeyIn(file'[u], p) = s.credentials[p].key
      BY <2>3, SettingsAreNotAFile DEF KeyIn
    <2>5. excused \subseteq excused' /\ (over => u \in excused') BY <1>2
    <2> QED BY <1>1, <2>1, <2>2, <2>4, <2>5
  <1>3. CASE /\ file' \in {Settings!Migrated(u), [file EXCEPT ![u] = Settings!Torn]}
             /\ excused' = excused \union {u}
    <2>1. /\ file' \in [Users -> Settings!Contents \union {Settings!Absent, Settings!Torn}]
          /\ excused' \subseteq Users
      BY <1>3, SettingsReads DEF SettingsInv, Settings!TypeOK
    <2>2. \A v \in Users : v # u => file'[v] = file[v]
      BY <1>3, SettingsReads DEF SettingsInv, Settings!TypeOK
    <2> QED BY <1>1, <1>3, <2>1, <2>2
  <1> QED BY <1>2, <1>3, Zenon DEF Settings!Write

(* A record replaced in what was read: the other providers' keys stay.        *)
LEMMA SetsRecord ==
    ASSUME Settings!TypeOK, NEW u \in Users, NEW p \in Providers, NEW r \in Settings!Records
    PROVE  LET s == [Settings!Read(u) EXCEPT !.credentials[p] = r]
           IN  /\ s \in Settings!Contents
               /\ \A q \in Providers :
                     s.credentials[q].key = IF q = p THEN r.key ELSE Settings!Record(u, q).key
  <1>1. Settings!Read(u) \in Settings!Contents BY SettingsReads
  <1> QED BY <1>1 DEF Settings!Contents, Settings!Record

(* A write of one record preserves the invariant when the choice follows it.  *)
LEMMA WritesRecord ==
    ASSUME Settings!SettingsAssumption, SettingsInv, NEW u \in Users, NEW p \in Providers,
           NEW r \in Settings!Records, Settings!WriteRecord(u, p, r),
           page' = page,
           chosen' \in [Users -> [Providers -> Keys \union {NoKey}]],
           \A v \in Users, q \in Providers : v \notin excused =>
              chosen'[v][q] = IF v = u /\ q = p THEN r.key ELSE chosen[v][q]
    PROVE  SettingsInv'
  <1>1. PICK s : s = [Settings!Read(u) EXCEPT !.credentials[p] = r] OBVIOUS
  <1>2. Settings!TypeOK BY DEF SettingsInv
  <1>3. /\ s \in Settings!Contents
        /\ \A q \in Providers :
              s.credentials[q].key = IF q = p THEN r.key ELSE Settings!Record(u, q).key
    BY <1>1, <1>2, SetsRecord
  <1>4. Settings!Write(u, s, FALSE) BY <1>1 DEF Settings!WriteRecord
  <1>5. Settings!Migrate(u) BY <1>4 DEF Settings!Write
  <1>8. Settings!TypeOK'
    BY <1>2, <1>3, <1>4, <1>5, SettingsWrites, MigrationHasOneHeir DEF Settings!TypeOK
  <1>9. \A v \in Users \ excused', q \in Providers : KeyIn(file'[v], q) = chosen'[v][q]
    <2> TAKE v \in Users \ excused', q \in Providers
    <2>1. v \notin excused BY <1>3, <1>4, SettingsWrites
    <2>2. KeyIn(file[v], q) = chosen[v][q] BY <2>1 DEF SettingsInv
    <2>3. CASE v # u
      <3>1. chosen'[v][q] = chosen[v][q] BY <2>1, <2>3
      <3>2. KeyIn(file'[v], q) = KeyIn(file[v], q)
        <4>1. PICK over : over = FALSE OBVIOUS
        <4>2. over \in BOOLEAN /\ Settings!Write(u, s, over) BY <1>4, <4>1
        <4>3. s \in Settings!Contents BY <1>3
        <4>4. \A w \in Users \ excused', r1 \in Providers : w # u =>
                  w \notin excused /\ KeyIn(file'[w], r1) = KeyIn(file[w], r1)
          BY <4>2, <4>3, SettingsWrites
        <4> QED BY <2>3, <4>4
      <3> QED BY <2>2, <3>1, <3>2
    <2>4. CASE v = u
      <3>1. chosen'[u][q] = IF q = p THEN r.key ELSE chosen[u][q] BY <2>1, <2>4
      <3>2. KeyIn(file'[u], q) = s.credentials[q].key BY <1>3, <1>4, <2>4, SettingsWrites
      <3>3. KeyIn(file[u], q) = Settings!Record(u, q).key BY <1>2, SettingsReads
      <3> QED BY <1>3, <2>2, <2>4, <3>1, <3>2, <3>3
    <2> QED BY <2>3, <2>4
  <1> QED BY <1>5, <1>8, <1>9, MigrationHasOneHeir DEF SettingsInv

(* Every operation on the settings preserves the invariant.                  *)
LEMMA SettingsStep == ASSUME Settings!SettingsAssumption, SettingsInv, NEW u \in Users PROVE
     /\ Settings!MigrationCutShort(u) => SettingsInv'
     /\ Settings!SetWorkspaceRoot(u) => SettingsInv'
     /\ Settings!Load(u) => SettingsInv'
     /\ Settings!Save(u) => SettingsInv'
     /\ Settings!Close(u) => SettingsInv'
     /\ \A p \in Providers : 
          /\ \A k \in Keys : Settings!SetApiKey(u, p, k) => SettingsInv'
          /\ Settings!RemoveApiKey(u, p) => SettingsInv'
          /\ Settings!SetModels(u, p) => SettingsInv'
          /\ Settings!SetEnabled(u, p) => SettingsInv'
  <1>0. Settings!TypeOK /\ Settings!Read(u) \in Settings!Contents
    BY SettingsReads DEF SettingsInv
  <1>1. ASSUME Settings!MigrationCutShort(u) PROVE SettingsInv'
    <2>1. Settings!TypeOK'
      BY <1>0, <1>1, SettingsReads DEF Settings!MigrationCutShort, Settings!TypeOK
    <2> QED BY <1>0, <1>1, <2>1, SettingsReads DEF Settings!MigrationCutShort, SettingsInv
  <1>2. ASSUME Settings!SetWorkspaceRoot(u) PROVE SettingsInv'
    <2>1. PICK s : s = [Settings!Read(u) EXCEPT !.other = "changed"] OBVIOUS
    <2>2. /\ s \in Settings!Contents
          /\ \A p \in Providers : s.credentials[p].key = Settings!Record(u, p).key
      BY <1>0, <2>1 DEF Settings!Contents, Settings!Record
    <2>3. Settings!Write(u, s, FALSE) /\ page' = page /\ chosen' = chosen
      BY <1>2, <2>1 DEF Settings!SetWorkspaceRoot
    <2>4. Settings!Migrate(u) BY <2>3 DEF Settings!Write
    <2>5. Settings!TypeOK'
      BY <1>0, <2>2, <2>3, <2>4, SettingsWrites, MigrationHasOneHeir DEF Settings!TypeOK
    <2>6. \A v \in Users \ excused', p \in Providers :
          KeyIn(file'[v], p) = KeyIn(file[v], p) /\ v \notin excused
      <3> TAKE v \in Users \ excused', p \in Providers
      <3>1. CASE v # u BY <2>2, <2>3, <3>1, SettingsWrites
      <3>2. CASE v = u
        <4>1. v \notin excused /\ KeyIn(file'[u], p) = s.credentials[p].key
          BY <2>2, <2>3, <3>2, SettingsWrites
        <4>2. KeyIn(file[u], p) = Settings!Record(u, p).key BY <1>0, SettingsReads
        <4> QED BY <2>2, <3>2, <4>1, <4>2
      <3> QED BY <3>1, <3>2
    <2> QED BY <2>3, <2>4, <2>5, <2>6, MigrationHasOneHeir DEF SettingsInv
  <1>3. ASSUME Settings!Load(u) PROVE SettingsInv'
    <2>1. Settings!Migrate(u) BY <1>3 DEF Settings!Load
    <2>2. Settings!TypeOK'
      BY <1>0, <1>3, <2>1, SettingsReads, MigrationHasOneHeir DEF Settings!Load, Settings!TypeOK
    <2> QED BY <1>0, <1>3, <2>1, <2>2, SettingsReads, MigrationHasOneHeir
        DEF Settings!Load, SettingsInv
  <1>4. ASSUME Settings!Save(u) PROVE SettingsInv'
    <2>0. page[u] \in Settings!Contents BY <1>0, <1>4 DEF Settings!Save, Settings!TypeOK
    <2>1. PICK s : s = Settings!Saved(u) OBVIOUS
    <2>2. s \in Settings!Contents BY <1>0, <2>0, <2>1 DEF Settings!Contents, Settings!Saved
    <2>3. /\ Settings!Write(u, s, s.credentials # Settings!Read(u).credentials)
          /\ page' = page
          /\ chosen' = chosen
      BY <1>4, <2>1 DEF Settings!Save
    <2>4. Settings!Migrate(u) BY <2>3 DEF Settings!Write
    <2>5. Settings!TypeOK'
      BY <1>0, <2>2, <2>3, <2>4, SettingsWrites, MigrationHasOneHeir DEF Settings!TypeOK
    <2>6. \A v \in Users \ excused', p \in Providers :
          KeyIn(file'[v], p) = KeyIn(file[v], p) /\ v \notin excused
      <3> TAKE v \in Users \ excused', p \in Providers
      <3>1. CASE v # u BY <2>2, <2>3, <3>1, SettingsWrites
      <3>2. CASE v = u
        <4>1. /\ s.credentials = Settings!Read(u).credentials
              /\ v \notin excused
              /\ KeyIn(file'[u], p) = s.credentials[p].key
          BY <2>2, <2>3, <3>2, SettingsWrites
        <4>2. KeyIn(file[u], p) = Settings!Record(u, p).key BY <1>0, SettingsReads
        <4> QED BY <3>2, <4>1, <4>2 DEF Settings!Record
      <3> QED BY <3>1, <3>2
    <2> QED BY <2>3, <2>4, <2>5, <2>6, MigrationHasOneHeir DEF SettingsInv
  <1>5. ASSUME Settings!Close(u) PROVE SettingsInv'
    <2>1. Settings!TypeOK' BY <1>0, <1>5 DEF Settings!Close, Settings!TypeOK
    <2> QED BY <1>5, <2>1 DEF Settings!Close, SettingsInv
  <1>6. ASSUME NEW p \in Providers, NEW k \in Keys, Settings!SetApiKey(u, p, k)
      PROVE SettingsInv'
    <2>1. PICK r : r = [key |-> k, enabled |-> TRUE, exists |-> TRUE] OBVIOUS
    <2>2. r \in Settings!Records /\ r.key = k BY <2>1 DEF Settings!Records
    <2>3. /\ page' = page /\ chosen' \in [Users -> [Providers -> Keys \union {NoKey}]]
          /\ \A v \in Users, q \in Providers :
                chosen'[v][q] = IF v = u /\ q = p THEN r.key ELSE chosen[v][q]
      BY <1>0, <1>6, <2>2 DEF Settings!SetApiKey, Settings!TypeOK
    <2> QED BY <1>6, <2>1, <2>2, <2>3, WritesRecord DEF Settings!SetApiKey
  <1>7. ASSUME NEW p \in Providers, Settings!RemoveApiKey(u, p) PROVE SettingsInv'
    <2>1. PICK r : r = [key |-> NoKey, enabled |-> FALSE, exists |-> TRUE] OBVIOUS
    <2>2. r \in Settings!Records /\ r.key = NoKey BY <2>1 DEF Settings!Records
    <2>3. /\ page' = page /\ chosen' \in [Users -> [Providers -> Keys \union {NoKey}]]
          /\ \A v \in Users, q \in Providers :
                chosen'[v][q] = IF v = u /\ q = p THEN r.key ELSE chosen[v][q]
      BY <1>0, <1>7, <2>2 DEF Settings!RemoveApiKey, Settings!TypeOK
    <2> QED BY <1>7, <2>1, <2>2, <2>3, WritesRecord DEF Settings!RemoveApiKey
  <1>8. ASSUME NEW p \in Providers, Settings!SetModels(u, p) PROVE SettingsInv'
    <2>1. PICK r : r = [Settings!Record(u, p) EXCEPT !.exists = TRUE] OBVIOUS
    <2>2. r \in Settings!Records /\ r.key = Settings!Record(u, p).key
      BY <1>0, <2>1, SettingsReads DEF Settings!Records
    <2>3. \A v \in Users, q \in Providers : v \notin excused =>
              chosen'[v][q] = IF v = u /\ q = p THEN r.key ELSE chosen[v][q]
      BY <1>0, <1>8, <2>2, SettingsReads DEF Settings!SetModels, SettingsInv
    <2>4. Settings!WriteRecord(u, p, r) BY <1>8, <2>1 DEF Settings!SetModels
    <2>5. page' = page /\ chosen' = chosen BY <1>8 DEF Settings!SetModels
    <2>6. chosen' \in [Users -> [Providers -> Keys \union {NoKey}]]
      BY <1>0, <2>5 DEF Settings!TypeOK
    <2> QED BY <2>2, <2>3, <2>4, <2>5, <2>6, WritesRecord
  <1>9. ASSUME NEW p \in Providers, Settings!SetEnabled(u, p) PROVE SettingsInv'
    <2>1. PICK on \in BOOLEAN :
          Settings!WriteRecord(u, p, [Settings!Record(u, p) EXCEPT !.enabled = on])
      BY <1>9 DEF Settings!SetEnabled
    <2>2. PICK r : r = [Settings!Record(u, p) EXCEPT !.enabled = on] OBVIOUS
    <2>3. Settings!Record(u, p).key # NoKey BY <1>9 DEF Settings!SetEnabled
    <2>4. Settings!Record(u, p).exists
      BY <1>0, <2>3, SettingsReads DEF Settings!Records, Settings!NoRecord
    <2>5. r \in Settings!Records /\ r.key = Settings!Record(u, p).key
      BY <1>0, <2>2, <2>4, SettingsReads DEF Settings!Records
    <2>6. \A v \in Users, q \in Providers : v \notin excused =>
              chosen'[v][q] = IF v = u /\ q = p THEN r.key ELSE chosen[v][q]
      BY <1>0, <1>9, <2>5, SettingsReads DEF Settings!SetEnabled, SettingsInv
    <2>7. Settings!WriteRecord(u, p, r) BY <2>1, <2>2
    <2>8. page' = page /\ chosen' = chosen BY <1>9 DEF Settings!SetEnabled
    <2>9. chosen' \in [Users -> [Providers -> Keys \union {NoKey}]]
      BY <1>0, <2>8 DEF Settings!TypeOK
    <2> QED BY <2>5, <2>6, <2>7, <2>8, <2>9, WritesRecord
  <1> QED BY <1>1, <1>2, <1>3, <1>4, <1>5, <1>6, <1>7, <1>8, <1>9

(* The invariant holds, for any users, providers and keys.                   *)
LEMMA SettingsInvariance ==
    ASSUME Settings!SettingsAssumption
    PROVE  Settings!Spec => []SettingsInv
  <1>1. Settings!Init => SettingsInv
    <2> SUFFICES ASSUME Settings!Init PROVE SettingsInv OBVIOUS
    <2>1. file \in [Users -> Settings!Contents \union {Settings!Absent, Settings!Torn}]
          /\ page \in [Users -> Settings!Contents \union {Settings!Closed}]
          /\ excused \subseteq Users /\ heirs \subseteq Users
          /\ chosen \in [Users -> [Providers -> Keys \union {NoKey}]]
      BY DEF Settings!Init
    <2>2. legacy \in BOOLEAN /\ cut \in BOOLEAN BY DEF Settings!Init
    <2>3. changes \in 0..MaxChanges BY DEF Settings!Init, Settings!SettingsAssumption
    <2>4. Cardinality(heirs) <= 1 /\ heirs = {} BY FS_EmptySet DEF Settings!Init
    <2>5. \A u \in Users \ excused, p \in Providers : KeyIn(file[u], p) = chosen[u][p]
      BY DEF Settings!Init, KeyIn
    <2> QED BY <2>1, <2>2, <2>3, <2>4, <2>5 DEF SettingsInv, Settings!TypeOK
  <1>2. SettingsInv /\ [Settings!Next]_(Settings!vars) => SettingsInv'
    <2> SUFFICES ASSUME SettingsInv, [Settings!Next]_(Settings!vars) PROVE SettingsInv' OBVIOUS
    <2>1. CASE UNCHANGED Settings!vars BY <2>1 DEF Settings!vars, SettingsInv, Settings!TypeOK
    <2>2. CASE Settings!Next BY <2>2, SettingsStep DEF Settings!Next
    <2> QED BY <2>1, <2>2
  <1> QED BY <1>1, <1>2, PTL DEF Settings!Spec

(* What the settings say is what the file keeps.                             *)
LEMMA KeysAreThoseOfTheFile == SettingsInv => Settings!KeysAreAsChosen
  BY SettingsReads DEF Settings!KeysAreAsChosen, SettingsInv

(* The stored key of a provider is the one its user saved last, unless a     *)
(* write of theirs failed or a page loaded before it was saved as a whole    *)
(* (SettingsFileStore.js, providerCredentialService.js).                     *)
THEOREM KeysStay == Settings!Spec => []KeysAreAsChosen
  <1>1. Settings!SettingsAssumption BY ServerAssumption
  <1>2. Settings!Spec => []SettingsInv BY <1>1, SettingsInvariance
  <1>3. SettingsInv => KeysAreAsChosen BY KeysAreThoseOfTheFile DEF KeysAreAsChosen
  <1> QED BY <1>2, <1>3, PTL

(* The settings from before there were users go to one user alone, unless    *)
(* their migration was cut short (SettingsFileStore.js).                     *)
THEOREM OneInherits == Settings!Spec => []OneHeir
  <1>1. Settings!SettingsAssumption BY ServerAssumption
  <1>2. Settings!Spec => []SettingsInv BY <1>1, SettingsInvariance
  <1>3. SettingsInv => OneHeir
    BY SameLibrary DEF SettingsInv, OneHeir, Settings!OneHeir
  <1> QED BY <1>2, <1>3, PTL

-----------------------------------------------------------------------------
(* Accounts: requests about a code or a token read the record of an account,  *)
(* await, and write what is the record by then.                              *)

(* Who waits for the answer of a request stands at the step it is about. *)
PageShows(k, p) ==
    /\ forgot[p].loading
    /\ \/ call[k].op = "forgot" /\ forgot[p].step = 0
       \/ call[k].op = "verify" /\ forgot[p].step = 1
       \/ call[k].op = "reset" /\ forgot[p].step = 2

(* What a request holds at the await it stands at.                           *)
RequestOK(k) ==
    call[k] # Accounts!Idle =>
        /\ call[k].at # "findUser" /\ call[k].op # "signup" => call[k].id \in Accounts!Ids
        /\ call[k].at = "mail" => call[k].code \in 1..codes
        /\ call[k].op = "delete" => call[k].token = 0
        /\ \A p \in call[k].from : PageShows(k, p)

(* Every variable keeps its type, and each page waits for one request.       *)
AccountsKept ==
    /\ Accounts!TypeOK
    /\ \A k \in Requests : RequestOK(k)
    /\ \A k, l \in Requests : (k # l /\ call[k] # Accounts!Idle /\ call[l] # Accounts!Idle) =>
          call[k].from \cap call[l].from = {}

(* The requests that have found a code wrong and are to count it. *)
Pend(i) == {k \in Requests : Accounts!At(k, "verify", "increment") /\ call[k].id = i}

(* A code was found wrong at most as often as its record counts, and once     *)
(* more for each request that is to count.                                   *)
Guesses ==
    /\ \A c \in 1..MaxCodes :
          misses[c] <= MaxAttempts + Cardinality(Requests) - 1 /\ (c > codes => misses[c] = 0)
    /\ \A i \in Accounts!Ids : record[i] # Accounts!NoRecord =>
          /\ record[i].code <= codes
          /\ misses[record[i].code] <= record[i].attempts + Cardinality(Pend(i))
    /\ \A i, j \in Accounts!Ids :
          (record[i] # Accounts!NoRecord /\ record[j] # Accounts!NoRecord /\
                record[i].code = record[j].code) => i = j

(* A request with the token t that is to put it into the record, or that has *)
(* found it there and is on its way to the removal of the record i.          *)
Marking(c, t) == c # Accounts!Idle /\ c.op = "verify" /\ c.at = "mark" /\ c.token = t
Resetting(c, i, t) ==
    /\ c # Accounts!Idle /\ c.op = "reset" /\ c.at \in {"hash", "update", "deleteRecord"}
    /\ c.id = i /\ c.token = t
HasToken(i, t) == record[i] # Accounts!NoRecord /\ record[i].token = t

(* A token is in one place: with the request that made it, or in one record, *)
(* or, once the record was removed after its use, nowhere.                   *)
InOnePlace(t) ==
    /\ \A i, j \in Accounts!Ids : HasToken(i, t) /\ HasToken(j, t) => i = j
    /\ \A k, l \in Requests : Marking(call[k], t) /\ Marking(call[l], t) => k = l
    /\ \A k \in Requests : Marking(call[k], t) =>
          t \notin spent /\ \A i \in Accounts!Ids : ~HasToken(i, t)
    /\ \A k \in Requests, i \in Accounts!Ids : Resetting(call[k], i, t) =>
          /\ \A l \in Requests : ~Marking(call[l], t)
          /\ \A j \in Accounts!Ids : j # i => ~HasToken(j, t)
    /\ t \in spent => (\A l \in Requests : ~Marking(call[l], t)) /\ \A i \in Accounts!Ids :
          ~HasToken(i, t)
    /\ t > tokens =>
          /\ t \notin spent
          /\ \A i \in Accounts!Ids : ~HasToken(i, t)
          /\ \A k \in Requests : ~Marking(call[k], t) /\ \A i \in Accounts!Ids :
                ~Resetting(call[k], i, t)

(* A request that resets a password has a token.                             *)
Tokens ==
    /\ \A t \in 1 .. MaxTokens : InOnePlace(t)
    /\ \A k \in Requests, i \in Accounts!Ids : ~Resetting(call[k], i, 0)

(* A request that has checked the token t and is to change the password with *)
(* it, and one that has.                                                     *)
Proved(c, t) ==
    c # Accounts!Idle /\ c.op = "reset" /\ c.at \in {"hash", "update"} /\ c.token = t
Changed(c, t) ==
    c # Accounts!Idle /\ c.op = "reset" /\ c.at = "deleteRecord" /\ c.token = t

Changers(t) == {k \in Requests : Changed(call[k], t)}
Provers(t) == {k \in Requests : Proved(call[k], t)}

(* As long as no record was removed after a use of the token, each request    *)
(* that has used it still is to remove one; then no request checks it any    *)
(* more, and there are as many uses to come as had checked it.               *)
UsesCounted(t) ==
    IF t \in spent THEN uses[t] + Cardinality(Provers(t)) <= Cardinality(Requests)
                   ELSE uses[t] <= Cardinality(Changers(t))

(* The inductive invariant of Accounts.                                      *)
AccountsInv == AccountsKept /\ Guesses /\ Tokens /\ \A t \in 1 .. MaxTokens : UsesCounted(t)

(* What a page is.                                                           *)
PageStates == [step : 0 .. 3, loading : BOOLEAN, token : 0 .. MaxTokens]

(* What is kept of the requests and the pages. *)
RequestsWait ==
    /\ call \in [Requests -> Accounts!Call \union {Accounts!Idle}]
    /\ forgot \in [Pages -> PageStates]
    /\ \A k \in Requests : RequestOK(k)
    /\ \A k, l \in Requests : (k # l /\ call[k] # Accounts!Idle /\ call[l] # Accounts!Idle) =>
          call[k].from \cap call[l].from = {}

(* What AccountsKept is made of.                                             *)
LEMMA AccountsWhole == AccountsKept <=>
      /\ RequestsWait
      /\ account \in 0 .. accounts /\ accounts \in Accounts!Ids
      /\ record \in [Accounts!Ids -> Accounts!Record \union {Accounts!NoRecord}]
      /\ codes \in 0 .. MaxCodes /\ tokens \in 0 .. MaxTokens
      /\ mailed \subseteq 1 .. codes
      /\ misses \in [1 .. MaxCodes -> Nat]
      /\ spent \subseteq 1 .. MaxTokens
      /\ uses \in [1 .. MaxTokens -> Nat]
  BY DEF AccountsKept, RequestsWait, Accounts!TypeOK, PageStates

(* A request that is handled is not idle.                                    *)
LEMMA RequestsAreNotIdle == \A c \in Accounts!Call : c # Accounts!Idle
  BY DEF Accounts!Call, Accounts!Idle

(* A request goes on to its next await; its page waits. *)
LEMMA RequestGoesOn ==
    ASSUME RequestsWait, NEW k \in Requests, call[k] # Accounts!Idle, NEW c \in Accounts!Call,
           call' = [call EXCEPT ![k] = c],
           c.op = call[k].op, c.from = call[k].from, forgot' = forgot,
           codes' \in Nat, codes \in Nat, codes <= codes',
           c.at # "findUser" /\ c.op # "signup" => c.id \in Accounts!Ids,
           c.at = "mail" => c.code \in 1..codes',
           c.op = "delete" => c.token = 0
    PROVE  RequestsWait'
  <1>1. call'[k] = c /\ \A l \in Requests : l # k => call'[l] = call[l] BY DEF RequestsWait
  <1>2. call' \in [Requests -> Accounts!Call \union {Accounts!Idle}] /\
        forgot' \in [Pages -> PageStates]
    BY DEF RequestsWait
  <1>3. \A l \in Requests : RequestOK(l)'
    <2> TAKE l \in Requests
    <2>1. RequestOK(l) BY DEF RequestsWait
    <2>2. CASE l = k BY <1>1, <2>1, <2>2 DEF RequestOK, PageShows
    <2>3. CASE l # k
      <3>1. call'[l] = call[l] BY <1>1, <2>3
      <3> QED BY <2>1, <3>1 DEF RequestOK, PageShows
    <2> QED BY <2>2, <2>3
  <1>4. (\A m, l \in Requests : (m # l /\ call[m] # Accounts!Idle /\ call[l] # Accounts!Idle) =>
        call[m].from \cap call[l].from = {})'
    BY <1>1 DEF RequestsWait
  <1> QED BY <1>2, <1>3, <1>4 DEF RequestsWait

(* A request comes to its end; its page goes on. *)
LEMMA RequestIsOver ==
    ASSUME RequestsWait, NEW k \in Requests, call[k] # Accounts!Idle,
           call' = [call EXCEPT ![k] = Accounts!Idle],
           forgot' \in [Pages -> PageStates],
           \A p \in Pages : p \notin call[k].from => forgot'[p] = forgot[p],
           codes' \in Nat, codes \in Nat, codes <= codes'
    PROVE  RequestsWait'
  <1>1. call'[k] = Accounts!Idle /\ \A l \in Requests : l # k => call'[l] = call[l]
    BY DEF RequestsWait
  <1>2. call' \in [Requests -> Accounts!Call \union {Accounts!Idle}] BY DEF RequestsWait
  <1>3. \A l \in Requests : RequestOK(l)'
    <2> TAKE l \in Requests
    <2>1. CASE l = k BY <1>1, <2>1 DEF RequestOK
    <2>2. CASE l # k /\ call[l] # Accounts!Idle
      <3>1. RequestOK(l) /\ call'[l] = call[l] /\ call[l].from \cap call[k].from = {}
        BY <1>1, <2>2 DEF RequestsWait
      <3>2. call[l].from \subseteq Pages BY <2>2 DEF RequestsWait, Accounts!Call
      <3>3. \A p \in call[l].from : forgot'[p] = forgot[p] BY <3>1, <3>2
      <3> QED BY <2>2, <3>1, <3>3 DEF RequestOK, PageShows
    <2>3. CASE l # k /\ call[l] = Accounts!Idle BY <1>1, <2>3 DEF RequestOK
    <2> QED BY <2>1, <2>2, <2>3
  <1>4. (\A m, l \in Requests : (m # l /\ call[m] # Accounts!Idle /\ call[l] # Accounts!Idle) =>
        call[m].from \cap call[l].from = {})'
    BY <1>1 DEF RequestsWait
  <1> QED BY <1>2, <1>3, <1>4 DEF RequestsWait

(* A request is refused.                                                     *)
LEMMA RequestIsRefused ==
    ASSUME RequestsWait, NEW k \in Requests, call[k] # Accounts!Idle, Accounts!Refuse(k),
           codes' \in Nat, codes \in Nat, codes <= codes'
    PROVE  RequestsWait' /\ call' = [call EXCEPT ![k] = Accounts!Idle]
  <1>1. /\ forgot' \in [Pages -> PageStates]
        /\ \A p \in Pages : p \notin call[k].from => forgot'[p] = forgot[p]
    <2>1. \A p \in Pages :
          [forgot[p] EXCEPT !.loading = FALSE] \in PageStates /\ forgot[p] \in PageStates
      BY DEF RequestsWait, PageStates
    <2> QED BY <2>1 DEF Accounts!Refuse
  <1> QED BY <1>1, RequestIsOver DEF Accounts!Refuse

(* A request is answered.                                                    *)
LEMMA RequestIsAnswered ==
    ASSUME RequestsWait, NEW k \in Requests, call[k] # Accounts!Idle, NEW t \in 0..MaxTokens,
           Accounts!Answer(k, t),
           codes' \in Nat, codes \in Nat, codes <= codes'
    PROVE  RequestsWait' /\ call' = [call EXCEPT ![k] = Accounts!Idle]
  <1>1. /\ forgot' \in [Pages -> PageStates]
        /\ \A p \in Pages : p \notin call[k].from => forgot'[p] = forgot[p]
    <2>1. ASSUME NEW p \in Pages PROVE forgot[p] \in PageStates BY DEF RequestsWait
    <2>2. ASSUME NEW p \in Pages, p \in call[k].from
          PROVE  [step |-> forgot[p].step + 1, loading |-> FALSE, token |-> t] \in PageStates
      <3>1. PageShows(k, p) BY <2>2 DEF RequestsWait, RequestOK
      <3>2. forgot[p].step + 1 \in 0..3 BY <3>1 DEF PageShows
      <3> QED BY <3>2 DEF PageStates
    <2> QED BY <2>1, <2>2 DEF Accounts!Answer
  <1> QED BY <1>1, RequestIsOver DEF Accounts!Answer

(* A request is begun, by a page that waited for none, or by nobody's page. *)
LEMMA RequestBegins ==
    ASSUME RequestsWait, NEW k \in Requests, call[k] = Accounts!Idle, NEW c \in Accounts!Call,
           call' = [call EXCEPT ![k] = c],
           c.at = "findUser", c.op = "delete" => c.token = 0,
           forgot' \in [Pages -> PageStates],
           \A p \in Pages : p \notin c.from => forgot'[p] = forgot[p],
           \A p \in c.from : ~forgot[p].loading, \A p \in c.from : PageShows(k, p)',
           codes' = codes
    PROVE  RequestsWait'
  <1>1. call'[k] = c /\ \A l \in Requests : l # k => call'[l] = call[l] BY DEF RequestsWait
  <1>2. call' \in [Requests -> Accounts!Call \union {Accounts!Idle}] BY DEF RequestsWait
  <1>3. \A l \in Requests : l # k /\ call[l] # Accounts!Idle =>
        call[l].from \subseteq Pages /\ c.from \cap call[l].from = {}
    <2> SUFFICES ASSUME NEW l \in Requests, l # k, call[l] # Accounts!Idle
                 PROVE  call[l].from \subseteq Pages /\ c.from \cap call[l].from = {}
      OBVIOUS
    <2>1. call[l].from \subseteq Pages BY DEF RequestsWait, Accounts!Call
    <2>2. \A p \in call[l].from : forgot[p].loading BY DEF RequestsWait, RequestOK, PageShows
    <2> QED BY <2>1, <2>2
  <1>4. \A l \in Requests : RequestOK(l)'
    <2> TAKE l \in Requests
    <2>1. CASE l = k BY <1>1, <2>1 DEF RequestOK
    <2>2. CASE l # k /\ call[l] # Accounts!Idle
      <3>1. RequestOK(l) /\ call'[l] = call[l] BY <1>1, <2>2 DEF RequestsWait
      <3>2. \A p \in call[l].from : forgot'[p] = forgot[p] BY <1>3, <2>2
      <3> QED BY <2>2, <3>1, <3>2 DEF RequestOK, PageShows
    <2>3. CASE l # k /\ call[l] = Accounts!Idle BY <1>1, <2>3 DEF RequestOK
    <2> QED BY <2>1, <2>2, <2>3
  <1>5. (\A m, l \in Requests : (m # l /\ call[m] # Accounts!Idle /\ call[l] # Accounts!Idle) =>
        call[m].from \cap call[l].from = {})'
    BY <1>1, <1>3 DEF RequestsWait
  <1> QED BY <1>2, <1>4, <1>5 DEF RequestsWait

(* The parts make the whole after a step. *)
LEMMA AccountsAssembled ==
    ASSUME RequestsWait',
           account' \in 0 .. accounts' /\ accounts' \in Accounts!Ids,
           record' \in [Accounts!Ids -> Accounts!Record \union {Accounts!NoRecord}],
           codes' \in 0 .. MaxCodes /\ tokens' \in 0 .. MaxTokens,
           mailed' \subseteq 1 .. codes',
           misses' \in [1 .. MaxCodes -> Nat],
           spent' \subseteq 1 .. MaxTokens,
           uses' \in [1 .. MaxTokens -> Nat]
    PROVE  AccountsKept'
  BY DEF AccountsKept, RequestsWait, Accounts!TypeOK, PageStates

LEMMA AccountsStay ==
    ASSUME AccountsKept, RequestsWait', UNCHANGED <<Accounts!server, Accounts!history>>
    PROVE  AccountsKept'
  <1>1. UNCHANGED <<account, accounts, record, codes, tokens, mailed, misses, spent, uses>>
    BY DEF Accounts!server, Accounts!history
  <1> QED BY <1>1, AccountsWhole, AccountsAssembled

(* A wrong guess is counted in the record there is by then. *)
LEMMA GuessIsCounted ==
    ASSUME AccountsKept, NEW k \in Requests, Accounts!Increment(k)
    PROVE  /\ call[k].id \in Accounts!Ids
           /\ record' \in [Accounts!Ids -> Accounts!Record \union {Accounts!NoRecord}]
           /\ \A j \in Accounts!Ids : j # call[k].id => record'[j] = record[j]
           /\ record[call[k].id] = Accounts!NoRecord => record'[call[k].id] = Accounts!NoRecord
           /\ record[call[k].id] # Accounts!NoRecord =>
                 /\ record[call[k].id] \in Accounts!Record
                 /\ record'[call[k].id].code = record[call[k].id].code
                 /\ record'[call[k].id].token = record[call[k].id].token
                 /\ record'[call[k].id].attempts = record[call[k].id].attempts + 1
  <1>1. call[k] # Accounts!Idle /\ call[k].at = "increment" /\ call[k].op = "verify"
    BY DEF Accounts!Increment, Accounts!At
  <1>2. RequestOK(k) BY DEF AccountsKept
  <1>3. PICK i \in Accounts!Ids : i = call[k].id BY <1>1, <1>2 DEF RequestOK
  <1>4. record \in [Accounts!Ids -> Accounts!Record \union {Accounts!NoRecord}]
    BY DEF AccountsKept, Accounts!TypeOK
  <1>5. CASE record[i] = Accounts!NoRecord
    <2>1. record' = record BY <1>3, <1>5 DEF Accounts!Increment
    <2> QED BY <1>3, <1>4, <1>5, <2>1
  <1>6. CASE record[i] # Accounts!NoRecord
    <2>0. record[i] \in Accounts!Record BY <1>4, <1>6
    <2>1. record[i].attempts \in Nat BY <2>0 DEF Accounts!Record
    <2>2. PICK n \in Nat : n = record[i].attempts + 1 BY <2>1
    <2>3. PICK r : r = [record[i] EXCEPT !.attempts = n] OBVIOUS
    <2>4. record' = [record EXCEPT ![i] = r] BY <1>3, <1>6, <2>2, <2>3 DEF Accounts!Increment
    <2>5. /\ r \in Accounts!Record
          /\ r.attempts = n
          /\ r.code = record[i].code
          /\ r.token = record[i].token
      BY <2>0, <2>3 DEF Accounts!Record
    <2>6. /\ record'[i] = r
          /\ record' \in [Accounts!Ids -> Accounts!Record \union {Accounts!NoRecord}]
          /\ \A j \in Accounts!Ids : j # i => record'[j] = record[j]
      BY <1>4, <2>4, <2>5
    <2> QED BY <1>3, <1>6, <2>0, <2>2, <2>5, <2>6
  <1> QED BY <1>5, <1>6

(* A right code leaves its token in the record there is by then. *)
LEMMA TokenIsPut ==
    ASSUME AccountsKept, NEW k \in Requests, Accounts!MarkVerified(k)
    PROVE  /\ call[k].id \in Accounts!Ids
           /\ record' \in [Accounts!Ids -> Accounts!Record \union {Accounts!NoRecord}]
           /\ \A j \in Accounts!Ids : j # call[k].id => record'[j] = record[j]
           /\ record[call[k].id] = Accounts!NoRecord => record'[call[k].id] = Accounts!NoRecord
           /\ record[call[k].id] # Accounts!NoRecord =>
                 /\ record[call[k].id] \in Accounts!Record
                 /\ record'[call[k].id].code = record[call[k].id].code
                 /\ record'[call[k].id].token = call[k].token
                 /\ record'[call[k].id].attempts = record[call[k].id].attempts
  <1>1. call[k] # Accounts!Idle /\ call[k].at = "mark" /\ call[k].op = "verify"
    BY DEF Accounts!MarkVerified, Accounts!At
  <1>2. RequestOK(k) BY DEF AccountsKept
  <1>3. PICK i \in Accounts!Ids : i = call[k].id BY <1>1, <1>2 DEF RequestOK
  <1>4. record \in [Accounts!Ids -> Accounts!Record \union {Accounts!NoRecord}]
    BY DEF AccountsKept, Accounts!TypeOK
  <1>5. CASE record[i] = Accounts!NoRecord
    <2>1. record' = [record EXCEPT ![i] = Accounts!NoRecord]
      BY <1>3, <1>5 DEF Accounts!MarkVerified
    <2> QED BY <1>3, <1>4, <1>5, <2>1
  <1>6. CASE record[i] # Accounts!NoRecord
    <2>0. record[i] \in Accounts!Record BY <1>4, <1>6
    <2>1. PICK r : r = [record[i] EXCEPT !.used = TRUE, !.token =
          call[k].token, !.tokenExpired = FALSE]
      OBVIOUS
    <2>2. record' = [record EXCEPT ![i] = r] BY <1>3, <1>6, <2>1 DEF Accounts!MarkVerified
    <2>3. call[k].token \in 0..MaxTokens
      <3>1. call[k] \in Accounts!Call BY <1>1 DEF AccountsKept, Accounts!TypeOK
      <3> QED BY <3>1 DEF Accounts!Call
    <2>6. /\ r \in Accounts!Record
          /\ r.attempts = record[i].attempts
          /\ r.code = record[i].code
          /\ r.token = call[k].token
      BY <2>0, <2>1, <2>3 DEF Accounts!Record
    <2>7. /\ record'[i] = r
          /\ record' \in [Accounts!Ids -> Accounts!Record \union {Accounts!NoRecord}]
          /\ \A j \in Accounts!Ids : j # i => record'[j] = record[j]
      BY <1>4, <2>2, <2>6
    <2> QED BY <1>3, <1>6, <2>0, <2>6, <2>7
  <1> QED BY <1>5, <1>6

(* Uses of a token are numbers, and only those of one token change. *)
LEMMA UsesAreNumbers ==
    ASSUME AccountsKept, Accounts!Next
    PROVE  uses' \in [1 .. MaxTokens -> Nat]
  <1>1. uses \in [1 .. MaxTokens -> Nat] BY DEF AccountsKept, Accounts!TypeOK
  <1>2. ASSUME NEW t PROVE [uses EXCEPT ![t] = @ + 1] \in [1 .. MaxTokens -> Nat]
    <2>1. t \in 1 .. MaxTokens => uses[t] + 1 \in Nat BY <1>1
    <2>2. \A i \in 1 .. MaxTokens : [uses EXCEPT ![t] = @ + 1][i] \in Nat BY <1>1, <2>1
    <2> QED BY <1>1, <2>2
  <1>3. ASSUME NEW k \in Requests, Accounts!UpdatePassword(k) PROVE uses' \in [1 .. MaxTokens -> Nat]
    BY <1>1, <1>2, <1>3 DEF Accounts!UpdatePassword
  <1>4. ASSUME NEW k \in Requests,
               \/ Accounts!AnswerLost(k) \/ Accounts!FindUser(k) \/ Accounts!Upsert(k)
               \/ Accounts!Mail(k) \/ Accounts!Increment(k) \/ Accounts!MarkVerified(k)
        PROVE  uses' = uses
    BY <1>4
       DEF Accounts!AnswerLost, Accounts!FindUser, Accounts!Upsert, Accounts!Mail,
           Accounts!Increment, Accounts!MarkVerified, Accounts!history
  <1>6. ASSUME NEW k \in Requests,
               \/ Accounts!CheckToken(k) \/ Accounts!Hashed(k)
               \/ Accounts!DeleteUser(k) \/ Accounts!Create(k)
        PROVE  uses' = uses
    BY <1>6
       DEF Accounts!CheckToken, Accounts!Hashed, Accounts!DeleteUser, Accounts!Create,
           Accounts!history
  <1>7. ASSUME NEW k \in Requests, Accounts!Compare(k) PROVE uses' = uses
    BY <1>7 DEF Accounts!Compare
  <1>8. ASSUME NEW k \in Requests, Accounts!DeleteRecord(k) PROVE uses' = uses
    BY <1>8 DEF Accounts!DeleteRecord
  <1>5. (\E p \in Pages : Accounts!Submit(p) \/ Accounts!Resend(p)) \/ (\E i : Accounts!Expire(i)) \/
        (\E op : Accounts!Request(op)) => uses' = uses
    BY DEF Accounts!Submit, Accounts!Resend, Accounts!Expire, Accounts!Request, Accounts!history
  <1> QED BY <1>1, <1>3, <1>4, <1>5, <1>6, <1>7, <1>8 DEF Accounts!Next

(* No step takes a variable out of its type or a page from its request.      *)
LEMMA AccountsKeptStep ==
    ASSUME Accounts!AccountsAssumption, AccountsKept, Accounts!Next
    PROVE  AccountsKept'
  <1>k. /\ RequestsWait
        /\ account \in 0 .. accounts /\ accounts \in Accounts!Ids
        /\ record \in [Accounts!Ids -> Accounts!Record \union {Accounts!NoRecord}]
        /\ codes \in 0 .. MaxCodes /\ tokens \in 0 .. MaxTokens
        /\ mailed \subseteq 1 .. codes
        /\ misses \in [1 .. MaxCodes -> Nat]
        /\ spent \subseteq 1 .. MaxTokens
    BY AccountsWhole
  <1>u. uses' \in [1 .. MaxTokens -> Nat] BY UsesAreNumbers
  <1>n. /\ codes \in Nat
        /\ codes <= codes
        /\ 0 \in 0..MaxTokens
        /\ 0 \in 0..MaxCodes
        /\ 0 \in 0..MaxAccounts
    BY <1>k DEF Accounts!AccountsAssumption
  <1>c. call \in [Requests -> Accounts!Call \union {Accounts!Idle}] /\
        forgot \in [Pages -> PageStates]
    BY <1>k DEF RequestsWait
  <1>d. \A k \in Requests : call[k] # Accounts!Idle => call[k] \in Accounts!Call /\ RequestOK(k)
    BY <1>k, <1>c DEF RequestsWait
  <1>1. ASSUME NEW p \in Pages, Accounts!Submit(p) PROVE AccountsKept'
    <2>1. UNCHANGED <<Accounts!server, Accounts!history>> /\ ~forgot[p].loading /\
          forgot' = [forgot EXCEPT ![p].loading = TRUE]
      BY <1>1 DEF Accounts!Submit
    <2>2. PICK k \in Requests :
          /\ call[k] = Accounts!Idle
          /\ \/ /\ forgot[p].step = 0
                /\ call' = [call EXCEPT ![k] = Accounts!New("forgot", "findUser", 0, 0, {p})]
             \/ /\ forgot[p].step = 1
                /\ \E guess \in mailed \union {0} :
                      call' = [call EXCEPT ![k] =
                            Accounts!New("verify", "findUser", guess, 0, {p})]
             \/ /\ forgot[p].step = 2
                /\ call' = [call EXCEPT ![k] =
                      Accounts!New("reset", "findUser", 0, forgot[p].token, {p})]
      BY <1>1 DEF Accounts!Submit
    <2>3. forgot[p] \in PageStates BY <1>c
    <2>4. \E c \in Accounts!Call :
          /\ call' = [call EXCEPT ![k] = c] /\ c.at = "findUser" /\ c.from = {p}
                          /\ \/ c.op = "forgot" /\ forgot[p].step = 0
                             \/ c.op = "verify" /\ forgot[p].step = 1
                             \/ c.op = "reset" /\ forgot[p].step = 2
      <3>1. CASE /\ forgot[p].step = 0
                 /\ call' = [call EXCEPT ![k] = Accounts!New("forgot", "findUser", 0, 0, {p})]
        <4>1. Accounts!New("forgot", "findUser", 0, 0, {p}) \in Accounts!Call
          BY <1>n DEF Accounts!New, Accounts!Call
        <4> QED BY <3>1, <4>1 DEF Accounts!New
      <3>2. ASSUME NEW guess \in mailed \union {0}, forgot[p].step = 1,
                   call' = [call EXCEPT ![k] =
                         Accounts!New("verify", "findUser", guess, 0, {p})]
            PROVE  \E c \in Accounts!Call :
                  /\ call' = [call EXCEPT ![k] = c] /\ c.at = "findUser" /\ c.from = {p}
                                   /\ c.op = "verify" /\ forgot[p].step = 1
        <4>1. guess \in 0..MaxCodes
          <5>1. codes \in Nat /\ MaxCodes \in Nat /\ codes <= MaxCodes
            BY <1>k DEF Accounts!AccountsAssumption
          <5>2. guess = 0 \/ guess \in 1..codes BY <1>k
          <5> QED BY <5>1, <5>2
        <4>2. Accounts!New("verify", "findUser", guess, 0, {p}) \in Accounts!Call
          BY <1>n, <4>1 DEF Accounts!New, Accounts!Call
        <4> QED BY <3>2, <4>2 DEF Accounts!New
      <3>3. CASE /\ forgot[p].step = 2
                 /\ call' = [call EXCEPT ![k] =
                       Accounts!New("reset", "findUser", 0, forgot[p].token, {p})]
        <4>1. forgot[p].token \in 0..MaxTokens BY <2>3 DEF PageStates
        <4>2. Accounts!New("reset", "findUser", 0, forgot[p].token, {p}) \in Accounts!Call
          BY <1>n, <4>1 DEF Accounts!New, Accounts!Call
        <4> QED BY <3>3, <4>2 DEF Accounts!New
      <3> QED BY <2>2, <3>1, <3>2, <3>3
    <2>5. PICK c \in Accounts!Call :
          /\ call' = [call EXCEPT ![k] = c] /\ c.at = "findUser" /\ c.from = {p}
                          /\ \/ c.op = "forgot" /\ forgot[p].step = 0
                             \/ c.op = "verify" /\ forgot[p].step = 1
                             \/ c.op = "reset" /\ forgot[p].step = 2
      BY <2>4
    <2>6. /\ forgot' \in [Pages -> PageStates]
          /\ (\A q \in Pages : q \notin c.from => forgot'[q] = forgot[q])
          /\ forgot'[p].loading /\ forgot'[p].step = forgot[p].step
      BY <1>c, <2>1, <2>3, <2>5 DEF PageStates
    <2>7. call'[k] = c BY <1>c, <2>5
    <2>8. \A q \in c.from : PageShows(k, q)' BY <2>5, <2>6, <2>7 DEF PageShows
    <2>9. codes' = codes BY <2>1 DEF Accounts!server
    <2>10. RequestsWait' BY <1>k, <2>1, <2>2, <2>5, <2>6, <2>8, <2>9, RequestBegins
    <2> QED BY <2>1, <2>10, AccountsStay
  <1>2. ASSUME NEW p \in Pages, Accounts!Resend(p) PROVE AccountsKept'
    <2>1. UNCHANGED <<Accounts!server, call, Accounts!history>> /\ ~forgot[p].loading /\
          forgot' = [forgot EXCEPT ![p].step = 0]
      BY <1>2 DEF Accounts!Resend
    <2>2. forgot' \in [Pages -> PageStates] /\ \A q \in Pages : q # p => forgot'[q] = forgot[q]
      BY <1>c, <2>1 DEF PageStates
    <2>3. \A k \in Requests : RequestOK(k)'
      <3> TAKE k \in Requests
      <3>1. CASE call[k] = Accounts!Idle BY <2>1, <3>1 DEF RequestOK
      <3>2. CASE call[k] # Accounts!Idle
        <4>1. call[k].from \subseteq Pages /\ RequestOK(k) /\ codes' = codes
          BY <1>d, <2>1, <3>2 DEF Accounts!Call, Accounts!server
        <4>2. \A q \in call[k].from : forgot'[q] = forgot[q]
          BY <2>1, <2>2, <3>2, <4>1 DEF RequestOK, PageShows
        <4> QED BY <2>1, <3>2, <4>1, <4>2 DEF RequestOK, PageShows
      <3> QED BY <3>1, <3>2
    <2>4. RequestsWait' BY <1>k, <2>1, <2>2, <2>3 DEF RequestsWait
    <2> QED BY <2>1, <2>4, AccountsStay
  <1>3. ASSUME NEW k \in Requests, Accounts!AnswerLost(k) PROVE AccountsKept'
    <2>1. call[k] # Accounts!Idle /\ UNCHANGED <<Accounts!server, Accounts!history>>
      BY <1>3 DEF Accounts!AnswerLost
    <2>2. PICK p \in call[k].from :
          forgot' = [forgot EXCEPT ![p].loading = FALSE] /\ call' = [call EXCEPT ![k].from = {}]
      BY <1>3 DEF Accounts!AnswerLost
    <2>3. call[k] \in Accounts!Call /\ call[k].from \subseteq Pages
      BY <1>d, <2>1 DEF Accounts!Call
    <2>4. forgot' \in [Pages -> PageStates] /\ \A q \in Pages : q # p => forgot'[q] = forgot[q]
      BY <1>c, <2>2 DEF PageStates
    <2>5. PICK c : c = [call[k] EXCEPT !.from = {}] OBVIOUS
    <2>6. /\ c \in Accounts!Call
          /\ c.from = {}
          /\ c.op = call[k].op
          /\ c.at = call[k].at
          /\ c.id = call[k].id
          /\ c.code = call[k].code /\ c.token = call[k].token
      BY <2>3, <2>5 DEF Accounts!Call
    <2>7. call' = [call EXCEPT ![k] = c] BY <2>2, <2>5
    <2>8. /\ call' \in [Requests -> Accounts!Call \union {Accounts!Idle}]
          /\ call'[k] = c
          /\ \A l \in Requests : l # k => call'[l] = call[l]
      BY <1>c, <2>6, <2>7
    <2>9. codes' = codes BY <2>1 DEF Accounts!server
    <2>10. \A l \in Requests : RequestOK(l)'
      <3> TAKE l \in Requests
      <3>1. CASE l = k BY <1>d, <2>1, <2>6, <2>8, <2>9, <3>1 DEF RequestOK
      <3>2. CASE l # k /\ call[l] = Accounts!Idle BY <2>8, <3>2 DEF RequestOK
      <3>3. CASE l # k /\ call[l] # Accounts!Idle
        <4>1. /\ call[l].from \subseteq Pages
              /\ RequestOK(l)
              /\ call[l].from \cap call[k].from = {}
          BY <1>k, <1>d, <2>1, <3>3 DEF Accounts!Call, RequestsWait
        <4>2. \A q \in call[l].from : forgot'[q] = forgot[q] BY <2>2, <2>4, <4>1
        <4> QED BY <2>8, <2>9, <3>3, <4>1, <4>2 DEF RequestOK, PageShows
      <3> QED BY <3>1, <3>2, <3>3
    <2>11. RequestsWait' BY <1>k, <2>4, <2>6, <2>8, <2>10 DEF RequestsWait
    <2> QED BY <2>1, <2>11, AccountsStay
  <1>4. ASSUME NEW k \in Requests, Accounts!FindUser(k) PROVE AccountsKept'
    <2>1. call[k] # Accounts!Idle /\ call[k].at = "findUser" /\
          UNCHANGED <<Accounts!server, Accounts!history>>
      BY <1>4 DEF Accounts!FindUser
    <2>2. codes' = codes BY <2>1 DEF Accounts!server
    <2>3. call[k] \in Accounts!Call /\ RequestOK(k) BY <1>d, <2>1
    <2>4. CASE account # 0 /\ call[k].op # "signup"
      <3>1. /\ call' = [call EXCEPT ![k].id = account, ![k].at = Accounts!First[call[k].op]]
            /\ forgot' = forgot
        BY <1>4, <2>4 DEF Accounts!FindUser
      <3>2. PICK c : c = [call[k] EXCEPT !.id = account, !.at = Accounts!First[call[k].op]]
        OBVIOUS
      <3>3. call[k].op \in {"forgot", "verify", "reset", "delete"}
        BY <2>3, <2>4 DEF Accounts!Call
      <3>4. Accounts!First[call[k].op] \in {"upsert", "findRecord", "deleteUser"}
        BY <3>3 DEF Accounts!First
      <3>5. account \in Accounts!Ids /\ account \in 0..MaxAccounts
        BY <1>k, <2>4 DEF Accounts!Ids, Accounts!AccountsAssumption
      <3>6. /\ c \in Accounts!Call
            /\ c.id \in Accounts!Ids
            /\ c.at \notin {"mail", "findUser"}
            /\ c.op = call[k].op
            /\ c.from = call[k].from
            /\ c.token = call[k].token
        BY <2>3, <3>2, <3>4, <3>5 DEF Accounts!Call
      <3>7. call' = [call EXCEPT ![k] = c] BY <3>1, <3>2
      <3>8. c.op = "delete" => c.token = 0 BY <2>1, <2>3, <3>6 DEF RequestOK
      <3>9. RequestsWait' BY <1>k, <1>n, <2>1, <2>2, <3>1, <3>6, <3>7, <3>8, RequestGoesOn
      <3> QED BY <2>1, <3>9, AccountsStay
    <2>5. CASE account = 0 /\ call[k].op = "signup"
      <3>1. Accounts!Await(k, "hash") BY <1>4, <2>5 DEF Accounts!FindUser
      <3>2. PICK c : c = [call[k] EXCEPT !.at = "hash"] OBVIOUS
      <3>3. c \in Accounts!Call /\ c.at = "hash" /\ c.op = "signup" /\ c.from = call[k].from
        BY <2>3, <2>5, <3>2 DEF Accounts!Call
      <3>4. call' = [call EXCEPT ![k] = c] /\ forgot' = forgot BY <3>1, <3>2 DEF Accounts!Await
      <3>5. RequestsWait' BY <1>k, <1>n, <2>1, <2>2, <2>5, <3>3, <3>4, RequestGoesOn
      <3> QED BY <2>1, <3>5, AccountsStay
    <2>6. CASE Accounts!Answer(k, 0)
      <3>1. RequestsWait' BY <1>k, <1>n, <2>1, <2>2, <2>6, RequestIsAnswered
      <3> QED BY <2>1, <3>1, AccountsStay
    <2>7. CASE Accounts!Refuse(k)
      <3>1. RequestsWait' BY <1>k, <1>n, <2>1, <2>2, <2>7, RequestIsRefused
      <3> QED BY <2>1, <3>1, AccountsStay
    <2> QED BY <1>4, <2>4, <2>5, <2>6, <2>7 DEF Accounts!FindUser
  <1>5. ASSUME NEW k \in Requests, Accounts!Upsert(k) PROVE AccountsKept'
    <2>1. /\ call[k] # Accounts!Idle
          /\ call[k].op = "forgot"
          /\ call[k].at = "upsert"
          /\ codes < MaxCodes
          /\ codes' = codes + 1
          /\ record' = [record EXCEPT ![call[k].id] = Accounts!Fresh(codes + 1)]
          /\ call' = [call EXCEPT ![k].at = "mail", ![k].code = codes + 1]
          /\ UNCHANGED <<account, accounts, tokens, mailed, forgot, misses, spent>>
      BY <1>5 DEF Accounts!Upsert, Accounts!At, Accounts!history
    <2>2. codes \in Nat /\ MaxCodes \in Nat BY <1>k DEF Accounts!AccountsAssumption
    <2>3. /\ codes' \in Nat
          /\ codes <= codes'
          /\ codes' \in 1..MaxCodes
          /\ codes' \in 0..MaxCodes
          /\ codes' \in 1..codes'
      BY <2>1, <2>2
    <2>4. call[k] \in Accounts!Call /\ RequestOK(k) BY <1>d, <2>1
    <2>5. PICK c : c = [call[k] EXCEPT !.at = "mail", !.code = codes + 1] OBVIOUS
    <2>m. PICK m \in 0..MaxCodes : m = codes' BY <2>3
    <2>6. /\ c \in Accounts!Call
          /\ c.op = "forgot"
          /\ c.at = "mail"
          /\ c.code = codes'
          /\ c.id = call[k].id
          /\ c.from = call[k].from
      <3>1. c = [call[k] EXCEPT !.at = "mail", !.code = m] BY <2>1, <2>m, <2>5
      <3>2. c \in Accounts!Call BY <2>4, <3>1, <2>m DEF Accounts!Call
      <3>3. /\ c.op = call[k].op /\ c.at = "mail" /\ c.code = m
            /\ c.id = call[k].id /\ c.from = call[k].from
        BY <2>4, <3>1 DEF Accounts!Call
      <3> QED BY <2>1, <2>m, <3>2, <3>3
    <2>7. c.id \in Accounts!Ids BY <2>1, <2>4, <2>6 DEF RequestOK
    <2>f. call' = [call EXCEPT ![k] = c] /\ forgot' = forgot BY <2>1, <2>5
    <2>g. /\ c.op = call[k].op /\ c.op # "delete" /\ c.from = call[k].from
          /\ c.at = "mail" /\ c.code \in 1..codes'
      BY <2>1, <2>3, <2>6
    <2>8. RequestsWait'
      <3>1. RequestsWait /\ c \in Accounts!Call /\ call[k] # Accounts!Idle BY <1>k, <2>1, <2>6
      <3> QED BY <2>2, <2>3, <2>f, <2>g, <2>7, <3>1, RequestGoesOn
    <2>9. Accounts!Fresh(codes') \in Accounts!Record
      BY <1>n, <2>3 DEF Accounts!Fresh, Accounts!Record
    <2>10. record' \in [Accounts!Ids -> Accounts!Record \union {Accounts!NoRecord}]
      BY <1>k, <2>1, <2>9
    <2>11. mailed' \subseteq 1..codes' BY <1>k, <2>1, <2>2
    <2>12. /\ account' \in 0 .. accounts'
           /\ accounts' \in Accounts!Ids
           /\ tokens' \in 0 .. MaxTokens
           /\ misses' \in [1 .. MaxCodes -> Nat] /\ spent' \subseteq 1 .. MaxTokens
      BY <1>k, <2>1
    <2> QED BY <1>u, <2>3, <2>8, <2>10, <2>11, <2>12, AccountsAssembled
  <1>6. ASSUME NEW k \in Requests, Accounts!Mail(k) PROVE AccountsKept'
    <2>1. /\ call[k] # Accounts!Idle
          /\ call[k].at = "mail"
          /\ mailed' \in {mailed, mailed \union {call[k].code}}
          /\ Accounts!Answer(k, 0)
          /\ UNCHANGED <<account, accounts, record, codes, tokens, misses, spent>>
      BY <1>6 DEF Accounts!Mail, Accounts!At, Accounts!history
    <2>2. RequestsWait' BY <1>k, <1>n, <2>1, RequestIsAnswered
    <2>3. call[k].code \in 1..codes BY <1>d, <2>1 DEF RequestOK
    <2>4. mailed' \subseteq 1..codes' BY <1>k, <2>1, <2>3
    <2>5. /\ account' \in 0 .. accounts'
          /\ accounts' \in Accounts!Ids
          /\ record' \in [Accounts!Ids -> Accounts!Record \union {Accounts!NoRecord}]
          /\ codes' \in 0 .. MaxCodes /\ tokens' \in 0 .. MaxTokens
          /\ misses' \in [1 .. MaxCodes -> Nat] /\ spent' \subseteq 1 .. MaxTokens
      BY <1>k, <2>1
    <2> QED BY <1>u, <2>2, <2>4, <2>5, AccountsAssembled
  <1>7. ASSUME NEW k \in Requests, Accounts!Compare(k) PROVE AccountsKept'
    <2>1. call[k] # Accounts!Idle /\ call[k].op = "verify" /\ call[k].at = "findRecord"
          /\ UNCHANGED <<account, accounts, record, codes, mailed, spent>>
      BY <1>7 DEF Accounts!Compare, Accounts!At
    <2>2. call[k] \in Accounts!Call /\ RequestOK(k) BY <1>d, <2>1
    <2>3. call[k].id \in Accounts!Ids BY <2>1, <2>2 DEF RequestOK
    <2>4. PICK r : r = record[call[k].id] OBVIOUS
    <2>5. r \in Accounts!Record \union {Accounts!NoRecord} BY <1>k, <2>3, <2>4
    <2>6. /\ account' \in 0 .. accounts'
          /\ accounts' \in Accounts!Ids
          /\ record' \in [Accounts!Ids -> Accounts!Record \union {Accounts!NoRecord}]
          /\ codes' \in 0 .. MaxCodes
          /\ mailed' \subseteq 1..codes'
          /\ spent' \subseteq 1 .. MaxTokens
      BY <1>k, <2>1
    <2>7. CASE Accounts!Refuse(k) /\ UNCHANGED <<tokens, misses>>
      <3>1. RequestsWait' BY <1>k, <1>n, <2>1, <2>7, RequestIsRefused
      <3>2. tokens' \in 0 .. MaxTokens /\ misses' \in [1 .. MaxCodes -> Nat] BY <1>k, <2>7
      <3> QED BY <1>u, <2>6, <3>1, <3>2, AccountsAssembled
    <2>8. CASE /\ Accounts!Open(r)
               /\ misses' = [misses EXCEPT ![r.code] = @ + 1]
               /\ Accounts!Await(k, "increment")
               /\ UNCHANGED tokens
      <3>1. PICK c : c = [call[k] EXCEPT !.at = "increment"] OBVIOUS
      <3>2. /\ c \in Accounts!Call
            /\ c.op = "verify"
            /\ c.at = "increment"
            /\ c.id = call[k].id
            /\ c.from = call[k].from
        BY <2>1, <2>2, <3>1 DEF Accounts!Call
      <3>3. call' = [call EXCEPT ![k] = c] /\ forgot' = forgot BY <2>8, <3>1 DEF Accounts!Await
      <3>4. RequestsWait' BY <1>k, <1>n, <2>1, <2>3, <3>2, <3>3, RequestGoesOn
      <3>5. r \in Accounts!Record BY <2>5, <2>8 DEF Accounts!Open
      <3>6. r.code \in 1..MaxCodes BY <3>5 DEF Accounts!Record
      <3>7. misses' \in [1 .. MaxCodes -> Nat] BY <1>k, <2>8, <3>6
      <3>8. tokens' \in 0 .. MaxTokens BY <1>k, <2>8
      <3> QED BY <1>u, <2>6, <3>4, <3>7, <3>8, AccountsAssembled
    <2>9. CASE /\ tokens < MaxTokens /\ tokens' = tokens + 1
               /\ call' = [call EXCEPT ![k].at = "mark", ![k].token = tokens + 1]
               /\ UNCHANGED <<forgot, misses>>
      <3>0. tokens' \in 1..MaxTokens /\ tokens' \in 0..MaxTokens
        BY <1>k, <2>9 DEF Accounts!AccountsAssumption
      <3>1. PICK c : c = [call[k] EXCEPT !.at = "mark", !.token = tokens + 1] OBVIOUS
      <3>2. /\ c \in Accounts!Call
            /\ c.op = "verify"
            /\ c.at = "mark"
            /\ c.id = call[k].id
            /\ c.from = call[k].from
        BY <2>1, <2>2, <2>9, <3>0, <3>1 DEF Accounts!Call
      <3>3. call' = [call EXCEPT ![k] = c] /\ forgot' = forgot BY <2>9, <3>1
      <3>4. RequestsWait' BY <1>k, <1>n, <2>1, <2>3, <3>2, <3>3, RequestGoesOn
      <3>7. misses' \in [1 .. MaxCodes -> Nat] BY <1>k, <2>9
      <3> QED BY <1>u, <2>6, <3>0, <3>4, <3>7, AccountsAssembled
    <2> QED BY <1>7, <2>4, <2>7, <2>8, <2>9 DEF Accounts!Compare
  <1>8. ASSUME NEW k \in Requests, Accounts!Increment(k) PROVE AccountsKept'
    <2>1. /\ call[k] # Accounts!Idle
          /\ call[k].at = "increment"
          /\ call[k].op = "verify"
          /\ Accounts!Refuse(k)
          /\ UNCHANGED <<account, accounts, codes, tokens, mailed, misses, spent>>
      BY <1>8 DEF Accounts!Increment, Accounts!At, Accounts!history
    <2>2. RequestsWait' BY <1>k, <1>n, <2>1, RequestIsRefused
    <2>3. call[k].id \in Accounts!Ids BY <1>d, <2>1 DEF RequestOK
    <2>6. record' \in [Accounts!Ids -> Accounts!Record \union {Accounts!NoRecord}]
      BY <1>8, GuessIsCounted
    <2>7. /\ account' \in 0 .. accounts'
          /\ accounts' \in Accounts!Ids
          /\ tokens' \in 0 .. MaxTokens
          /\ codes' \in 0 .. MaxCodes
          /\ mailed' \subseteq 1..codes'
          /\ spent' \subseteq 1 .. MaxTokens
          /\ misses' \in [1 .. MaxCodes -> Nat]
      BY <1>k, <2>1
    <2> QED BY <1>u, <2>2, <2>6, <2>7, AccountsAssembled
  <1>9. ASSUME NEW k \in Requests, Accounts!MarkVerified(k) PROVE AccountsKept'
    <2>1. /\ call[k] # Accounts!Idle
          /\ call[k].at = "mark"
          /\ call[k].op = "verify"
          /\ Accounts!Answer(k, call[k].token)
          /\ record' = [record EXCEPT ![call[k].id] =
                          IF @ = Accounts!NoRecord THEN @
                          ELSE [@ EXCEPT !.used = TRUE, !.token =
                                call[k].token, !.tokenExpired = FALSE]]
          /\ UNCHANGED <<account, accounts, codes, tokens, mailed, misses, spent>>
      BY <1>9 DEF Accounts!MarkVerified, Accounts!At, Accounts!history
    <2>2. call[k] \in Accounts!Call /\ call[k].token \in 0..MaxTokens
      BY <1>d, <2>1 DEF Accounts!Call
    <2>8. RequestsWait' BY <1>k, <1>n, <2>1, <2>2, RequestIsAnswered
    <2>3. call[k].id \in Accounts!Ids BY <1>d, <2>1 DEF RequestOK
    <2>6. record' \in [Accounts!Ids -> Accounts!Record \union {Accounts!NoRecord}]
      BY <1>9, TokenIsPut
    <2>7. /\ account' \in 0 .. accounts'
          /\ accounts' \in Accounts!Ids
          /\ tokens' \in 0 .. MaxTokens
          /\ codes' \in 0 .. MaxCodes
          /\ mailed' \subseteq 1..codes'
          /\ spent' \subseteq 1 .. MaxTokens
          /\ misses' \in [1 .. MaxCodes -> Nat]
      BY <1>k, <2>1
    <2> QED BY <1>u, <2>8, <2>6, <2>7, AccountsAssembled
  <1>10. ASSUME NEW k \in Requests, NEW to \in {"hash", "update", "create", "deleteRecord"},
                call[k] # Accounts!Idle, call[k].at # "findUser", call[k].op # "delete",
                      Accounts!Await(k, to), codes' = codes
         PROVE RequestsWait'
    <2>2. call[k] \in Accounts!Call /\ RequestOK(k) BY <1>d, <1>10
    <2>3. PICK c : c = [call[k] EXCEPT !.at = to] OBVIOUS
    <2>4. /\ c \in Accounts!Call
          /\ c.op = call[k].op
          /\ c.at = to
          /\ c.id = call[k].id
          /\ c.from = call[k].from
      BY <2>2, <2>3 DEF Accounts!Call
    <2>5. c.op # "signup" => c.id \in Accounts!Ids BY <1>10, <2>2, <2>4 DEF RequestOK
    <2>6. call' = [call EXCEPT ![k] = c] /\ forgot' = forgot /\ codes' = codes
      BY <1>10, <2>3 DEF Accounts!Await
    <2> QED BY <1>k, <1>n, <1>10, <2>4, <2>5, <2>6, RequestGoesOn
  <1>11. ASSUME NEW k \in Requests, Accounts!CheckToken(k) PROVE AccountsKept'
    <2>1. /\ call[k] # Accounts!Idle
          /\ call[k].at = "findRecord"
          /\ call[k].op = "reset"
          /\ UNCHANGED <<Accounts!server, Accounts!history>>
      BY <1>11 DEF Accounts!CheckToken, Accounts!At
    <2>c. codes' = codes BY <2>1 DEF Accounts!server
    <2>2. CASE Accounts!Await(k, "hash")
      <3>1. RequestsWait' BY <1>10, <2>1, <2>c, <2>2
      <3> QED BY <2>1, <3>1, AccountsStay
    <2>3. CASE Accounts!Refuse(k)
      <3>1. RequestsWait' BY <1>k, <1>n, <2>1, <2>c, <2>3, RequestIsRefused
      <3> QED BY <2>1, <3>1, AccountsStay
    <2> QED BY <1>11, <2>2, <2>3 DEF Accounts!CheckToken
  <1>12. ASSUME NEW k \in Requests, Accounts!Hashed(k) \/ Accounts!UpdatePassword(k)
      PROVE AccountsKept'
    <2>1. /\ call[k] # Accounts!Idle
          /\ call[k].at # "findUser"
          /\ call[k].op # "delete"
          /\ UNCHANGED <<account, accounts, record, codes, tokens, mailed, misses, spent>>
          /\ \E to \in {"hash", "update", "create", "deleteRecord"} : Accounts!Await(k, to)
      BY <1>12 DEF Accounts!Hashed, Accounts!UpdatePassword, Accounts!At, Accounts!server,
                   Accounts!history
    <2>2. RequestsWait' BY <1>10, <2>1
    <2>3. /\ account' \in 0 .. accounts'
          /\ accounts' \in Accounts!Ids
          /\ record' \in [Accounts!Ids -> Accounts!Record \union {Accounts!NoRecord}]
          /\ tokens' \in 0 .. MaxTokens
          /\ codes' \in 0 .. MaxCodes
          /\ mailed' \subseteq 1..codes'
          /\ spent' \subseteq 1 .. MaxTokens
          /\ misses' \in [1 .. MaxCodes -> Nat]
      BY <1>k, <2>1
    <2> QED BY <1>u, <2>2, <2>3, AccountsAssembled
  <1>13. ASSUME NEW k \in Requests, Accounts!DeleteRecord(k) PROVE AccountsKept'
    <2>1. /\ call[k] # Accounts!Idle
          /\ call[k].at = "deleteRecord"
          /\ call[k].op # "signup"
          /\ Accounts!Answer(k, 0)
          /\ record' = Accounts!Forget(call[k].id)
          /\ spent' = spent \union ({call[k].token} \ {0})
          /\ UNCHANGED <<account, accounts, codes, tokens, mailed, misses>>
      BY <1>13 DEF Accounts!DeleteRecord, Accounts!At
    <2>2. RequestsWait' BY <1>k, <1>n, <2>1, RequestIsAnswered
    <2>3. call[k].token \in 0..MaxTokens BY <1>d, <2>1 DEF Accounts!Call
    <2>4. spent' \subseteq 1..MaxTokens BY <1>k, <2>1, <2>3 DEF Accounts!AccountsAssumption
    <2>5. record' \in [Accounts!Ids -> Accounts!Record \union {Accounts!NoRecord}]
      BY <1>k, <2>1 DEF Accounts!Forget
    <2>6. /\ account' \in 0 .. accounts'
          /\ accounts' \in Accounts!Ids
          /\ tokens' \in 0 .. MaxTokens
          /\ codes' \in 0 .. MaxCodes
          /\ mailed' \subseteq 1..codes'
          /\ misses' \in [1 .. MaxCodes -> Nat]
      BY <1>k, <2>1
    <2> QED BY <1>u, <2>2, <2>4, <2>5, <2>6, AccountsAssembled
  <1>14. ASSUME NEW op \in {"delete", "signup"}, Accounts!Request(op) PROVE AccountsKept'
    <2>1. PICK k \in Requests :
          call[k] = Accounts!Idle /\
                call' = [call EXCEPT ![k] = Accounts!New(op, "findUser", 0, 0, {})]
      BY <1>14 DEF Accounts!Request
    <2>2. UNCHANGED <<Accounts!server, forgot, Accounts!history>> BY <1>14 DEF Accounts!Request
    <2>3. PICK c : c = Accounts!New(op, "findUser", 0, 0, {}) OBVIOUS
    <2>4. c \in Accounts!Call /\ c.at = "findUser" /\ c.token = 0 /\ c.from = {}
      BY <1>n, <2>3 DEF Accounts!New, Accounts!Call
    <2>5. codes' = codes BY <2>2 DEF Accounts!server
    <2>6. call' = [call EXCEPT ![k] = c] BY <2>1, <2>3
    <2>7. RequestsWait' BY <1>k, <1>c, <2>1, <2>2, <2>4, <2>5, <2>6, RequestBegins
    <2> QED BY <2>2, <2>7, AccountsStay
  <1>15. ASSUME NEW k \in Requests, Accounts!DeleteUser(k) PROVE AccountsKept'
    <2>1. call[k] # Accounts!Idle /\ call[k].at = "deleteUser" /\ call[k].op = "delete"
          /\ UNCHANGED <<accounts, record, codes, tokens, mailed, misses, spent>>
      BY <1>15 DEF Accounts!DeleteUser, Accounts!At, Accounts!history
    <2>2. call[k] \in Accounts!Call /\ RequestOK(k) BY <1>d, <2>1
    <2>3. account' \in 0..accounts' BY <1>k, <1>15, <2>1 DEF Accounts!DeleteUser, Accounts!Ids
    <2>4. RequestsWait'
      <3>1. CASE Accounts!Refuse(k) BY <1>k, <1>n, <2>1, <3>1, RequestIsRefused
      <3>2. CASE Accounts!Await(k, "deleteRecord")
        <4>1. PICK c : c = [call[k] EXCEPT !.at = "deleteRecord"] OBVIOUS
        <4>2. /\ c \in Accounts!Call
              /\ c.op = "delete"
              /\ c.at = "deleteRecord"
              /\ c.id = call[k].id
              /\ c.from = call[k].from
              /\ c.token = call[k].token
          BY <2>1, <2>2, <4>1 DEF Accounts!Call
        <4>3. c.id \in Accounts!Ids /\ c.token = 0 BY <2>1, <2>2, <4>2 DEF RequestOK
        <4>4. call' = [call EXCEPT ![k] = c] /\ forgot' = forgot
          BY <3>2, <4>1 DEF Accounts!Await
        <4> QED BY <1>k, <1>n, <2>1, <4>2, <4>3, <4>4, RequestGoesOn
      <3> QED BY <1>15, <3>1, <3>2 DEF Accounts!DeleteUser
    <2>5. /\ accounts' \in Accounts!Ids
          /\ record' \in [Accounts!Ids -> Accounts!Record \union {Accounts!NoRecord}]
          /\ tokens' \in 0 .. MaxTokens
          /\ codes' \in 0 .. MaxCodes
          /\ mailed' \subseteq 1..codes'
          /\ misses' \in [1 .. MaxCodes -> Nat]
          /\ spent' \subseteq 1 .. MaxTokens
      BY <1>k, <2>1
    <2> QED BY <1>u, <2>3, <2>4, <2>5, AccountsAssembled
  <1>16. ASSUME NEW k \in Requests, Accounts!Create(k) PROVE AccountsKept'
    <2>1. /\ call[k] # Accounts!Idle
          /\ Accounts!Refuse(k)
          /\ UNCHANGED <<record, codes, tokens, mailed, misses, spent>>
      BY <1>16 DEF Accounts!Create, Accounts!At, Accounts!history
    <2>2. RequestsWait' BY <1>k, <1>n, <2>1, RequestIsRefused
    <2>3. account' \in 0..accounts' /\ accounts' \in Accounts!Ids
      <3>1. MaxAccounts \in Nat BY SameLibrary DEF Accounts!AccountsAssumption
      <3> QED BY <1>k, <1>16, <3>1 DEF Accounts!Create, Accounts!Ids
    <2>5. /\ record' \in [Accounts!Ids -> Accounts!Record \union {Accounts!NoRecord}]
          /\ tokens' \in 0 .. MaxTokens
          /\ codes' \in 0 .. MaxCodes
          /\ mailed' \subseteq 1..codes'
          /\ misses' \in [1 .. MaxCodes -> Nat]
          /\ spent' \subseteq 1 .. MaxTokens
      BY <1>k, <2>1
    <2> QED BY <1>u, <2>2, <2>3, <2>5, AccountsAssembled
  <1>17. ASSUME NEW i \in Accounts!Ids, Accounts!Expire(i) PROVE AccountsKept'
    <2>1. /\ record[i] # Accounts!NoRecord
          /\ UNCHANGED <<account, accounts, codes, tokens, mailed, call, forgot, misses, spent>>
      BY <1>17 DEF Accounts!Expire, Accounts!history
    <2>2. RequestsWait' BY <1>k, <2>1 DEF RequestsWait, RequestOK, PageShows
    <2>3. record[i] \in Accounts!Record BY <1>k, <2>1
    <2>4. record' \in [Accounts!Ids -> Accounts!Record \union {Accounts!NoRecord}]
      BY <1>k, <1>17, <2>3 DEF Accounts!Expire, Accounts!Record
    <2>5. /\ account' \in 0 .. accounts'
          /\ accounts' \in Accounts!Ids
          /\ tokens' \in 0 .. MaxTokens
          /\ codes' \in 0 .. MaxCodes
          /\ mailed' \subseteq 1..codes'
          /\ misses' \in [1 .. MaxCodes -> Nat]
          /\ spent' \subseteq 1 .. MaxTokens
      BY <1>k, <2>1
    <2> QED BY <1>u, <2>2, <2>4, <2>5, AccountsAssembled
  <1> QED
    BY <1>1, <1>2, <1>3, <1>4, <1>5, <1>6, <1>7, <1>8, <1>9, <1>11, <1>12, <1>13, <1>14, <1>15,
       <1>16, <1>17
       DEF Accounts!Next

(* Which requests are to count a wrong guess, after one request went on. *)
Counting(c, i) == c # Accounts!Idle /\ c.op = "verify" /\ c.at = "increment" /\ c.id = i

(* How the requests that are to count change when one request goes on.       *)
LEMMA PendMoves ==
    ASSUME AccountsKept, Accounts!AccountsAssumption, NEW k \in Requests, NEW c,
           call' = [call EXCEPT ![k] = c], NEW i \in Accounts!Ids
    PROVE  /\ Cardinality(Pend(i)) \in Nat /\ Cardinality(Pend(i)') \in Nat
           /\ ~Counting(call[k], i) => Cardinality(Pend(i)) < Cardinality(Requests)
           /\ Cardinality(Requests) \in Nat
           /\ ~Counting(call[k], i) => Cardinality(Pend(i)') >= Cardinality(Pend(i))
           /\ Counting(call[k], i) /\ Counting(c, i) =>
                 Cardinality(Pend(i)') >= Cardinality(Pend(i))
           /\ Counting(c, i) /\ ~Counting(call[k], i) =>
                 Cardinality(Pend(i)') = Cardinality(Pend(i)) + 1
           /\ Cardinality(Pend(i)') >= Cardinality(Pend(i)) - 1
  <1>0. call \in [Requests -> Accounts!Call \union {Accounts!Idle}]
    BY DEF AccountsKept, Accounts!TypeOK
  <1>1. IsFiniteSet(Requests) BY SameLibrary DEF Accounts!AccountsAssumption
  <1>2. Pend(i) \subseteq Requests /\ Pend(i)' \subseteq Requests BY DEF Pend
  <1>3. call'[k] = c /\ \A l \in Requests : l # k => call'[l] = call[l] BY <1>0
  <1>4. k \in Pend(i) <=> Counting(call[k], i) BY DEF Pend, Accounts!At, Counting
  <1>5. Pend(i)' = IF Counting(c, i) THEN Pend(i) \union {k} ELSE Pend(i) \ {k}
    BY <1>3 DEF Pend, Accounts!At, Counting
  <1>6. IsFiniteSet(Pend(i)) /\ IsFiniteSet(Pend(i)') BY <1>1, <1>2, FS_Subset
  <1>7. /\ Cardinality(Pend(i)) \in Nat
        /\ Cardinality(Pend(i)') \in Nat
        /\ Cardinality(Requests) \in Nat
    BY <1>1, <1>6, FS_CardinalityType
  <1>8. ASSUME ~Counting(call[k], i) PROVE Cardinality(Pend(i)) < Cardinality(Requests)
    <2>1. IsFiniteSet(Requests \ {k}) /\ Cardinality(Requests \ {k}) = Cardinality(Requests) - 1
      BY <1>1, FS_RemoveElement
    <2>2. Pend(i) \subseteq Requests \ {k} BY <1>2, <1>4, <1>8
    <2>3. Cardinality(Pend(i)) <= Cardinality(Requests \ {k}) BY <2>1, <2>2, FS_Subset
    <2> QED BY <1>7, <2>1, <2>3
  <1>9. Cardinality(Pend(i) \union {k}) =
        IF k \in Pend(i) THEN Cardinality(Pend(i)) ELSE Cardinality(Pend(i)) + 1
    BY <1>6, FS_AddElement
  <1>10. Cardinality(Pend(i) \ {k}) =
        IF k \in Pend(i) THEN Cardinality(Pend(i)) - 1 ELSE Cardinality(Pend(i))
    BY <1>6, FS_RemoveElement
  <1>11. CASE Counting(c, i) BY <1>4, <1>5, <1>7, <1>8, <1>9, <1>11
  <1>12. CASE ~Counting(c, i) BY <1>4, <1>5, <1>7, <1>8, <1>10, <1>12
  <1> QED BY <1>11, <1>12

(* The records and the guesses stay, and no request has counted. *)
LEMMA GuessesStay ==
    ASSUME AccountsKept, Guesses, UNCHANGED <<codes, misses>>, Accounts!AccountsAssumption,
           \A i \in Accounts!Ids : Cardinality(Pend(i)) \in Nat /\ Cardinality(Pend(i)') \in Nat
                          /\ Cardinality(Pend(i)') >= Cardinality(Pend(i)),
           \A i \in Accounts!Ids : record'[i] # Accounts!NoRecord =>
                 record[i] # Accounts!NoRecord /\ record'[i].code = record[i].code /\
                       record'[i].attempts = record[i].attempts
    PROVE  Guesses'
  <1>1. \A i \in Accounts!Ids : record[i] # Accounts!NoRecord =>
           record[i].code \in 1..MaxCodes /\ record[i].attempts \in Nat /\
                 misses[record[i].code] \in Nat
    BY DEF AccountsKept, Accounts!TypeOK, Accounts!Record
  <1>2. ASSUME NEW i \in Accounts!Ids, record'[i] # Accounts!NoRecord
        PROVE  /\ record'[i].code <= codes'
               /\ misses'[record'[i].code] <= record'[i].attempts + Cardinality(Pend(i)')
    <2>1. /\ record[i].code <= codes
          /\ misses[record[i].code] <= record[i].attempts + Cardinality(Pend(i))
      BY <1>2 DEF Guesses
    <2>2. record'[i].code = record[i].code /\ record'[i].attempts = record[i].attempts /\
          record[i] # Accounts!NoRecord
      BY <1>2
    <2>3. /\ Cardinality(Pend(i)) \in Nat
          /\ Cardinality(Pend(i)') \in Nat
          /\ Cardinality(Pend(i)') >= Cardinality(Pend(i))
      OBVIOUS
    <2> QED BY <1>1, <2>1, <2>2, <2>3
  <1>3. (\A i \in Accounts!Ids : record[i] # Accounts!NoRecord =>
          /\ record[i].code <= codes
          /\ misses[record[i].code] <= record[i].attempts + Cardinality(Pend(i)))'
    BY <1>2
  <1>4. (\A c \in 1..MaxCodes :
        misses[c] <= MaxAttempts + Cardinality(Requests) - 1 /\ (c > codes => misses[c] = 0))'
    BY DEF Guesses
  <1>5. (\A i, j \in Accounts!Ids :
        (record[i] # Accounts!NoRecord /\ record[j] # Accounts!NoRecord /\
              record[i].code = record[j].code) => i = j)'
    BY DEF Guesses
  <1> QED BY <1>3, <1>4, <1>5 DEF Guesses

(* No step finds a code wrong without one that counts it.                    *)
LEMMA GuessStep ==
    ASSUME Accounts!AccountsAssumption, AccountsKept, Guesses, AccountsKept', Accounts!Next
    PROVE  Guesses'
  <1>k. /\ call \in [Requests -> Accounts!Call \union {Accounts!Idle}]
        /\ record \in [Accounts!Ids -> Accounts!Record \union {Accounts!NoRecord}]
        /\ codes \in Nat
        /\ misses \in [1..MaxCodes -> Nat]
        /\ MaxCodes \in Nat
        /\ MaxAttempts \in Nat \ {0}
    BY SameLibrary DEF AccountsKept, Accounts!TypeOK, Accounts!AccountsAssumption
  <1>a. IsFiniteSet(Requests) BY SameLibrary DEF Accounts!AccountsAssumption
  <1>p. \A i \in Accounts!Ids : Cardinality(Pend(i)) \in Nat
    <2> SUFFICES ASSUME NEW i \in Accounts!Ids PROVE Cardinality(Pend(i)) \in Nat OBVIOUS
    <2>1. Pend(i) \subseteq Requests BY DEF Pend
    <2> QED BY <1>a, <2>1, FS_Subset, FS_CardinalityType
  <1>r. \A i \in Accounts!Ids : record[i] # Accounts!NoRecord =>
           /\ record[i] \in Accounts!Record
           /\ record[i].code \in 1..MaxCodes
           /\ record[i].attempts \in Nat
           /\ misses[record[i].code] \in Nat
    BY <1>k DEF Accounts!Record
  (* one request moves and counts nothing; the records stay or go *)
  <1>1. ASSUME NEW k \in Requests, NEW c, call' = [call EXCEPT ![k] = c],
  UNCHANGED <<codes, misses>>,
               \A i \in Accounts!Ids : Counting(call[k], i) => Counting(c, i),
               \A i \in Accounts!Ids : record'[i] # Accounts!NoRecord =>
                 record[i] # Accounts!NoRecord /\ record'[i].code = record[i].code /\
                       record'[i].attempts = record[i].attempts
        PROVE  Guesses'
    <2>1. \A i \in Accounts!Ids : Cardinality(Pend(i)) \in Nat /\ Cardinality(Pend(i)') \in Nat
                         /\ Cardinality(Pend(i)') >= Cardinality(Pend(i))
      BY <1>1, PendMoves
    <2> QED BY <1>1, <2>1, GuessesStay
  (* the same of a request that is not to count *)
  <1>2. ASSUME NEW k \in Requests, NEW c, call' = [call EXCEPT ![k] = c],
  UNCHANGED <<Accounts!server, Accounts!history>>,
               call[k] = Accounts!Idle \/ call[k].op # "verify" \/ call[k].at # "increment"
        PROVE  Guesses'
    <2>1. UNCHANGED <<codes, misses, record>> BY <1>2 DEF Accounts!server, Accounts!history
    <2>2. \A i \in Accounts!Ids : ~Counting(call[k], i) BY <1>2 DEF Counting
    <2> QED BY <1>1, <1>2, <2>1, <2>2
  <1>3. ASSUME NEW p \in Pages, Accounts!Submit(p) PROVE Guesses'
    <2>1. /\ UNCHANGED <<Accounts!server, Accounts!history>>
          /\ \E k \in Requests : call[k] = Accounts!Idle /\ \E c :
                call' = [call EXCEPT ![k] = c]
      BY <1>3 DEF Accounts!Submit
    <2> QED BY <1>2, <2>1
  <1>4. ASSUME NEW p \in Pages, Accounts!Resend(p) PROVE Guesses'
    <2>1. UNCHANGED <<codes, misses, record, call>>
      BY <1>4 DEF Accounts!Resend, Accounts!server, Accounts!history
    <2>2. \A i \in Accounts!Ids : Pend(i)' = Pend(i) BY <2>1 DEF Pend, Accounts!At
    <2>3. \A i \in Accounts!Ids : Cardinality(Pend(i)') = Cardinality(Pend(i)) BY <2>2
    <2> QED BY <1>p, <2>1, <2>3, GuessesStay
  <1>5. ASSUME NEW k \in Requests, Accounts!AnswerLost(k) PROVE Guesses'
    <2>1. /\ UNCHANGED <<codes, misses, record>>
          /\ call' = [call EXCEPT ![k].from = {}]
          /\ call[k] # Accounts!Idle
      BY <1>5 DEF Accounts!AnswerLost, Accounts!server, Accounts!history
    <2>2. PICK c : c = [call[k] EXCEPT !.from = {}] OBVIOUS
    <2>3. call[k] \in Accounts!Call BY <1>k, <2>1
    <2>4. /\ c \in Accounts!Call
          /\ c # Accounts!Idle
          /\ c.op = call[k].op
          /\ c.at = call[k].at
          /\ c.id = call[k].id
      BY <2>2, <2>3, RequestsAreNotIdle DEF Accounts!Call
    <2>5. \A i \in Accounts!Ids : Counting(call[k], i) => Counting(c, i) BY <2>4 DEF Counting
    <2> QED BY <1>1, <2>1, <2>2, <2>5
  <1>6. ASSUME NEW k \in Requests, Accounts!FindUser(k) PROVE Guesses'
    <2>1. /\ call[k].at = "findUser"
          /\ UNCHANGED <<Accounts!server, Accounts!history>>
          /\ \E c : call' = [call EXCEPT ![k] = c]
      BY <1>6 DEF Accounts!FindUser, Accounts!Await, Accounts!Answer, Accounts!Refuse
    <2> QED BY <1>2, <2>1
  <1>7. ASSUME NEW k \in Requests, Accounts!Upsert(k) PROVE Guesses'
    <2>1. /\ call[k] # Accounts!Idle
          /\ call[k].op = "forgot"
          /\ call[k].at = "upsert"
          /\ codes < MaxCodes
          /\ codes' = codes + 1
          /\ record' = [record EXCEPT ![call[k].id] = Accounts!Fresh(codes + 1)]
          /\ misses' = misses
          /\ \E c : call' = [call EXCEPT ![k] = c]
      BY <1>7 DEF Accounts!Upsert, Accounts!At, Accounts!history
    <2>2. \A i \in Accounts!Ids :
          Cardinality(Pend(i)') \in Nat /\ Cardinality(Pend(i)') >= Cardinality(Pend(i))
      BY <2>1, PendMoves DEF Counting
    <2>3. PICK i \in Accounts!Ids : i = call[k].id
      <3>1. RequestOK(k) BY DEF AccountsKept
      <3> QED BY <2>1, <3>1 DEF RequestOK
    <2>4. record'[i] = Accounts!Fresh(codes + 1) /\ \A j \in Accounts!Ids : j # i =>
          record'[j] = record[j]
      BY <1>k, <2>1, <2>3
    <2>5. record'[i].code = codes + 1 /\ record'[i].attempts = 0 BY <2>4 DEF Accounts!Fresh
    <2>6. codes + 1 \in 1..MaxCodes /\ misses[codes + 1] = 0 BY <1>k, <2>1 DEF Guesses
    <2>7. (\A c \in 1..MaxCodes :
          misses[c] <= MaxAttempts + Cardinality(Requests) - 1 /\ (c > codes => misses[c] = 0))'
      BY <1>k, <2>1 DEF Guesses
    <2>8. ASSUME NEW j \in Accounts!Ids, record'[j] # Accounts!NoRecord
          PROVE  /\ record'[j].code <= codes'
                 /\ misses'[record'[j].code] <= record'[j].attempts + Cardinality(Pend(j)')
      <3>1. CASE j = i BY <1>k, <2>1, <2>2, <2>5, <2>6, <3>1
      <3>2. CASE j # i
        <4>1. /\ record[j].code <= codes
              /\ misses[record[j].code] <= record[j].attempts + Cardinality(Pend(j))
          BY <2>4, <2>8, <3>2 DEF Guesses
        <4>2. record'[j] = record[j] /\ record[j] # Accounts!NoRecord BY <2>4, <2>8, <3>2
        <4>3. PICK m : m = misses[record[j].code] OBVIOUS
        <4>4. PICK n : n = record[j].attempts OBVIOUS
        <4>5. m \in Nat /\ n \in Nat /\ record[j].code \in Nat BY <1>r, <4>2, <4>3, <4>4
        <4>6. misses'[record'[j].code] = m /\ record'[j].attempts = n BY <2>1, <4>2, <4>3, <4>4
        <4>7. m <= n + Cardinality(Pend(j)) BY <4>1, <4>3, <4>4
        <4>8. m <= n + Cardinality(Pend(j)') BY <1>p, <2>2, <4>5, <4>7
        <4>9. record'[j].code <= codes' BY <1>k, <2>1, <4>1, <4>2, <4>5
        <4> QED BY <4>6, <4>8, <4>9
      <3> QED BY <3>1, <3>2
    <2>9. ASSUME NEW j \in Accounts!Ids, NEW l \in Accounts!Ids,
    record'[j] # Accounts!NoRecord, record'[l] # Accounts!NoRecord,
                 record'[j].code = record'[l].code
          PROVE  j = l
      <3>1. \A m \in Accounts!Ids : m # i /\ record'[m] # Accounts!NoRecord =>
            record'[m].code # codes + 1
        BY <1>k, <1>r, <2>4 DEF Guesses
      <3> QED BY <2>4, <2>5, <2>9, <3>1 DEF Guesses
    <2> QED BY <2>7, <2>8, <2>9 DEF Guesses
  <1>8. ASSUME NEW k \in Requests, Accounts!Mail(k) PROVE Guesses'
    <2>1. /\ call[k].at = "mail"
          /\ UNCHANGED <<codes, misses, record>>
          /\ \E c : call' = [call EXCEPT ![k] = c]
      BY <1>8 DEF Accounts!Mail, Accounts!At, Accounts!Answer, Accounts!history
    <2>2. \A i \in Accounts!Ids : ~Counting(call[k], i) BY <2>1 DEF Counting
    <2> QED BY <1>1, <2>1, <2>2
  <1>9. ASSUME NEW k \in Requests, Accounts!Compare(k) PROVE Guesses'
    <2>1. /\ call[k] # Accounts!Idle
          /\ call[k].op = "verify"
          /\ call[k].at = "findRecord"
          /\ UNCHANGED <<record, codes>>
      BY <1>9 DEF Accounts!Compare, Accounts!At
    <2>2. \A i \in Accounts!Ids : ~Counting(call[k], i) BY <2>1 DEF Counting
    <2>3. CASE misses' = misses
      <3>1. \E c : call' = [call EXCEPT ![k] = c]
        BY <1>9 DEF Accounts!Compare, Accounts!Refuse, Accounts!Await
      <3> QED BY <1>1, <2>1, <2>2, <2>3, <3>1
    <2>4. PICK i \in Accounts!Ids : i = call[k].id
      <3>1. RequestOK(k) BY DEF AccountsKept
      <3> QED BY <2>1, <3>1 DEF RequestOK
    <2>5. CASE /\ Accounts!Open(record[i])
               /\ misses' = [misses EXCEPT ![record[i].code] = @ + 1]
               /\ Accounts!Await(k, "increment")
      <3>1. call[k] \in Accounts!Call BY <1>k, <2>1
      <3>2. PICK c : c = [call[k] EXCEPT !.at = "increment"] OBVIOUS
      <3>3. /\ c \in Accounts!Call
            /\ c # Accounts!Idle
            /\ c.op = "verify"
            /\ c.at = "increment"
            /\ c.id = i
        BY <2>1, <2>4, <3>1, <3>2, RequestsAreNotIdle DEF Accounts!Call
      <3>4. call' = [call EXCEPT ![k] = c] BY <2>5, <3>2 DEF Accounts!Await
      <3>5. Counting(c, i) BY <3>3 DEF Counting
      <3>6. \A j \in Accounts!Ids :
            Cardinality(Pend(j)') \in Nat /\ Cardinality(Pend(j)') >= Cardinality(Pend(j))
        BY <2>2, <3>4, PendMoves
      <3>7. /\ Cardinality(Pend(i)') = Cardinality(Pend(i)) + 1
            /\ Cardinality(Pend(i)) < Cardinality(Requests)
            /\ Cardinality(Requests) \in Nat
        BY <2>2, <3>4, <3>5, PendMoves
      <3>8. record[i] # Accounts!NoRecord /\ record[i].attempts < MaxAttempts
        BY <2>5 DEF Accounts!Open
      <3>9. PICK b \in 1..MaxCodes : b = record[i].code BY <1>r, <3>8
      <3>10. /\ misses[b] \in Nat
             /\ misses'[b] = misses[b] + 1
             /\ \A d \in 1..MaxCodes : d # b => misses'[d] = misses[d]
        BY <1>k, <2>5, <3>9
      <3>11. misses[b] <= record[i].attempts + Cardinality(Pend(i)) /\ b <= codes
        BY <3>8, <3>9 DEF Guesses
      <3>12. misses'[b] <= MaxAttempts + Cardinality(Requests) - 1
        BY <1>k, <1>p, <1>r, <3>7, <3>8, <3>10, <3>11
      <3>13. (\A d \in 1..MaxCodes :
            misses[d] <= MaxAttempts + Cardinality(Requests) - 1 /\
                  (d > codes => misses[d] = 0))'
        <4> SUFFICES ASSUME NEW d \in 1..MaxCodes
                     PROVE  /\ misses'[d] <= MaxAttempts + Cardinality(Requests) - 1
                            /\ (d > codes' => misses'[d] = 0)
          OBVIOUS
        <4>1. CASE d = b BY <1>k, <2>1, <3>11, <3>12, <4>1
        <4>2. CASE d # b BY <2>1, <3>10, <4>2 DEF Guesses
        <4> QED BY <4>1, <4>2
      <3>14. ASSUME NEW j \in Accounts!Ids, record[j] # Accounts!NoRecord
             PROVE  /\ record[j].code <= codes
                    /\ misses'[record[j].code] <= record[j].attempts + Cardinality(Pend(j)')
        <4>1. /\ record[j].code <= codes
              /\ misses[record[j].code] <= record[j].attempts + Cardinality(Pend(j))
          BY <3>14 DEF Guesses
        <4>2. CASE j = i BY <1>p, <1>r, <3>7, <3>9, <3>10, <3>14, <4>1, <4>2
        <4>3. CASE j # i
          <5>1. record[j].code # b BY <3>8, <3>9, <3>14, <4>3 DEF Guesses
          <5>2. misses'[record[j].code] = misses[record[j].code] BY <1>r, <3>10, <3>14, <5>1
          <5> QED BY <1>p, <1>r, <3>6, <3>14, <4>1, <5>2
        <4> QED BY <4>2, <4>3
      <3> QED BY <2>1, <3>13, <3>14 DEF Guesses
    <2> QED BY <1>9, <2>3, <2>4, <2>5 DEF Accounts!Compare
  <1>10. ASSUME NEW k \in Requests, Accounts!Increment(k) PROVE Guesses'
    <2>1. /\ call[k] # Accounts!Idle
          /\ call[k].op = "verify"
          /\ call[k].at = "increment"
          /\ UNCHANGED <<codes, misses>>
          /\ call' = [call EXCEPT ![k] = Accounts!Idle]
      BY <1>10 DEF Accounts!Increment, Accounts!At, Accounts!Refuse, Accounts!history
    <2>2. PICK i \in Accounts!Ids : i = call[k].id BY <1>10, GuessIsCounted
    <2>3. /\ \A j \in Accounts!Ids : j # i => record'[j] = record[j]
          /\ record[i] = Accounts!NoRecord => record'[i] = Accounts!NoRecord
          /\ record[i] # Accounts!NoRecord =>
                record'[i].code = record[i].code /\ record'[i].attempts = record[i].attempts + 1
      BY <1>10, <2>2, GuessIsCounted
    <2>4. \A j \in Accounts!Ids :
          Cardinality(Pend(j)') \in Nat /\ Cardinality(Pend(j)') >= Cardinality(Pend(j)) - 1
      BY <2>1, PendMoves
    <2>5. \A j \in Accounts!Ids : j # i => Cardinality(Pend(j)') >= Cardinality(Pend(j))
      BY <2>1, <2>2, PendMoves DEF Counting
    <2>6. ASSUME NEW j \in Accounts!Ids, record'[j] # Accounts!NoRecord
          PROVE  /\ record'[j].code <= codes'
                 /\ misses'[record'[j].code] <= record'[j].attempts + Cardinality(Pend(j)')
      <3>1. record[j] # Accounts!NoRecord /\ record'[j].code = record[j].code BY <2>3, <2>6
      <3>2. /\ record[j].code <= codes
            /\ misses[record[j].code] <= record[j].attempts + Cardinality(Pend(j))
        BY <3>1 DEF Guesses
      <3>3. CASE j = i BY <1>p, <1>r, <2>1, <2>3, <2>4, <3>1, <3>2, <3>3
      <3>4. CASE j # i BY <1>p, <1>r, <2>1, <2>3, <2>4, <2>5, <3>1, <3>2, <3>4
      <3> QED BY <3>3, <3>4
    <2>7. (\A j, l \in Accounts!Ids :
          (record[j] # Accounts!NoRecord /\ record[l] # Accounts!NoRecord /\
                record[j].code = record[l].code) => j = l)'
      <3>1. \A j \in Accounts!Ids : record'[j] # Accounts!NoRecord =>
            record[j] # Accounts!NoRecord /\ record'[j].code = record[j].code
        BY <2>3
      <3> QED BY <3>1 DEF Guesses
    <2>8. (\A d \in 1..MaxCodes :
          misses[d] <= MaxAttempts + Cardinality(Requests) - 1 /\ (d > codes => misses[d] = 0))'
      BY <2>1 DEF Guesses
    <2> QED BY <2>6, <2>7, <2>8 DEF Guesses
  <1>11. ASSUME NEW k \in Requests, Accounts!MarkVerified(k) PROVE Guesses'
    <2>1. /\ call[k] # Accounts!Idle
          /\ call[k].at = "mark"
          /\ UNCHANGED <<codes, misses>>
          /\ call' = [call EXCEPT ![k] = Accounts!Idle]
      BY <1>11 DEF Accounts!MarkVerified, Accounts!At, Accounts!Answer, Accounts!history
    <2>2. \A i \in Accounts!Ids : ~Counting(call[k], i) BY <2>1 DEF Counting
    <2>3. \A j \in Accounts!Ids : record'[j] # Accounts!NoRecord =>
              record[j] # Accounts!NoRecord /\ record'[j].code = record[j].code /\
                    record'[j].attempts = record[j].attempts
      BY <1>11, TokenIsPut
    <2> QED BY <1>1, <2>1, <2>2, <2>3
  <1>12. ASSUME NEW k \in Requests,
      Accounts!CheckToken(k) \/ Accounts!Hashed(k) \/ Accounts!UpdatePassword(k)
      PROVE Guesses'
    <2>1. /\ call[k] # Accounts!Idle
          /\ call[k].at # "increment"
          /\ UNCHANGED <<codes, misses, record>>
          /\ \E c : call' = [call EXCEPT ![k] = c]
      BY <1>12
         DEF Accounts!CheckToken, Accounts!Hashed, Accounts!UpdatePassword, Accounts!At,
             Accounts!Await, Accounts!Refuse, Accounts!server, Accounts!history
    <2>2. \A i \in Accounts!Ids : ~Counting(call[k], i) BY <2>1 DEF Counting
    <2> QED BY <1>1, <2>1, <2>2
  <1>13. ASSUME NEW k \in Requests, Accounts!DeleteRecord(k) PROVE Guesses'
    <2>1. /\ call[k] # Accounts!Idle
          /\ call[k].at = "deleteRecord"
          /\ UNCHANGED <<codes, misses>>
          /\ call' = [call EXCEPT ![k] = Accounts!Idle]
          /\ record' = Accounts!Forget(call[k].id)
      BY <1>13 DEF Accounts!DeleteRecord, Accounts!At, Accounts!Answer
    <2>2. \A i \in Accounts!Ids : ~Counting(call[k], i) BY <2>1 DEF Counting
    <2>3. \A j \in Accounts!Ids : record'[j] # Accounts!NoRecord =>
          record[j] # Accounts!NoRecord /\ record'[j] = record[j]
      BY <1>k, <2>1 DEF Accounts!Forget
    <2>4. \A j \in Accounts!Ids : record'[j] # Accounts!NoRecord =>
              record[j] # Accounts!NoRecord /\ record'[j].code = record[j].code /\
                    record'[j].attempts = record[j].attempts
      BY <2>3
    <2> QED BY <1>1, <2>1, <2>2, <2>4
  <1>14. ASSUME NEW op \in {"delete", "signup"}, Accounts!Request(op) PROVE Guesses'
    <2>1. /\ UNCHANGED <<Accounts!server, Accounts!history>>
          /\ \E k \in Requests : call[k] = Accounts!Idle /\ \E c :
                call' = [call EXCEPT ![k] = c]
      BY <1>14 DEF Accounts!Request
    <2> QED BY <1>2, <2>1
  <1>15. ASSUME NEW k \in Requests, Accounts!DeleteUser(k) \/ Accounts!Create(k) PROVE Guesses'
    <2>1. /\ call[k] # Accounts!Idle
          /\ call[k].op # "verify"
          /\ UNCHANGED <<codes, misses, record>>
          /\ \E c : call' = [call EXCEPT ![k] = c]
      BY <1>15
         DEF Accounts!DeleteUser, Accounts!Create, Accounts!At, Accounts!Await,
             Accounts!Refuse, Accounts!history
    <2>2. \A i \in Accounts!Ids : ~Counting(call[k], i) BY <2>1 DEF Counting
    <2> QED BY <1>1, <2>1, <2>2
  <1>16. ASSUME NEW i \in Accounts!Ids, Accounts!Expire(i) PROVE Guesses'
    <2>1. record[i] \in Accounts!Record /\ UNCHANGED <<codes, misses, call>>
      BY <1>k, <1>16 DEF Accounts!Expire, Accounts!history
    <2>2. \A j \in Accounts!Ids : record'[j] # Accounts!NoRecord =>
              record[j] # Accounts!NoRecord /\ record'[j].code = record[j].code /\
                    record'[j].attempts = record[j].attempts
      BY <1>k, <1>16, <2>1 DEF Accounts!Expire, Accounts!Record
    <2>3. \A j \in Accounts!Ids : Pend(j)' = Pend(j) BY <2>1 DEF Pend, Accounts!At
    <2>4. \A j \in Accounts!Ids : Cardinality(Pend(j)') = Cardinality(Pend(j)) BY <2>3
    <2> QED BY <1>p, <2>1, <2>2, <2>4, GuessesStay
  <1> QED
    BY <1>3, <1>4, <1>5, <1>6, <1>7, <1>8, <1>9, <1>10, <1>11, <1>12, <1>13, <1>14, <1>15, <1>16
       DEF Accounts!Next

(* A token that is nowhere it was not before is in one place still. *)
LEMMA NoNewPlace ==
    ASSUME NEW t \in 1 .. MaxTokens, InOnePlace(t), tokens \in Nat, tokens' \in Nat,
           tokens <= tokens',
           \A k \in Requests : Marking(call'[k], t) => Marking(call[k], t),
           \A i \in Accounts!Ids : HasToken(i, t)' => HasToken(i, t),
           \A k \in Requests, i \in Accounts!Ids : Resetting(call'[k], i, t) =>
                 Resetting(call[k], i, t),
           t \in spent' => t \in spent
    PROVE  InOnePlace(t)'
  <1>1. (\A i, j \in Accounts!Ids : HasToken(i, t) /\ HasToken(j, t) => i = j)'
    BY DEF InOnePlace
  <1>2. (\A k, l \in Requests : Marking(call[k], t) /\ Marking(call[l], t) => k = l)'
    BY DEF InOnePlace
  <1>3. (\A k \in Requests : Marking(call[k], t) =>
        t \notin spent /\ \A i \in Accounts!Ids : ~HasToken(i, t))'
    BY DEF InOnePlace
  <1>4. (\A k \in Requests, i \in Accounts!Ids : Resetting(call[k], i, t) =>
          /\ \A l \in Requests : ~Marking(call[l], t)
          /\ \A j \in Accounts!Ids : j # i => ~HasToken(j, t))'
    BY DEF InOnePlace
  <1>5. (t \in spent =>
        (\A l \in Requests : ~Marking(call[l], t)) /\ \A i \in Accounts!Ids : ~HasToken(i, t))'
    BY DEF InOnePlace
  <1>6. t > tokens' => t > tokens OBVIOUS
  <1>7. (t > tokens =>
          /\ t \notin spent
          /\ \A i \in Accounts!Ids : ~HasToken(i, t)
          /\ \A k \in Requests : ~Marking(call[k], t) /\ \A i \in Accounts!Ids :
                ~Resetting(call[k], i, t))'
    BY <1>6 DEF InOnePlace
  <1> QED BY <1>1, <1>2, <1>3, <1>4, <1>5, <1>7 DEF InOnePlace

(* One request moves, with no token that it did not have; records may go. *)
LEMMA MovesNoToken ==
    ASSUME AccountsKept, Tokens, NEW k \in Requests, NEW c, call' = [call EXCEPT ![k] = c],
           UNCHANGED <<tokens, spent>>,
           Accounts!AccountsAssumption,
           \A t \in 1 .. MaxTokens : Marking(c, t) => Marking(call[k], t),
           \A i \in Accounts!Ids, t \in 0 .. MaxTokens : Resetting(c, i, t) =>
                 Resetting(call[k], i, t),
           \A i \in Accounts!Ids : record'[i] # Accounts!NoRecord =>
              record'[i].token = 0 \/
                    (record[i] # Accounts!NoRecord /\ record'[i].token = record[i].token)
    PROVE  Tokens'
  <1>1. call'[k] = c /\ \A l \in Requests : l # k => call'[l] = call[l]
    BY DEF AccountsKept, Accounts!TypeOK
  <1>2. tokens \in Nat /\ 0 \in 0 .. MaxTokens /\ 1 .. MaxTokens \subseteq 0 .. MaxTokens
    BY SameLibrary DEF AccountsKept, Accounts!TypeOK, Accounts!AccountsAssumption
  <1>3. ASSUME NEW t \in 1 .. MaxTokens PROVE InOnePlace(t)'
    <2>1. \A l \in Requests : Marking(call'[l], t) => Marking(call[l], t) BY <1>1
    <2>2. \A l \in Requests, i \in Accounts!Ids : Resetting(call'[l], i, t) =>
          Resetting(call[l], i, t)
      BY <1>1, <1>2
    <2>3. \A i \in Accounts!Ids : HasToken(i, t)' => HasToken(i, t)
      <3>1. t # 0 OBVIOUS
      <3> QED BY <3>1 DEF HasToken
    <2>4. InOnePlace(t) /\ (t \in spent' => t \in spent) /\ tokens' \in Nat /\ tokens <= tokens'
      BY <1>2 DEF Tokens
    <2> QED BY <1>2, <2>1, <2>2, <2>3, <2>4, NoNewPlace
  <1>4. (\A l \in Requests, i \in Accounts!Ids : ~Resetting(call[l], i, 0))'
    BY <1>1, <1>2 DEF Tokens
  <1> QED BY <1>3, <1>4 DEF Tokens

(* No step puts a token in a second place, or back.                          *)
LEMMA TokenStep ==
    ASSUME Accounts!AccountsAssumption, AccountsKept, Tokens, Accounts!Next
    PROVE  Tokens'
  <1>k. /\ call \in [Requests -> Accounts!Call \union {Accounts!Idle}]
        /\ record \in [Accounts!Ids -> Accounts!Record \union {Accounts!NoRecord}]
        /\ tokens \in Nat /\ MaxTokens \in Nat
    BY SameLibrary DEF AccountsKept, Accounts!TypeOK, Accounts!AccountsAssumption
  (* a request moves that has no token and gets none *)
  <1>1. ASSUME NEW k \in Requests, NEW c, call' = [call EXCEPT ![k] = c],
  UNCHANGED <<tokens, spent>>,
               c = Accounts!Idle \/ c.op \notin {"verify", "reset"}
               \/ c.at \notin {"mark", "hash", "update", "deleteRecord"},
               \A i \in Accounts!Ids : record'[i] # Accounts!NoRecord =>
                  record'[i].token = 0 \/
                        (record[i] # Accounts!NoRecord /\ record'[i].token = record[i].token)
        PROVE  Tokens'
    <2>1. /\ \A t \in 1 .. MaxTokens : ~Marking(c, t)
          /\ \A i \in Accounts!Ids, t \in 0 .. MaxTokens : ~Resetting(c, i, t)
      BY <1>1 DEF Marking, Resetting
    <2> QED BY <1>1, <2>1, MovesNoToken
  <1>2. ASSUME NEW p \in Pages, Accounts!Submit(p) PROVE Tokens'
    <2>1. UNCHANGED <<tokens, spent, record>>
      BY <1>2 DEF Accounts!Submit, Accounts!server, Accounts!history
    <2>2. PICK k \in Requests : \E c : call' = [call EXCEPT ![k] = c] /\ c.at = "findUser"
      <3>1. \A op, code, token : Accounts!New(op, "findUser", code, token, {p}).at = "findUser"
        BY DEF Accounts!New
      <3>2. PICK k \in Requests : \E op, code, token :
                call' = [call EXCEPT ![k] = Accounts!New(op, "findUser", code, token, {p})]
        BY <1>2, ZenonT(30) DEF Accounts!Submit
      <3> QED BY <3>1, <3>2, Zenon
    <2>3. PICK c : call' = [call EXCEPT ![k] = c] /\ c.at = "findUser" BY <2>2
    <2> QED BY <1>1, <2>1, <2>3
  <1>3. ASSUME NEW p \in Pages, Accounts!Resend(p) PROVE Tokens'
    <2>1. UNCHANGED <<tokens, spent, record, call>>
      BY <1>3 DEF Accounts!Resend, Accounts!server, Accounts!history
    <2>2. \A t \in 1 .. MaxTokens : InOnePlace(t)' <=> InOnePlace(t)
      BY <2>1 DEF InOnePlace, HasToken
    <2> QED BY <2>1, <2>2 DEF Tokens
  <1>4. ASSUME NEW k \in Requests, Accounts!AnswerLost(k) PROVE Tokens'
    <2>1. /\ UNCHANGED <<tokens, spent, record>>
          /\ call' = [call EXCEPT ![k].from = {}]
          /\ call[k] # Accounts!Idle
      BY <1>4 DEF Accounts!AnswerLost, Accounts!server, Accounts!history
    <2>2. PICK c : c = [call[k] EXCEPT !.from = {}] OBVIOUS
    <2>3. call[k] \in Accounts!Call BY <1>k, <2>1
    <2>4. c.op = call[k].op /\ c.at = call[k].at /\ c.id = call[k].id /\ c.token = call[k].token
      BY <2>2, <2>3 DEF Accounts!Call
    <2>5. /\ \A t \in 1 .. MaxTokens : Marking(c, t) => Marking(call[k], t)
          /\ \A i \in Accounts!Ids, t \in 0 .. MaxTokens : Resetting(c, i, t) =>
                Resetting(call[k], i, t)
      BY <2>1, <2>4 DEF Marking, Resetting
    <2>6. call' = [call EXCEPT ![k] = c] BY <2>1, <2>2
    <2> QED BY <2>1, <2>5, <2>6, MovesNoToken
  <1>5. ASSUME NEW k \in Requests, Accounts!FindUser(k) PROVE Tokens'
    <2>1. call[k] # Accounts!Idle /\ call[k].at = "findUser" /\
          UNCHANGED <<tokens, spent, record>>
      BY <1>5 DEF Accounts!FindUser, Accounts!server, Accounts!history
    <2>2. call[k] \in Accounts!Call BY <1>k, <2>1
    <2>3. CASE call' = [call EXCEPT ![k] = Accounts!Idle] BY <1>1, <2>1, <2>3
    <2>4. CASE /\ call[k].op # "signup"
               /\ call' = [call EXCEPT ![k].id = account, ![k].at = Accounts!First[call[k].op]]
      <3>1. PICK c : c = [call[k] EXCEPT !.id = account, !.at = Accounts!First[call[k].op]]
        OBVIOUS
      <3>2. call[k].op \in {"forgot", "verify", "reset", "delete"}
        BY <2>2, <2>4 DEF Accounts!Call
      <3>3. Accounts!First[call[k].op] \in {"upsert", "findRecord", "deleteUser"}
        BY <3>2 DEF Accounts!First
      <3>4. c.at \in {"upsert", "findRecord", "deleteUser"}
        BY <2>2, <3>1, <3>3 DEF Accounts!Call
      <3>5. call' = [call EXCEPT ![k] = c] BY <2>4, <3>1
      <3> QED BY <1>1, <2>1, <3>4, <3>5
    <2>5. CASE call[k].op = "signup" /\ call' = [call EXCEPT ![k].at = "hash"]
      <3>1. PICK c : c = [call[k] EXCEPT !.at = "hash"] OBVIOUS
      <3>2. c.op = "signup" BY <2>2, <2>5, <3>1 DEF Accounts!Call
      <3>3. call' = [call EXCEPT ![k] = c] BY <2>5, <3>1
      <3> QED BY <1>1, <2>1, <3>2, <3>3
    <2> QED BY <1>5, <2>3, <2>4, <2>5
        DEF Accounts!FindUser, Accounts!Await, Accounts!Answer, Accounts!Refuse
  <1>6. ASSUME NEW k \in Requests, Accounts!Upsert(k) PROVE Tokens'
    <2>1. /\ call[k] # Accounts!Idle /\ call[k].op = "forgot" /\ UNCHANGED <<tokens, spent>>
          /\ record' = [record EXCEPT ![call[k].id] = Accounts!Fresh(codes + 1)]
          /\ call' = [call EXCEPT ![k].at = "mail", ![k].code = codes + 1]
      BY <1>6 DEF Accounts!Upsert, Accounts!At, Accounts!history
    <2>2. call[k] \in Accounts!Call BY <1>k, <2>1
    <2>3. PICK c : c = [call[k] EXCEPT !.at = "mail", !.code = codes + 1] OBVIOUS
    <2>4. c.at = "mail" /\ call' = [call EXCEPT ![k] = c] BY <2>1, <2>2, <2>3 DEF Accounts!Call
    <2>5. Accounts!Fresh(codes + 1).token = 0 BY DEF Accounts!Fresh
    <2>6. \A i \in Accounts!Ids : record'[i] # Accounts!NoRecord =>
             record'[i].token = 0 \/
                   (record[i] # Accounts!NoRecord /\ record'[i].token = record[i].token)
      <3>1. \A i \in Accounts!Ids :
            record'[i] = record[i] \/ record'[i] = Accounts!Fresh(codes + 1)
        BY <1>k, <2>1
      <3> QED BY <2>5, <3>1
    <2> QED BY <1>1, <2>1, <2>4, <2>6
  <1>7. ASSUME NEW k \in Requests, Accounts!Mail(k) PROVE Tokens'
    <2>1. UNCHANGED <<tokens, spent, record>> /\ call' = [call EXCEPT ![k] = Accounts!Idle]
      BY <1>7 DEF Accounts!Mail, Accounts!Answer, Accounts!history
    <2> QED BY <1>1, <2>1
  <1>8. ASSUME NEW k \in Requests, Accounts!Compare(k) PROVE Tokens'
    <2>1. call[k] # Accounts!Idle /\ call[k].op = "verify" /\ UNCHANGED <<spent, record>>
      BY <1>8 DEF Accounts!Compare, Accounts!At
    <2>2. call[k] \in Accounts!Call BY <1>k, <2>1
    <2>3. CASE Accounts!Refuse(k) /\ UNCHANGED tokens BY <1>1, <2>1, <2>3 DEF Accounts!Refuse
    <2>4. CASE Accounts!Await(k, "increment") /\ UNCHANGED tokens
      <3>1. PICK c : c = [call[k] EXCEPT !.at = "increment"] OBVIOUS
      <3>2. c.at = "increment" /\ call' = [call EXCEPT ![k] = c]
        BY <2>2, <2>4, <3>1 DEF Accounts!Call, Accounts!Await
      <3> QED BY <1>1, <2>1, <2>4, <3>2
    <2>5. CASE /\ tokens < MaxTokens /\ tokens' = tokens + 1
               /\ call' = [call EXCEPT ![k].at = "mark", ![k].token = tokens + 1]
      <3>1. PICK n \in 1 .. MaxTokens : n = tokens + 1 BY <1>k, <2>5
      <3>2. PICK c : c = [call[k] EXCEPT !.at = "mark", !.token = n] OBVIOUS
      <3>3. c.op = "verify" /\ c.token = n /\ call' = [call EXCEPT ![k] = c]
        BY <2>1, <2>2, <2>5, <3>1, <3>2 DEF Accounts!Call
      <3>4. call'[k] = c /\ \A l \in Requests : l # k => call'[l] = call[l] BY <1>k, <3>3
      <3>5. \A i \in Accounts!Ids, t \in 0 .. MaxTokens : ~Resetting(c, i, t)
        BY <3>3 DEF Resetting
      <3>6. \A i \in Accounts!Ids, t \in 1 .. MaxTokens : HasToken(i, t)' <=> HasToken(i, t)
        BY <2>1 DEF HasToken
      <3>7. n > tokens /\ tokens' = n /\ tokens <= tokens' /\ tokens' \in Nat
        BY <1>k, <2>5, <3>1
      <3>8. ASSUME NEW t \in 1 .. MaxTokens, t # n PROVE InOnePlace(t)'
        <4>1. ~Marking(c, t) BY <3>3, <3>8 DEF Marking
        <4>2. \A l \in Requests : Marking(call'[l], t) => Marking(call[l], t) BY <3>4, <4>1
        <4>3. \A l \in Requests, i \in Accounts!Ids : Resetting(call'[l], i, t) =>
              Resetting(call[l], i, t)
          <5>1. t \in 0 .. MaxTokens OBVIOUS
          <5> QED BY <3>4, <3>5, <5>1
        <4>4. InOnePlace(t) BY DEF Tokens
        <4> QED BY <1>k, <2>1, <3>6, <3>7, <4>2, <4>3, <4>4, NoNewPlace
      <3>9. InOnePlace(n)'
        <4>1. /\ n \notin spent
              /\ \A i \in Accounts!Ids : ~HasToken(i, n)
              /\ \A l \in Requests : ~Marking(call[l], n) /\ \A i \in Accounts!Ids :
                    ~Resetting(call[l], i, n)
          BY <3>7 DEF Tokens, InOnePlace
        <4>2. n \notin spent' /\ \A i \in Accounts!Ids : ~HasToken(i, n)' BY <2>1, <3>6, <4>1
        <4>3. \A l \in Requests : l # k => ~Marking(call'[l], n) BY <3>4, <4>1
        <4>4. \A l \in Requests, i \in Accounts!Ids : ~Resetting(call'[l], i, n)
          <5>1. n \in 0 .. MaxTokens OBVIOUS
          <5> QED BY <3>4, <3>5, <4>1, <5>1
        <4>5. ~(n > tokens') BY <3>7
        <4> QED BY <4>2, <4>3, <4>4, <4>5 DEF InOnePlace
      <3>10. (\A l \in Requests, i \in Accounts!Ids : ~Resetting(call[l], i, 0))'
        <4>1. 0 \in 0 .. MaxTokens BY <1>k
        <4> QED BY <3>4, <3>5, <4>1 DEF Tokens
      <3> QED BY <3>8, <3>9, <3>10 DEF Tokens
    <2> QED BY <1>8, <2>3, <2>4, <2>5 DEF Accounts!Compare
  <1>9. ASSUME NEW k \in Requests, Accounts!Increment(k) PROVE Tokens'
    <2>1. UNCHANGED <<tokens, spent>> /\ call' = [call EXCEPT ![k] = Accounts!Idle]
      BY <1>9 DEF Accounts!Increment, Accounts!Refuse, Accounts!history
    <2>2. \A i \in Accounts!Ids : record'[i] # Accounts!NoRecord =>
          record[i] # Accounts!NoRecord /\ record'[i].token = record[i].token
      BY <1>9, GuessIsCounted
    <2> QED BY <1>1, <2>1, <2>2
  <1>10. ASSUME NEW k \in Requests, Accounts!MarkVerified(k) PROVE Tokens'
    <2>1. /\ call[k] # Accounts!Idle /\ call[k].op = "verify" /\ call[k].at = "mark"
          /\ UNCHANGED <<tokens, spent>> /\ call' = [call EXCEPT ![k] = Accounts!Idle]
      BY <1>10 DEF Accounts!MarkVerified, Accounts!At, Accounts!Answer, Accounts!history
    <2>2. call[k] \in Accounts!Call BY <1>k, <2>1
    <2>3. PICK n \in 0 .. MaxTokens : n = call[k].token BY <2>2 DEF Accounts!Call
    <2>4. PICK i \in Accounts!Ids : i = call[k].id BY <1>10, TokenIsPut
    <2>5. /\ \A j \in Accounts!Ids : j # i => record'[j] = record[j]
          /\ record'[i] # Accounts!NoRecord => record'[i].token = n
      BY <1>10, <2>3, <2>4, TokenIsPut
    <2>6. call'[k] = Accounts!Idle /\ \A l \in Requests : l # k => call'[l] = call[l]
      BY <1>k, <2>1
    <2>7. \A l \in Requests, t \in 0 .. MaxTokens :
             /\ Marking(call'[l], t) => Marking(call[l], t)
             /\ \A j \in Accounts!Ids : Resetting(call'[l], j, t) => Resetting(call[l], j, t)
      BY <2>6 DEF Marking, Resetting
    <2>8. Marking(call[k], n) BY <2>1, <2>3 DEF Marking
    <2>9. ASSUME NEW t \in 1 .. MaxTokens, t # n PROVE InOnePlace(t)'
      <3>1. \A j \in Accounts!Ids : HasToken(j, t)' => HasToken(j, t) BY <2>5, <2>9 DEF HasToken
      <3>2. InOnePlace(t) /\ t \in 0 .. MaxTokens BY DEF Tokens
      <3>3. tokens' \in Nat /\ tokens <= tokens' BY <1>k, <2>1
      <3> QED BY <1>k, <2>1, <2>7, <3>1, <3>2, <3>3, NoNewPlace
    <2>10. ASSUME n # 0 PROVE InOnePlace(n)'
      <3>1. n \in 1 .. MaxTokens /\ InOnePlace(n) BY <2>10 DEF Tokens
      <3>2. n \notin spent /\ \A j \in Accounts!Ids : ~HasToken(j, n)
        BY <2>8, <3>1 DEF InOnePlace
      <3>3. \A l \in Requests : ~Marking(call'[l], n)
        <4>1. ~Marking(call'[k], n) BY <2>6 DEF Marking
        <4> QED BY <2>6, <2>8, <3>1, <4>1 DEF InOnePlace
      <3>4. \A l \in Requests, j \in Accounts!Ids : ~Resetting(call'[l], j, n)
        BY <2>7, <2>8, <3>1 DEF InOnePlace
      <3>5. ~(n > tokens) BY <2>8, <3>1 DEF InOnePlace
      <3>6. \A j \in Accounts!Ids : HasToken(j, n)' => j = i BY <2>5, <3>2 DEF HasToken
      <3>7. n \notin spent' /\ ~(n > tokens') BY <2>1, <3>2, <3>5
      <3> QED BY <3>3, <3>4, <3>6, <3>7 DEF InOnePlace
    <2>11. (\A l \in Requests, j \in Accounts!Ids : ~Resetting(call[l], j, 0))'
      <3>1. 0 \in 0 .. MaxTokens BY <1>k
      <3> QED BY <2>7, <3>1 DEF Tokens
    <2>12. \A t \in 1 .. MaxTokens : t # 0 OBVIOUS
    <2> QED BY <2>9, <2>10, <2>11, <2>12 DEF Tokens
  <1>11. ASSUME NEW k \in Requests, Accounts!CheckToken(k) PROVE Tokens'
    <2>1. /\ call[k] # Accounts!Idle
          /\ call[k].op = "reset"
          /\ call[k].at = "findRecord"
          /\ UNCHANGED <<tokens, spent, record>>
      BY <1>11 DEF Accounts!CheckToken, Accounts!At, Accounts!server, Accounts!history
    <2>2. call[k] \in Accounts!Call BY <1>k, <2>1
    <2>3. CASE ~Accounts!Proven(k)
      BY <1>1, <1>11, <2>1, <2>3 DEF Accounts!CheckToken, Accounts!Refuse
    <2>4. CASE Accounts!Proven(k)
      <3>1. PICK i \in Accounts!Ids : i = call[k].id
        <4>1. RequestOK(k) BY DEF AccountsKept
        <4> QED BY <2>1, <4>1 DEF RequestOK
      <3>2. PICK n \in 0 .. MaxTokens : n = call[k].token BY <2>2 DEF Accounts!Call
      <3>3. n # 0 /\ HasToken(i, n) BY <2>4, <3>1, <3>2 DEF Accounts!Proven, HasToken
      <3>4. PICK c : c = [call[k] EXCEPT !.at = "hash"] OBVIOUS
      <3>5. c.op = "reset" /\ c.at = "hash" /\ c.id = i /\ c.token = n
        BY <2>1, <2>2, <3>1, <3>2, <3>4 DEF Accounts!Call
      <3>6. call' = [call EXCEPT ![k] = c]
        BY <1>11, <2>4, <3>4 DEF Accounts!CheckToken, Accounts!Await
      <3>7. call'[k] = c /\ \A l \in Requests : l # k => call'[l] = call[l] BY <1>k, <3>6
      <3>8. \A l \in Requests, t \in 0 .. MaxTokens : Marking(call'[l], t) =>
            Marking(call[l], t)
        BY <3>5, <3>7 DEF Marking
      <3>9. \A l \in Requests, j \in Accounts!Ids, t \in 0 .. MaxTokens :
               Resetting(call'[l], j, t) => Resetting(call[l], j, t) \/ (j = i /\ t = n)
        <4>1. \A j \in Accounts!Ids, t \in 0 .. MaxTokens : Resetting(c, j, t) => j = i /\ t = n
          BY <3>5 DEF Resetting
        <4> QED BY <3>7, <4>1
      <3>10. \A j \in Accounts!Ids, t \in 1 .. MaxTokens : HasToken(j, t)' <=> HasToken(j, t)
        BY <2>1 DEF HasToken
      <3>11. tokens' \in Nat /\ tokens <= tokens' BY <1>k, <2>1
      <3>12. ASSUME NEW t \in 1 .. MaxTokens, t # n PROVE InOnePlace(t)'
        <4>1. InOnePlace(t) /\ t \in 0 .. MaxTokens BY DEF Tokens
        <4>2. \A l \in Requests, j \in Accounts!Ids : Resetting(call'[l], j, t) =>
              Resetting(call[l], j, t)
          BY <3>9, <3>12, <4>1
        <4>3. \A l \in Requests : Marking(call'[l], t) => Marking(call[l], t) BY <3>8, <4>1
        <4>4. \A j \in Accounts!Ids : HasToken(j, t)' => HasToken(j, t) BY <3>10
        <4> QED BY <1>k, <2>1, <3>11, <4>1, <4>2, <4>3, <4>4, NoNewPlace
      <3>13. InOnePlace(n)'
        <4>1. n \in 1 .. MaxTokens /\ InOnePlace(n) BY <3>3 DEF Tokens
        <4>2. n \notin spent /\ (\A l \in Requests : ~Marking(call[l], n)) /\ ~(n > tokens)
          BY <3>3, <4>1 DEF InOnePlace
        <4>3. \A j \in Accounts!Ids : HasToken(j, n) => j = i BY <3>3, <4>1 DEF InOnePlace
        <4>4. \A l \in Requests : ~Marking(call'[l], n) BY <3>8, <4>2
        <4>5. \A j \in Accounts!Ids : HasToken(j, n)' => j = i BY <3>10, <4>1, <4>3
        <4>6. n \notin spent' /\ ~(n > tokens') BY <2>1, <4>2
        <4>7. \A l \in Requests, j \in Accounts!Ids : Resetting(call'[l], j, n) =>
              \A m \in Accounts!Ids : m # j => ~HasToken(m, n)'
          <5> SUFFICES ASSUME NEW l \in Requests, NEW j \in Accounts!Ids,
          Resetting(call'[l], j, n),
                              NEW m \in Accounts!Ids, m # j, HasToken(m, n)'
                       PROVE  FALSE
            OBVIOUS
          <5>1. m = i /\ Resetting(call[l], j, n) BY <3>9, <4>5
          <5> QED BY <3>3, <4>1, <5>1 DEF InOnePlace
        <4> QED BY <4>4, <4>5, <4>6, <4>7 DEF InOnePlace
      <3>14. (\A l \in Requests, j \in Accounts!Ids : ~Resetting(call[l], j, 0))'
        <4>1. 0 \in 0 .. MaxTokens BY <1>k
        <4> QED BY <3>3, <3>9, <4>1 DEF Tokens
      <3> QED BY <3>12, <3>13, <3>14 DEF Tokens
    <2> QED BY <2>3, <2>4
  <1>12. ASSUME NEW k \in Requests, Accounts!Hashed(k) \/ Accounts!UpdatePassword(k)
      PROVE Tokens'
    <2>1. call[k] # Accounts!Idle /\ UNCHANGED <<tokens, spent, record>>
      BY <1>12
         DEF Accounts!Hashed, Accounts!UpdatePassword, Accounts!At, Accounts!server,
             Accounts!history
    <2>2. call[k] \in Accounts!Call BY <1>k, <2>1
    <2>3. PICK to : call' = [call EXCEPT ![k].at = to] /\
          (call[k].op = "reset" => call[k].at \in {"hash", "update"})
                    /\ call[k].op # "verify"
      BY <1>12 DEF Accounts!Hashed, Accounts!UpdatePassword, Accounts!At, Accounts!Await
    <2>4. PICK c : c = [call[k] EXCEPT !.at = to] OBVIOUS
    <2>5. /\ c.op = call[k].op
          /\ c.id = call[k].id
          /\ c.token = call[k].token
          /\ call' = [call EXCEPT ![k] = c]
      BY <2>2, <2>3, <2>4 DEF Accounts!Call
    <2>6. /\ \A t \in 1 .. MaxTokens : Marking(c, t) => Marking(call[k], t)
          /\ \A i \in Accounts!Ids, t \in 0 .. MaxTokens : Resetting(c, i, t) =>
                Resetting(call[k], i, t)
      BY <2>1, <2>3, <2>5 DEF Marking, Resetting
    <2> QED BY <2>1, <2>5, <2>6, MovesNoToken
  <1>13. ASSUME NEW k \in Requests, Accounts!DeleteRecord(k) PROVE Tokens'
    <2>1. /\ call[k] # Accounts!Idle
          /\ call[k].op \in {"reset", "delete"}
          /\ call[k].at = "deleteRecord"
          /\ call' = [call EXCEPT ![k] = Accounts!Idle] /\ tokens' = tokens
          /\ record' = [record EXCEPT ![call[k].id] = Accounts!NoRecord]
          /\ spent' = spent \union ({call[k].token} \ {0})
      BY <1>13 DEF Accounts!DeleteRecord, Accounts!At, Accounts!Answer, Accounts!Forget
    <2>2. call[k] \in Accounts!Call BY <1>k, <2>1
    <2>3. RequestOK(k) BY DEF AccountsKept
    <2>4. PICK i \in Accounts!Ids : i = call[k].id BY <2>1, <2>3 DEF RequestOK
    <2>5. PICK n \in 0 .. MaxTokens : n = call[k].token BY <2>2 DEF Accounts!Call
    <2>6. record'[i] = Accounts!NoRecord /\ \A j \in Accounts!Ids : j # i =>
          record'[j] = record[j]
      BY <1>k, <2>1, <2>4
    <2>7. CASE call[k].op = "delete"
      <3>1. spent' = spent BY <2>1, <2>3, <2>7 DEF RequestOK
      <3> QED BY <1>1, <2>1, <2>6, <3>1
    <2>8. CASE call[k].op = "reset"
      <3>1. Resetting(call[k], i, n) BY <2>1, <2>4, <2>5, <2>8 DEF Resetting
      <3>2. n # 0 BY <3>1 DEF Tokens
      <3>3. n \in 1 .. MaxTokens /\ InOnePlace(n) /\ spent' = spent \union {n}
        BY <2>1, <2>5, <3>2 DEF Tokens
      <3>4. call'[k] = Accounts!Idle /\ \A l \in Requests : l # k => call'[l] = call[l]
        BY <1>k, <2>1
      <3>5. \A l \in Requests, t \in 0 .. MaxTokens :
               /\ Marking(call'[l], t) => Marking(call[l], t)
               /\ \A j \in Accounts!Ids : Resetting(call'[l], j, t) => Resetting(call[l], j, t)
        BY <3>4 DEF Marking, Resetting
      <3>6. \A j \in Accounts!Ids, t \in 1 .. MaxTokens : HasToken(j, t)' =>
            HasToken(j, t) /\ j # i
        BY <2>6 DEF HasToken
      <3>7. tokens' \in Nat /\ tokens <= tokens' BY <1>k, <2>1
      <3>8. ASSUME NEW t \in 1 .. MaxTokens, t # n PROVE InOnePlace(t)'
        <4>1. InOnePlace(t) /\ t \in 0 .. MaxTokens /\ (t \in spent' => t \in spent)
          BY <3>3, <3>8 DEF Tokens
        <4> QED BY <1>k, <3>5, <3>6, <3>7, <4>1, NoNewPlace
      <3>9. InOnePlace(n)'
        <4>1. /\ \A l \in Requests : ~Marking(call[l], n)
              /\ \A j \in Accounts!Ids : j # i => ~HasToken(j, n)
              /\ ~(n > tokens)
          BY <3>1, <3>3 DEF InOnePlace
        <4>2. /\ (\A l \in Requests : ~Marking(call'[l], n))
              /\ (\A j \in Accounts!Ids : ~HasToken(j, n)')
              /\ ~(n > tokens')
          BY <2>1, <3>3, <3>5, <3>6, <4>1
        <4> QED BY <4>2 DEF InOnePlace
      <3>10. (\A l \in Requests, j \in Accounts!Ids : ~Resetting(call[l], j, 0))'
        <4>1. 0 \in 0 .. MaxTokens BY <1>k
        <4> QED BY <3>5, <4>1 DEF Tokens
      <3> QED BY <3>8, <3>9, <3>10 DEF Tokens
    <2> QED BY <2>1, <2>7, <2>8
  <1>14. ASSUME NEW op \in {"delete", "signup"}, Accounts!Request(op) PROVE Tokens'
    <2>1. UNCHANGED <<tokens, spent, record>>
      BY <1>14 DEF Accounts!Request, Accounts!server, Accounts!history
    <2>2. Accounts!New(op, "findUser", 0, 0, {}).at = "findUser" BY DEF Accounts!New
    <2>3. PICK k \in Requests : \E c : call' = [call EXCEPT ![k] = c] /\ c.at = "findUser"
      BY <1>14, <2>2 DEF Accounts!Request
    <2> QED BY <1>1, <2>1, <2>3
  <1>15. ASSUME NEW k \in Requests, Accounts!DeleteUser(k) \/ Accounts!Create(k) PROVE Tokens'
    <2>1. /\ call[k] # Accounts!Idle
          /\ call[k].op # "reset"
          /\ call[k].op # "verify"
          /\ UNCHANGED <<tokens, spent, record>>
          /\ (call' = [call EXCEPT ![k] = Accounts!Idle] \/
                call' = [call EXCEPT ![k].at = "deleteRecord"])
      BY <1>15
         DEF Accounts!DeleteUser, Accounts!Create, Accounts!At, Accounts!Await,
             Accounts!Refuse, Accounts!history
    <2>2. call[k] \in Accounts!Call BY <1>k, <2>1
    <2>3. CASE call' = [call EXCEPT ![k].at = "deleteRecord"]
      <3>1. PICK c : c = [call[k] EXCEPT !.at = "deleteRecord"] OBVIOUS
      <3>2. c.op \notin {"verify", "reset"} /\ call' = [call EXCEPT ![k] = c]
        BY <2>1, <2>2, <2>3, <3>1 DEF Accounts!Call
      <3> QED BY <1>1, <2>1, <3>2
    <2> QED BY <1>1, <2>1, <2>3
  <1>16. ASSUME NEW i \in Accounts!Ids, Accounts!Expire(i) PROVE Tokens'
    <2>1. record[i] \in Accounts!Record /\ UNCHANGED <<tokens, spent, call>>
      BY <1>k, <1>16 DEF Accounts!Expire, Accounts!history
    <2>2. \A j \in Accounts!Ids : record'[j] # Accounts!NoRecord =>
          record[j] # Accounts!NoRecord /\ record'[j].token = record[j].token
      BY <1>k, <1>16, <2>1 DEF Accounts!Expire, Accounts!Record
    <2>3. ASSUME NEW t \in 1 .. MaxTokens PROVE InOnePlace(t)'
      <3>1. InOnePlace(t) /\ (\A j \in Accounts!Ids : HasToken(j, t)' => HasToken(j, t))
        BY <2>2 DEF Tokens, HasToken
      <3>2. tokens' \in Nat /\ tokens <= tokens' BY <1>k, <2>1
      <3> QED BY <1>k, <2>1, <3>1, <3>2, NoNewPlace
    <2> QED BY <2>1, <2>3 DEF Tokens
  <1> QED
    BY <1>2, <1>3, <1>4, <1>5, <1>6, <1>7, <1>8, <1>9, <1>10, <1>11, <1>12, <1>13, <1>14,
       <1>15, <1>16
       DEF Accounts!Next

(* A step that neither uses the token t nor lets a request with it go on.     *)
LEMMA UsesStay ==
    ASSUME Accounts!AccountsAssumption, AccountsKept, NEW t \in 1 .. MaxTokens, UsesCounted(t),
           uses'[t] = uses[t], t \in spent' <=> t \in spent,
           \A l \in Requests : Changed(call[l], t) => Changed(call'[l], t),
           t \in spent => \A l \in Requests : Proved(call'[l], t) => Proved(call[l], t)
    PROVE  UsesCounted(t)'
  <1>1. IsFiniteSet(Requests) /\ uses[t] \in Nat
    BY SameLibrary DEF Accounts!AccountsAssumption, AccountsKept, Accounts!TypeOK
  <1>2. /\ Changers(t) \subseteq Changers(t)' /\ Changers(t)' \subseteq Requests
        /\ Provers(t) \subseteq Requests
        /\ t \in spent => Provers(t)' \subseteq Provers(t)
    BY DEF Changers, Provers
  <1>3. /\ Cardinality(Changers(t)) <= Cardinality(Changers(t)')
        /\ Cardinality(Changers(t)) \in Nat /\ Cardinality(Changers(t)') \in Nat
        /\ Cardinality(Provers(t)) \in Nat /\ Cardinality(Requests) \in Nat
    BY <1>1, <1>2, FS_Subset, FS_CardinalityType
  <1>4. t \in spent => /\ Cardinality(Provers(t)') <= Cardinality(Provers(t))
                       /\ Cardinality(Provers(t)') \in Nat
    BY <1>1, <1>2, FS_Subset, FS_CardinalityType
  <1>5. CASE t \in spent
    <2>1. uses'[t] + Cardinality(Provers(t)') <= Cardinality(Requests)
      BY <1>1, <1>3, <1>4, <1>5 DEF UsesCounted
    <2> QED BY <1>5, <2>1 DEF UsesCounted
  <1>6. CASE t \notin spent
    <2>1. uses'[t] <= Cardinality(Changers(t)') BY <1>1, <1>3, <1>6 DEF UsesCounted
    <2> QED BY <1>6, <2>1 DEF UsesCounted
  <1> QED BY <1>5, <1>6

(* A password is changed with the token t, by a request that had checked it. *)
LEMMA UseIsCounted ==
    ASSUME Accounts!AccountsAssumption, AccountsKept, NEW t \in 1 .. MaxTokens, UsesCounted(t),
           NEW k \in Requests, Proved(call[k], t), NEW c, Changed(c, t),
           call' = [call EXCEPT ![k] = c], spent' = spent,
           uses'[t] \in {uses[t], uses[t] + 1}
    PROVE  UsesCounted(t)'
  <1>1. /\ IsFiniteSet(Requests) /\ uses[t] \in Nat
        /\ call \in [Requests -> Accounts!Call \union {Accounts!Idle}]
    BY SameLibrary DEF Accounts!AccountsAssumption, AccountsKept, Accounts!TypeOK
  <1>2. call'[k] = c /\ \A l \in Requests : l # k => call'[l] = call[l] BY <1>1
  <1>3. ~Proved(c, t) /\ ~Changed(call[k], t) BY DEF Proved, Changed
  <1>4. /\ Changers(t)' = Changers(t) \union {k} /\ k \notin Changers(t)
        /\ Provers(t)' = Provers(t) \ {k} /\ k \in Provers(t)
        /\ Changers(t) \subseteq Requests /\ Provers(t) \subseteq Requests
    BY <1>2, <1>3 DEF Changers, Provers
  <1>5. IsFiniteSet(Changers(t)) /\ IsFiniteSet(Provers(t)) BY <1>1, <1>4, FS_Subset
  <1>6. /\ Cardinality(Changers(t)') = Cardinality(Changers(t)) + 1
        /\ Cardinality(Provers(t)') = Cardinality(Provers(t)) - 1
    <2>1. Cardinality(Changers(t) \union {k}) = Cardinality(Changers(t)) + 1
      BY <1>4, <1>5, FS_AddElement
    <2>2. Cardinality(Provers(t) \ {k}) = Cardinality(Provers(t)) - 1
      BY <1>4, <1>5, FS_RemoveElement
    <2> QED BY <1>4, <2>1, <2>2
  <1>7. /\ Cardinality(Changers(t)) \in Nat /\ Cardinality(Provers(t)) \in Nat
        /\ Cardinality(Requests) \in Nat
    BY <1>1, <1>5, FS_CardinalityType
  <1>8. CASE t \in spent
    <2>1. uses'[t] + Cardinality(Provers(t)') <= Cardinality(Requests)
      BY <1>1, <1>6, <1>7, <1>8 DEF UsesCounted
    <2> QED BY <1>8, <2>1 DEF UsesCounted
  <1>9. CASE t \notin spent
    <2>1. uses'[t] <= Cardinality(Changers(t)') BY <1>1, <1>6, <1>7, <1>9 DEF UsesCounted
    <2> QED BY <1>9, <2>1 DEF UsesCounted
  <1> QED BY <1>8, <1>9

(* The first removal of a record after a use of the token t, or a later one. *)
LEMMA TokenIsSpent ==
    ASSUME Accounts!AccountsAssumption, AccountsKept, NEW t \in 1 .. MaxTokens, UsesCounted(t),
           NEW k \in Requests, Changed(call[k], t), call' = [call EXCEPT ![k] = Accounts!Idle],
           uses' = uses, t \in spent'
    PROVE  UsesCounted(t)'
  <1>1. /\ IsFiniteSet(Requests) /\ uses[t] \in Nat
        /\ call \in [Requests -> Accounts!Call \union {Accounts!Idle}]
    BY SameLibrary DEF Accounts!AccountsAssumption, AccountsKept, Accounts!TypeOK
  <1>2. call'[k] = Accounts!Idle /\ \A l \in Requests : l # k => call'[l] = call[l] BY <1>1
  <1>3. /\ Provers(t)' = Provers(t)
        /\ Changers(t) \cap Provers(t) = {}
        /\ Changers(t) \subseteq Requests /\ Provers(t) \subseteq Requests
    BY <1>2 DEF Changers, Provers, Proved, Changed
  <1>4. /\ IsFiniteSet(Changers(t)) /\ IsFiniteSet(Provers(t))
        /\ Changers(t) \union Provers(t) \subseteq Requests
    BY <1>1, <1>3, FS_Subset
  <1>5. /\ Cardinality(Changers(t)) \in Nat /\ Cardinality(Provers(t)) \in Nat
        /\ Cardinality(Requests) \in Nat
        /\ Cardinality(Changers(t) \union Provers(t)) <= Cardinality(Requests)
    BY <1>1, <1>4, FS_CardinalityType, FS_Subset
  <1>6. Cardinality(Changers(t) \union Provers(t)) =
            Cardinality(Changers(t)) + Cardinality(Provers(t))
    <2>1. Cardinality(Changers(t) \union Provers(t)) =
              Cardinality(Changers(t)) + Cardinality(Provers(t))
                  - Cardinality(Changers(t) \cap Provers(t))
      BY <1>4, FS_Union
    <2>2. Cardinality(Changers(t) \cap Provers(t)) = 0 BY <1>3, FS_EmptySet
    <2> QED BY <1>5, <2>1, <2>2
  <1>7. uses[t] + Cardinality(Provers(t)) <= Cardinality(Requests)
    BY <1>1, <1>5, <1>6 DEF UsesCounted
  <1> QED BY <1>3, <1>7 DEF UsesCounted

(* No step uses a token more often than requests had checked it in time.     *)
LEMMA UsesStep ==
    ASSUME Accounts!AccountsAssumption, AccountsKept, Tokens, Accounts!Next,
           \A t \in 1 .. MaxTokens : UsesCounted(t)
    PROVE  \A t \in 1 .. MaxTokens : UsesCounted(t)'
  <1>k. call \in [Requests -> Accounts!Call \union {Accounts!Idle}]
    BY DEF AccountsKept, Accounts!TypeOK
  (* a request moves that has not changed a password and does not come to it *)
  <1>1. ASSUME NEW k \in Requests, NEW c, call' = [call EXCEPT ![k] = c],
               UNCHANGED <<uses, spent>>,
               call[k] = Accounts!Idle \/ call[k].op # "reset" \/ call[k].at # "deleteRecord",
               c = Accounts!Idle \/ c.op # "reset" \/ c.at \notin {"hash", "update"}
        PROVE  \A t \in 1 .. MaxTokens : UsesCounted(t)'
    <2> SUFFICES ASSUME NEW t \in 1 .. MaxTokens PROVE UsesCounted(t)' OBVIOUS
    <2>1. call'[k] = c /\ \A l \in Requests : l # k => call'[l] = call[l] BY <1>k, <1>1
    <2>2. ~Proved(c, t) /\ ~Changed(call[k], t) BY <1>1 DEF Proved, Changed
    <2> QED BY <1>1, <2>1, <2>2, UsesStay
  <1>2. ASSUME UNCHANGED <<call, uses, spent>> PROVE \A t \in 1 .. MaxTokens : UsesCounted(t)'
    BY <1>2 DEF UsesCounted, Changers, Provers
  <1>3. ASSUME NEW p \in Pages, Accounts!Submit(p) PROVE \A t \in 1 .. MaxTokens : UsesCounted(t)'
    <2>1. UNCHANGED <<uses, spent>> BY <1>3 DEF Accounts!Submit, Accounts!history
    <2>2. PICK k \in Requests : /\ call[k] = Accounts!Idle
                                /\ \E c : call' = [call EXCEPT ![k] = c] /\ c.at = "findUser"
      <3>1. \A op, code, token : Accounts!New(op, "findUser", code, token, {p}).at = "findUser"
        BY DEF Accounts!New
      <3>2. PICK k \in Requests : call[k] = Accounts!Idle /\ \E op, code, token :
                call' = [call EXCEPT ![k] = Accounts!New(op, "findUser", code, token, {p})]
        BY <1>3, ZenonT(30) DEF Accounts!Submit
      <3> QED BY <3>1, <3>2, Zenon
    <2>3. PICK c : call' = [call EXCEPT ![k] = c] /\ c.at = "findUser" BY <2>2
    <2> QED BY <1>1, <2>1, <2>2, <2>3
  <1>4. ASSUME NEW k \in Requests, Accounts!AnswerLost(k)
        PROVE  \A t \in 1 .. MaxTokens : UsesCounted(t)'
    <2>1. /\ UNCHANGED <<uses, spent>> /\ call[k] # Accounts!Idle
          /\ call' = [call EXCEPT ![k].from = {}]
      BY <1>4 DEF Accounts!AnswerLost, Accounts!history
    <2>2. PICK c : c = [call[k] EXCEPT !.from = {}] OBVIOUS
    <2>3. call[k] \in Accounts!Call BY <1>k, <2>1
    <2>4. /\ c # Accounts!Idle /\ c.op = call[k].op /\ c.at = call[k].at
          /\ c.token = call[k].token
      BY <2>2, <2>3, RequestsAreNotIdle DEF Accounts!Call
    <2>5. call'[k] = c /\ \A l \in Requests : l # k => call'[l] = call[l]
      BY <1>k, <2>1, <2>2
    <2> SUFFICES ASSUME NEW t \in 1 .. MaxTokens PROVE UsesCounted(t)' OBVIOUS
    <2>6. \A l \in Requests : /\ Changed(call[l], t) => Changed(call'[l], t)
                              /\ Proved(call'[l], t) => Proved(call[l], t)
      BY <2>1, <2>4, <2>5 DEF Changed, Proved
    <2> QED BY <2>1, <2>6, UsesStay
  <1>5. ASSUME NEW k \in Requests, Accounts!FindUser(k)
        PROVE  \A t \in 1 .. MaxTokens : UsesCounted(t)'
    <2>1. call[k] # Accounts!Idle /\ call[k].at = "findUser" /\ UNCHANGED <<uses, spent>>
      BY <1>5 DEF Accounts!FindUser, Accounts!history
    <2>2. call[k] \in Accounts!Call BY <1>k, <2>1
    <2>3. CASE call' = [call EXCEPT ![k] = Accounts!Idle] BY <1>1, <2>1, <2>3
    <2>4. CASE /\ call[k].op # "signup"
               /\ call' = [call EXCEPT ![k].id = account, ![k].at = Accounts!First[call[k].op]]
      <3>1. PICK c : c = [call[k] EXCEPT !.id = account, !.at = Accounts!First[call[k].op]]
        OBVIOUS
      <3>2. call[k].op \in {"forgot", "verify", "reset", "delete"}
        BY <2>2, <2>4 DEF Accounts!Call
      <3>3. Accounts!First[call[k].op] \in {"upsert", "findRecord", "deleteUser"}
        BY <3>2 DEF Accounts!First
      <3>4. c.at \in {"upsert", "findRecord", "deleteUser"}
        BY <2>2, <3>1, <3>3 DEF Accounts!Call
      <3>5. call' = [call EXCEPT ![k] = c] BY <2>4, <3>1
      <3> QED BY <1>1, <2>1, <3>4, <3>5
    <2>5. CASE call[k].op = "signup" /\ call' = [call EXCEPT ![k].at = "hash"]
      <3>1. PICK c : c = [call[k] EXCEPT !.at = "hash"] OBVIOUS
      <3>2. c.op = "signup" BY <2>2, <2>5, <3>1 DEF Accounts!Call
      <3>3. call' = [call EXCEPT ![k] = c] BY <2>5, <3>1
      <3> QED BY <1>1, <2>1, <3>2, <3>3
    <2> QED BY <1>5, <2>3, <2>4, <2>5
        DEF Accounts!FindUser, Accounts!Await, Accounts!Answer, Accounts!Refuse
  <1>6. ASSUME NEW k \in Requests,
               \/ Accounts!Upsert(k) \/ Accounts!Mail(k) \/ Accounts!Compare(k)
               \/ Accounts!Increment(k) \/ Accounts!MarkVerified(k)
               \/ Accounts!DeleteUser(k) \/ Accounts!Create(k)
        PROVE  \A t \in 1 .. MaxTokens : UsesCounted(t)'
    <2>1. call[k] # Accounts!Idle /\ call[k].op # "reset" /\ UNCHANGED <<uses, spent>>
      <3>1. CASE Accounts!Upsert(k) \/ Accounts!Mail(k)
        BY <3>1 DEF Accounts!Upsert, Accounts!Mail, Accounts!At, Accounts!history
      <3>2. CASE Accounts!Compare(k)
        BY <3>2 DEF Accounts!Compare, Accounts!At
      <3>3. CASE Accounts!Increment(k) \/ Accounts!MarkVerified(k)
        BY <3>3 DEF Accounts!Increment, Accounts!MarkVerified, Accounts!At, Accounts!history
      <3>4. CASE Accounts!DeleteUser(k) \/ Accounts!Create(k)
        BY <3>4 DEF Accounts!DeleteUser, Accounts!Create, Accounts!At, Accounts!history
      <3> QED BY <1>6, <3>1, <3>2, <3>3, <3>4
    <2>2. call[k] \in Accounts!Call BY <1>k, <2>1
    <2>3. CASE call' = [call EXCEPT ![k] = Accounts!Idle] BY <1>1, <2>1, <2>3
    <2>4. ASSUME NEW to, call' = [call EXCEPT ![k].at = to]
          PROVE  \A t \in 1 .. MaxTokens : UsesCounted(t)'
      <3>1. PICK c : c = [call[k] EXCEPT !.at = to] OBVIOUS
      <3>2. c.op # "reset" BY <2>1, <2>2, <3>1 DEF Accounts!Call
      <3>3. call' = [call EXCEPT ![k] = c] BY <2>4, <3>1
      <3> QED BY <1>1, <2>1, <3>2, <3>3
    <2>5. CASE call' = [call EXCEPT ![k].at = "mail", ![k].code = codes + 1]
      <3>1. PICK c : c = [call[k] EXCEPT !.at = "mail", !.code = codes + 1] OBVIOUS
      <3>2. c.op # "reset" BY <2>1, <2>2, <3>1 DEF Accounts!Call
      <3>3. call' = [call EXCEPT ![k] = c] BY <2>5, <3>1
      <3> QED BY <1>1, <2>1, <3>2, <3>3
    <2>6. CASE call' = [call EXCEPT ![k].at = "mark", ![k].token = tokens + 1]
      <3>1. PICK c : c = [call[k] EXCEPT !.at = "mark", !.token = tokens + 1] OBVIOUS
      <3>2. c.op # "reset" BY <2>1, <2>2, <3>1 DEF Accounts!Call
      <3>3. call' = [call EXCEPT ![k] = c] BY <2>6, <3>1
      <3> QED BY <1>1, <2>1, <3>2, <3>3
    <2>7. CASE Accounts!Upsert(k) BY <2>5, <2>7 DEF Accounts!Upsert
    <2>8. CASE Accounts!Mail(k) \/ Accounts!MarkVerified(k)
      BY <2>3, <2>8 DEF Accounts!Mail, Accounts!MarkVerified, Accounts!Answer
    <2>9. CASE Accounts!Increment(k) \/ Accounts!Create(k)
      BY <2>3, <2>9 DEF Accounts!Increment, Accounts!Create, Accounts!Refuse
    <2>10. CASE Accounts!Compare(k)
      BY <2>3, <2>4, <2>6, <2>10 DEF Accounts!Compare, Accounts!Await, Accounts!Refuse
    <2>11. CASE Accounts!DeleteUser(k)
      BY <2>3, <2>4, <2>11 DEF Accounts!DeleteUser, Accounts!Await, Accounts!Refuse
    <2> QED BY <1>6, <2>7, <2>8, <2>9, <2>10, <2>11
  (* the token that is checked is in a record, and so not spent *)
  <1>7. ASSUME NEW k \in Requests, Accounts!CheckToken(k)
        PROVE  \A t \in 1 .. MaxTokens : UsesCounted(t)'
    <2>1. /\ call[k] # Accounts!Idle /\ call[k].op = "reset" /\ call[k].at = "findRecord"
          /\ UNCHANGED <<uses, spent>>
      BY <1>7 DEF Accounts!CheckToken, Accounts!At, Accounts!history
    <2>2. call[k] \in Accounts!Call /\ call[k].id \in Accounts!Ids
      <3>1. RequestOK(k) BY DEF AccountsKept
      <3> QED BY <1>k, <2>1, <3>1 DEF RequestOK
    <2>3. CASE ~Accounts!Proven(k)
      BY <1>1, <1>7, <2>1, <2>3 DEF Accounts!CheckToken, Accounts!Refuse
    <2>4. CASE Accounts!Proven(k)
      <3>1. PICK c : c = [call[k] EXCEPT !.at = "hash"] OBVIOUS
      <3>2. c.op = "reset" /\ c.at = "hash" /\ c.token = call[k].token
        BY <2>1, <2>2, <3>1 DEF Accounts!Call
      <3>3. call' = [call EXCEPT ![k] = c]
        BY <1>7, <2>4, <3>1 DEF Accounts!CheckToken, Accounts!Await
      <3>4. call'[k] = c /\ \A l \in Requests : l # k => call'[l] = call[l] BY <1>k, <3>3
      <3> SUFFICES ASSUME NEW t \in 1 .. MaxTokens PROVE UsesCounted(t)' OBVIOUS
      <3>5. t \in spent => ~Proved(c, t)
        <4>1. HasToken(call[k].id, call[k].token) BY <2>4 DEF Accounts!Proven, HasToken
        <4>2. t \in spent => ~HasToken(call[k].id, t) BY <2>2 DEF Tokens, InOnePlace
        <4> QED BY <3>2, <4>1, <4>2 DEF Proved
      <3>6. ~Changed(call[k], t) BY <2>1 DEF Changed
      <3>7. \A l \in Requests : Changed(call[l], t) => Changed(call'[l], t) BY <3>4, <3>6
      <3>8. t \in spent => \A l \in Requests : Proved(call'[l], t) => Proved(call[l], t)
        BY <3>4, <3>5
      <3> QED BY <2>1, <3>7, <3>8, UsesStay
    <2> QED BY <2>3, <2>4
  <1>8. ASSUME NEW k \in Requests, Accounts!Hashed(k)
        PROVE  \A t \in 1 .. MaxTokens : UsesCounted(t)'
    <2>1. /\ call[k] # Accounts!Idle /\ call[k].at = "hash" /\ UNCHANGED <<uses, spent>>
          /\ call[k].op \in {"reset", "signup"}
          /\ call' = [call EXCEPT ![k].at = IF call[k].op = "reset" THEN "update" ELSE "create"]
      BY <1>8 DEF Accounts!Hashed, Accounts!At, Accounts!Await, Accounts!history
    <2>2. call[k] \in Accounts!Call BY <1>k, <2>1
    <2>3. PICK to : to = IF call[k].op = "reset" THEN "update" ELSE "create" OBVIOUS
    <2>4. PICK c : c = [call[k] EXCEPT !.at = to] OBVIOUS
    <2>5. c.op = call[k].op /\ c.token = call[k].token BY <2>2, <2>4 DEF Accounts!Call
    <2>6. call'[k] = c /\ \A l \in Requests : l # k => call'[l] = call[l]
      BY <1>k, <2>1, <2>3, <2>4
    <2> SUFFICES ASSUME NEW t \in 1 .. MaxTokens PROVE UsesCounted(t)' OBVIOUS
    <2>7. (Proved(c, t) => Proved(call[k], t)) /\ ~Changed(call[k], t)
      BY <2>1, <2>5 DEF Proved, Changed
    <2> QED BY <2>1, <2>6, <2>7, UsesStay
  <1>9. ASSUME NEW k \in Requests, Accounts!UpdatePassword(k)
        PROVE  \A t \in 1 .. MaxTokens : UsesCounted(t)'
    <2>1. /\ call[k] # Accounts!Idle /\ call[k].op = "reset" /\ call[k].at = "update"
          /\ call' = [call EXCEPT ![k].at = "deleteRecord"] /\ spent' = spent
          /\ uses' = uses \/ uses' = [uses EXCEPT ![call[k].token] = @ + 1]
      BY <1>9 DEF Accounts!UpdatePassword, Accounts!At, Accounts!Await
    <2>2. call[k] \in Accounts!Call /\ uses \in [1 .. MaxTokens -> Nat]
      BY <1>k, <2>1 DEF AccountsKept, Accounts!TypeOK
    <2>3. PICK c : c = [call[k] EXCEPT !.at = "deleteRecord"] OBVIOUS
    <2>4. /\ c.op = "reset" /\ c.at = "deleteRecord" /\ c.token = call[k].token
          /\ c # Accounts!Idle
      <3>1. c \in Accounts!Call BY <2>2, <2>3 DEF Accounts!Call
      <3> QED BY <2>1, <2>2, <2>3, <3>1, RequestsAreNotIdle DEF Accounts!Call
    <2>5. call' = [call EXCEPT ![k] = c] BY <2>1, <2>3
    <2> SUFFICES ASSUME NEW t \in 1 .. MaxTokens PROVE UsesCounted(t)' OBVIOUS
    <2>6. CASE t = call[k].token
      <3>1. Proved(call[k], t) /\ Changed(c, t) BY <2>1, <2>4, <2>6 DEF Proved, Changed
      <3>2. uses'[t] \in {uses[t], uses[t] + 1} BY <2>1, <2>2, <2>6
      <3> QED BY <2>1, <2>5, <3>1, <3>2, UseIsCounted
    <2>7. CASE t # call[k].token
      <3>1. uses'[t] = uses[t] BY <2>1, <2>2, <2>7
      <3>2. ~Proved(c, t) /\ ~Changed(call[k], t) BY <2>4, <2>7 DEF Proved, Changed
      <3>3. call'[k] = c /\ \A l \in Requests : l # k => call'[l] = call[l] BY <1>k, <2>5
      <3> QED BY <2>1, <3>1, <3>2, <3>3, UsesStay
    <2> QED BY <2>6, <2>7
  <1>10. ASSUME NEW k \in Requests, Accounts!DeleteRecord(k)
         PROVE  \A t \in 1 .. MaxTokens : UsesCounted(t)'
    <2>1. /\ call[k] # Accounts!Idle /\ call[k].at = "deleteRecord" /\ uses' = uses
          /\ call' = [call EXCEPT ![k] = Accounts!Idle]
          /\ spent' = spent \union ({call[k].token} \ {0})
      BY <1>10 DEF Accounts!DeleteRecord, Accounts!At, Accounts!Answer
    <2>2. call'[k] = Accounts!Idle /\ \A l \in Requests : l # k => call'[l] = call[l]
      BY <1>k, <2>1
    <2> SUFFICES ASSUME NEW t \in 1 .. MaxTokens PROVE UsesCounted(t)' OBVIOUS
    <2>3. t # 0 OBVIOUS
    <2>4. CASE Changed(call[k], t)
      <3>1. t \in spent' BY <2>1, <2>3, <2>4 DEF Changed
      <3> QED BY <2>1, <2>4, <3>1, TokenIsSpent
    <2>5. CASE ~Changed(call[k], t)
      <3>1. ~Proved(call'[k], t) BY <2>2 DEF Proved
      <3>2. t \in spent' <=> t \in spent
        <4>1. CASE call[k].op = "reset" BY <2>1, <2>5, <4>1 DEF Changed
        <4>2. CASE call[k].op # "reset"
          <5>1. call[k].op = "delete" BY <1>10, <4>2 DEF Accounts!DeleteRecord, Accounts!At
          <5>2. RequestOK(k) BY DEF AccountsKept
          <5> QED BY <2>1, <5>1, <5>2 DEF RequestOK
        <4> QED BY <4>1, <4>2
      <3> QED BY <2>1, <2>2, <2>5, <3>1, <3>2, UsesStay
    <2> QED BY <2>4, <2>5
  <1>11. ASSUME NEW op \in {"delete", "signup"}, Accounts!Request(op)
         PROVE  \A t \in 1 .. MaxTokens : UsesCounted(t)'
    <2>1. UNCHANGED <<uses, spent>> BY <1>11 DEF Accounts!Request, Accounts!history
    <2>2. Accounts!New(op, "findUser", 0, 0, {}).at = "findUser" BY DEF Accounts!New
    <2>3. PICK k \in Requests : /\ call[k] = Accounts!Idle
                                /\ \E c : call' = [call EXCEPT ![k] = c] /\ c.at = "findUser"
      BY <1>11, <2>2 DEF Accounts!Request
    <2> QED BY <1>1, <2>1, <2>3
  <1>12. ASSUME \/ \E p \in Pages : Accounts!Resend(p)
                \/ \E i \in Accounts!Ids : Accounts!Expire(i)
         PROVE  \A t \in 1 .. MaxTokens : UsesCounted(t)'
    BY <1>2, <1>12 DEF Accounts!Resend, Accounts!Expire, Accounts!history
  <1> QED BY <1>3, <1>4, <1>5, <1>6, <1>7, <1>8, <1>9, <1>10, <1>11, <1>12 DEF Accounts!Next

(* The invariant holds when nothing has been asked for.                      *)
LEMMA AccountsInit == Accounts!AccountsAssumption /\ Accounts!Init => AccountsInv
  <1> SUFFICES ASSUME Accounts!AccountsAssumption, Accounts!Init PROVE AccountsInv OBVIOUS
  <1>1. /\ 0 \in 0 .. MaxTokens /\ 0 \in 0 .. MaxCodes /\ 1 \in 1 .. MaxAccounts /\ 1 \in 0 .. 1
        /\ IsFiniteSet(Requests)
        /\ MaxAttempts \in Nat \ {0}
        /\ MaxCodes \in Nat
        /\ MaxTokens \in Nat
    BY SameLibrary DEF Accounts!AccountsAssumption
  <1>2. AccountsKept
    <2>1. account \in 0 .. accounts /\ accounts \in Accounts!Ids
      BY <1>1 DEF Accounts!Init, Accounts!Ids
    <2>2. record \in [Accounts!Ids -> Accounts!Record \union {Accounts!NoRecord}]
      BY DEF Accounts!Init
    <2>3. codes \in 0 .. MaxCodes /\ tokens \in 0 .. MaxTokens /\ mailed \subseteq 1 .. codes
          /\ spent \subseteq 1 .. MaxTokens /\ uses \in [1 .. MaxTokens -> Nat]
      BY <1>1 DEF Accounts!Init
    <2>4. call \in [Requests -> Accounts!Call \union {Accounts!Idle}] /\ \A k \in Requests :
          call[k] = Accounts!Idle
      BY DEF Accounts!Init
    <2>5. forgot \in [Pages -> PageStates] BY <1>1 DEF Accounts!Init, PageStates
    <2>6. misses \in [1 .. MaxCodes -> Nat] BY DEF Accounts!Init
    <2>7. RequestsWait BY <2>4, <2>5 DEF RequestsWait, RequestOK
    <2> QED BY <2>1, <2>2, <2>3, <2>6, <2>7, AccountsWhole
  <1>3. Guesses
    <2>1. Cardinality(Requests) \in Nat BY <1>1, FS_CardinalityType
    <2>2. \A c \in 1 .. MaxCodes : misses[c] = 0 BY DEF Accounts!Init
    <2>3. 0 <= MaxAttempts + Cardinality(Requests) - 1 BY <1>1, <2>1
    <2>4. \A i \in Accounts!Ids : record[i] = Accounts!NoRecord BY DEF Accounts!Init
    <2> QED BY <2>2, <2>3, <2>4 DEF Guesses
  <1>4. Tokens
    <2>1. (\A k \in Requests : call[k] = Accounts!Idle) /\
          (\A i \in Accounts!Ids : record[i] = Accounts!NoRecord) /\ spent = {}
      BY DEF Accounts!Init
    <2>2. \A k \in Requests, i \in Accounts!Ids, t \in 0 .. MaxTokens :
          ~Resetting(call[k], i, t)
      BY <2>1 DEF Resetting
    <2>3. \A k \in Requests, i \in Accounts!Ids : ~Resetting(call[k], i, 0) BY <1>1, <2>2
    <2>4. ASSUME NEW t \in 1 .. MaxTokens PROVE InOnePlace(t)
      <3>1. t \notin spent BY <2>1
      <3>2. /\ \A k \in Requests : ~Marking(call[k], t)
            /\ \A k \in Requests, i \in Accounts!Ids : ~Resetting(call[k], i, t)
            /\ \A i \in Accounts!Ids : ~HasToken(i, t)
        BY <2>1, <2>2 DEF Marking, Resetting, HasToken
      <3> QED BY <3>1, <3>2, Zenon DEF InOnePlace
    <2> QED BY <2>3, <2>4 DEF Tokens
  <1>5. ASSUME NEW t \in 1 .. MaxTokens PROVE UsesCounted(t)
    <2>1. uses[t] = 0 /\ t \notin spent /\ Changers(t) = {}
      BY DEF Accounts!Init, Changers, Changed
    <2>2. Cardinality(Changers(t)) = 0 BY <2>1, FS_EmptySet
    <2> QED BY <2>1, <2>2 DEF UsesCounted
  <1> QED BY <1>2, <1>3, <1>4, <1>5 DEF AccountsInv

(* Every step preserves the invariant.                                       *)
LEMMA AccountsStep == Accounts!AccountsAssumption /\ AccountsInv /\
      [Accounts!Next]_(Accounts!vars) => AccountsInv'
  <1> SUFFICES ASSUME Accounts!AccountsAssumption, AccountsInv, [Accounts!Next]_(Accounts!vars)
      PROVE AccountsInv' OBVIOUS
  <1>1. CASE Accounts!Next
    <2>1. AccountsKept' BY <1>1, AccountsKeptStep DEF AccountsInv
    <2>2. Guesses' BY <1>1, <2>1, GuessStep DEF AccountsInv
    <2>3. Tokens' BY <1>1, TokenStep DEF AccountsInv
    <2>4. \A t \in 1 .. MaxTokens : UsesCounted(t)' BY <1>1, UsesStep DEF AccountsInv
    <2> QED BY <2>1, <2>2, <2>3, <2>4 DEF AccountsInv
  <1>2. CASE UNCHANGED Accounts!vars
    <2>1. UNCHANGED <<account, accounts, record, codes, tokens, mailed, call, forgot, misses,
          spent, uses>>
      BY <1>2 DEF Accounts!vars, Accounts!server, Accounts!history
    <2>2. AccountsKept'
      BY <2>1 DEF AccountsInv, AccountsKept, Accounts!TypeOK, RequestOK, PageShows
    <2>3. Guesses'
      <3>1. \A i \in Accounts!Ids : Pend(i)' = Pend(i) BY <2>1 DEF Pend, Accounts!At
      <3> QED BY <2>1, <3>1 DEF AccountsInv, Guesses
    <2>4. Tokens' BY <2>1 DEF AccountsInv, Tokens, InOnePlace, HasToken
    <2>5. \A t \in 1 .. MaxTokens : UsesCounted(t)'
      BY <2>1 DEF AccountsInv, UsesCounted, Changers, Provers
    <2> QED BY <2>2, <2>3, <2>4, <2>5 DEF AccountsInv
  <1> QED BY <1>1, <1>2

(* The guesses at a code are bounded.                                        *)
LEMMA GuessesAreFew == AccountsInv => Accounts!GuessesAreBounded
  BY SameLibrary DEF AccountsInv, Guesses, Accounts!GuessesAreBounded

(* The uses of a token are bounded. *)
LEMMA TokensAreFew ==
    ASSUME Accounts!AccountsAssumption, AccountsInv
    PROVE  Accounts!TokensAreBounded
  <1> SUFFICES ASSUME NEW t \in 1 .. MaxTokens PROVE uses[t] <= Cardinality(Requests)
    BY SameLibrary DEF Accounts!TokensAreBounded
  <1>1. IsFiniteSet(Requests) /\ uses[t] \in Nat
    BY SameLibrary DEF Accounts!AccountsAssumption, AccountsInv, AccountsKept, Accounts!TypeOK
  <1>2. Changers(t) \subseteq Requests /\ Provers(t) \subseteq Requests BY DEF Changers, Provers
  <1>3. /\ Cardinality(Changers(t)) <= Cardinality(Requests)
        /\ Cardinality(Changers(t)) \in Nat /\ Cardinality(Provers(t)) \in Nat
        /\ Cardinality(Requests) \in Nat
    BY <1>1, <1>2, FS_Subset, FS_CardinalityType
  <1>4. UsesCounted(t) BY DEF AccountsInv
  <1> QED BY <1>1, <1>3, <1>4 DEF UsesCounted

(* A token that reset a password is in no record, so it is refused.          *)
LEMMA SpentTokenIsRefused == AccountsInv => Accounts!SpentIsRefused
  <1> SUFFICES ASSUME AccountsInv, NEW k \in Requests, Accounts!CheckToken(k),
      call[k].token \in spent
      PROVE call'[k] = Accounts!Idle
    BY DEF Accounts!SpentIsRefused
  <1>1. call[k] # Accounts!Idle /\ call[k].op = "reset" /\ call[k].at = "findRecord"
    BY DEF Accounts!CheckToken, Accounts!At
  <1>2. RequestOK(k) /\ spent \subseteq 1 .. MaxTokens /\
        call \in [Requests -> Accounts!Call \union {Accounts!Idle}]
    BY DEF AccountsInv, AccountsKept, Accounts!TypeOK
  <1>3. call[k].id \in Accounts!Ids /\ call[k].token \in 1 .. MaxTokens
    BY <1>1, <1>2 DEF RequestOK
  <1>4. ~HasToken(call[k].id, call[k].token) BY <1>3 DEF AccountsInv, Tokens, InOnePlace
  <1>5. ~Accounts!Proven(k) BY <1>4 DEF Accounts!Proven, HasToken
  <1> QED BY <1>2, <1>5 DEF Accounts!CheckToken, Accounts!Refuse

(* The invariant holds, for any requests, pages and numbers of attempts.     *)
LEMMA AccountsInvariance ==
    ASSUME Accounts!AccountsAssumption
    PROVE  Accounts!Spec => []AccountsInv
  <1>1. Accounts!Init => AccountsInv BY AccountsInit
  <1>2. AccountsInv /\ [Accounts!Next]_(Accounts!vars) => AccountsInv' BY AccountsStep
  <1> QED BY <1>1, <1>2, PTL DEF Accounts!Spec

(* However requests for codes, guesses, resets, removals and signups overlap,  *)
(* a code is compared with a bounded number of guesses, a token changes the   *)
(* password at most as often as requests overlap, and a token whose record    *)
(* was removed after its use is refused (passwordResetService.js).            *)
THEOREM OnceForACode == Accounts!Spec => CodesAreSpent
  <1>1. Accounts!AccountsAssumption BY ServerAssumption
  <1>2. Accounts!Spec => []AccountsInv BY <1>1, AccountsInvariance
  <1>3. AccountsInv => /\ Accounts!GuessesAreBounded
                       /\ Accounts!TokensAreBounded
                       /\ Accounts!SpentIsRefused
    BY <1>1, GuessesAreFew, TokensAreFew, SpentTokenIsRefused
  <1>4. AccountsInv /\ (Accounts!GuessesAreBounded)' /\ (Accounts!TokensAreBounded)' =>
           [part = "accounts" => /\ (Accounts!GuessesAreBounded)'
                                 /\ (Accounts!TokensAreBounded)'
                                 /\ Accounts!SpentIsRefused]_all
    BY <1>3
  <1> QED BY <1>2, <1>3, <1>4, PTL DEF CodesAreSpent

-----------------------------------------------------------------------------
(* Plugins: loads and unloads overlap, and each reads which instance is      *)
(* active before it awaits.                                                  *)

(* The load l has made an instance.                                          *)
LoadHasBegun(l) == task[l] \in {"loading", "enabling", "done"}

(* The load k is taking down the instance it found active.                   *)
UnloadRuns(k) == task[k] \in {"disabling", "unloading"}

(* The active instance has been told what its load has come to, unless an unload of it is
   under way; once its load is over it is watched. *)
ActiveIsAhead(l) ==
    /\ LoadHasBegun(l)
    /\ \/ \E k \in Plugins!Loads : UnloadRuns(k) /\ old[k] = l
       \/ task[l] = "loading" /\ instance[l] = "made"
       \/ task[l] = "enabling" /\ instance[l] = "loaded"
       \/ task[l] = "done" /\ instance[l] \in {"enabled", "broken"}
    /\ task[l] = "done" /\ instance[l] = "enabled" => watcher # Plugins!None \/ down

(* What is unloaded has been begun; once it is forgotten it is not active again. *)
UnloadsTheOld(k) ==
    /\ UnloadRuns(k) => old[k] # Plugins!None
    /\ old[k] # Plugins!None => LoadHasBegun(old[k])
    /\ old[k] # Plugins!None /\ task[k] \in {"load", "loading", "enabling", "done"} =>
          active # old[k]

PluginsInv ==
    /\ Plugins!TypeOK
    /\ \A k \in Plugins!Loads : UnloadsTheOld(k)
    /\ active # Plugins!None => ActiveIsAhead(active)

(* Every variable keeps its type.                                            *)
LEMMA PluginsTypes ==
    ASSUME Plugins!PluginsAssumption, Plugins!TypeOK, Plugins!Next,
           \A k \in Plugins!Loads : UnloadsTheOld(k)
    PROVE  Plugins!TypeOK'
  <1> USE
      DEF Plugins!TypeOK, Plugins!Loads, Plugins!None, Plugins!PluginsAssumption, Plugins!Goes,
          Plugins!Becomes, UnloadsTheOld, UnloadRuns
  <1>1. CASE Plugins!Edit BY <1>1 DEF Plugins!Edit
  <1>2. CASE Plugins!Shutdown BY <1>2 DEF Plugins!Shutdown
  <1>3. ASSUME NEW l \in Plugins!Loads, Plugins!Evaluate(l)
      PROVE Plugins!TypeOK'
        BY <1>3 DEF Plugins!Evaluate
  <1>4. ASSUME NEW l \in Plugins!Loads, Plugins!Loaded(l)
      PROVE Plugins!TypeOK'
        BY <1>4 DEF Plugins!Loaded
  <1>5. ASSUME NEW l \in Plugins!Loads, Plugins!Enabled(l)
      PROVE Plugins!TypeOK'
        BY <1>5 DEF Plugins!Enabled
  <1>6. ASSUME NEW l \in Plugins!Loads, Plugins!LoadFails(l)
      PROVE Plugins!TypeOK'
        BY <1>6 DEF Plugins!LoadFails
  <1>7. ASSUME NEW l \in Plugins!Loads, Plugins!Disabled(l)
      PROVE Plugins!TypeOK'
        BY <1>7 DEF Plugins!Disabled
  <1>8. ASSUME NEW l \in Plugins!Loads, Plugins!Unloaded(l)
      PROVE Plugins!TypeOK'
        BY <1>8 DEF Plugins!Unloaded, Plugins!Forget
  <1>9. ASSUME NEW l \in Plugins!Loads, Plugins!UnloadFails(l)
      PROVE Plugins!TypeOK'
        BY <1>9 DEF Plugins!UnloadFails, Plugins!Forget
  <1>10. ASSUME NEW l \in Plugins!Loads, NEW w \in Plugins!Loads, Plugins!TimerFires(w, l)
      PROVE Plugins!TypeOK'
        BY <1>10 DEF Plugins!TimerFires
  <1> QED BY <1>1, <1>2, <1>3, <1>4, <1>5, <1>6, <1>7, <1>8, <1>9, <1>10 DEF Plugins!Next

(* No step makes an instance active that a load has not told to run.         *)
LEMMA PluginsStep ==
    ASSUME Plugins!PluginsAssumption, PluginsInv, Plugins!Next, Plugins!TypeOK'
    PROVE  PluginsInv'
  <1> USE
      DEF PluginsInv, Plugins!TypeOK, Plugins!Loads, Plugins!None, Plugins!PluginsAssumption,
          Plugins!Goes, Plugins!Becomes, UnloadsTheOld, UnloadRuns, LoadHasBegun, ActiveIsAhead
  <1>1. CASE Plugins!Edit BY <1>1 DEF Plugins!Edit
  <1>2. CASE Plugins!Shutdown BY <1>2 DEF Plugins!Shutdown
  <1>3. ASSUME NEW l \in Plugins!Loads, Plugins!Evaluate(l)
      PROVE PluginsInv'
        BY <1>3 DEF Plugins!Evaluate
  <1>4. ASSUME NEW l \in Plugins!Loads, Plugins!Loaded(l)
      PROVE PluginsInv'
        BY <1>4 DEF Plugins!Loaded
  <1>5. ASSUME NEW l \in Plugins!Loads, Plugins!Enabled(l)
      PROVE PluginsInv'
        BY <1>5 DEF Plugins!Enabled
  <1>6. ASSUME NEW l \in Plugins!Loads, Plugins!LoadFails(l)
      PROVE PluginsInv'
        BY <1>6 DEF Plugins!LoadFails
  <1>7. ASSUME NEW l \in Plugins!Loads, Plugins!Disabled(l)
      PROVE PluginsInv'
        BY <1>7 DEF Plugins!Disabled
  <1>8. ASSUME NEW l \in Plugins!Loads, Plugins!Unloaded(l)
      PROVE PluginsInv'
        BY <1>8 DEF Plugins!Unloaded, Plugins!Forget
  <1>9. ASSUME NEW l \in Plugins!Loads, Plugins!UnloadFails(l)
      PROVE PluginsInv'
        BY <1>9 DEF Plugins!UnloadFails, Plugins!Forget
  <1>10. ASSUME NEW l \in Plugins!Loads, NEW w \in Plugins!Loads, Plugins!TimerFires(w, l)
      PROVE PluginsInv'
        BY <1>10 DEF Plugins!TimerFires
  <1> QED BY <1>1, <1>2, <1>3, <1>4, <1>5, <1>6, <1>7, <1>8, <1>9, <1>10 DEF Plugins!Next

(* The invariant holds, for every number of edits of the plugin's files.      *)
LEMMA PluginsInvariance == ASSUME Plugins!PluginsAssumption PROVE Plugins!Spec => []PluginsInv
  <1>1. Plugins!Init => PluginsInv
    <2> SUFFICES ASSUME Plugins!Init PROVE PluginsInv OBVIOUS
    <2> USE DEF Plugins!Init, Plugins!Loads, Plugins!None, Plugins!PluginsAssumption
    <2>1. 1 \in Plugins!Loads OBVIOUS
    <2>3. task \in [Plugins!Loads -> {"none", "disabling", "unloading", "load", "loading",
          "enabling", "done"}]
          /\ old \in [Plugins!Loads -> Plugins!Loads \union {Plugins!None}]
      OBVIOUS
    <2>4. instance \in [Plugins!Loads -> {"none", "made", "loaded", "enabled", "disabled",
          "unloaded", "broken"}]
      OBVIOUS
    <2>5. edits \in 0..MaxEdits OBVIOUS
    <2>6. /\ active \in Plugins!Loads \union {Plugins!None}
          /\ watcher \in Plugins!Loads \union {Plugins!None}
          /\ timers \subseteq Plugins!Loads
      OBVIOUS
    <2>7. good \in BOOLEAN /\ down \in BOOLEAN OBVIOUS
    <2>2. Plugins!TypeOK
      <3> HIDE DEF Plugins!Init, Plugins!Loads, Plugins!None, Plugins!PluginsAssumption
      <3> QED BY <2>1, <2>3, <2>4, <2>5, <2>6, <2>7 DEF Plugins!TypeOK
    <2> QED BY <2>1, <2>2 DEF PluginsInv, UnloadsTheOld, UnloadRuns
  <1>2. PluginsInv /\ [Plugins!Next]_(Plugins!vars) => PluginsInv'
    <2>1. CASE UNCHANGED Plugins!vars
      BY <2>1
         DEF Plugins!vars, PluginsInv, Plugins!TypeOK, Plugins!Loads, Plugins!None,
             Plugins!PluginsAssumption, UnloadsTheOld, UnloadRuns, LoadHasBegun, ActiveIsAhead
    <2> QED BY <2>1, PluginsTypes, PluginsStep DEF PluginsInv
  <1> QED BY <1>1, <1>2, PTL DEF Plugins!Spec

(* An instance that no unload and no load is at work on was told to run.     *)
LEMMA ActiveIsTold == PluginsInv => Plugins!ActiveRuns
  BY
     DEF Plugins!ActiveRuns, PluginsInv, ActiveIsAhead, Plugins!Idle, UnloadRuns,
         Plugins!TypeOK, Plugins!None

(* The plugin that is active is one that runs, whatever edits of its files,   *)
(* timers of the watcher and a shutdown come in between (loadPlugin,         *)
(* unloadPlugin and the watcher of PluginManager.js).                        *)
THEOREM ActivePluginRuns == Plugins!Spec => []ActiveRuns
  <1>1. Plugins!PluginsAssumption BY ServerAssumption
  <1>2. Plugins!Spec => []PluginsInv BY <1>1, PluginsInvariance
  <1>3. PluginsInv => ActiveRuns BY ActiveIsTold DEF ActiveRuns
  <1> QED BY <1>2, <1>3, PTL

-----------------------------------------------------------------------------
(* Sessions: what each window shows and the one chat store of the main        *)
(* window, while sign-ins, logouts and reloads await the server.             *)

UserIds == Sessions!Ids \cup {Sessions!NoId}
WindowState == [open : BOOLEAN, ready : BOOLEAN, token : UserIds, user : UserIds, socket :
      UserIds]
(* The page still waits for the answer of the sign-in k.                     *)
IsAwaited(k) == try[k] # Sessions!Unused /\ try[k].awaited

(* At most one sign-in is awaited, and then nobody is shown and there is no   *)
(* message; an id is given once.                                             *)
SessionsInv ==
    /\ Sessions!TypeOK
    /\ leaving <= leaves
    /\ Sessions!Loading => win["main"].user = Sessions!NoId
    /\ "main" \in restoring => \A k \in Tries : ~IsAwaited(k)
    /\ \A k, l \in Tries : IsAwaited(k) /\ IsAwaited(l) => k = l
    /\ Sessions!ChatIsOfItsUser
    /\ Sessions!SocketIsOfItsUser
    /\ \A i \in Sessions!Ids : Sessions!Exists(i) => i <= made
    /\ Sessions!OneAccountPerEmail

(* A page that is gone waits for no answer.                                  *)
LEMMA NobodyWaits ==
    ASSUME Sessions!TypeOK,
           try' = [k \in Tries |-> IF try[k] = Sessions!Unused THEN Sessions!Unused
                                       ELSE [try[k] EXCEPT !.awaited = FALSE]]
    PROVE  /\ try' \in [Tries -> Sessions!Try \cup {Sessions!Unused}]
           /\ \A k \in Tries : ~IsAwaited(k)'
  <1> SUFFICES ASSUME NEW k \in Tries
               PROVE  /\ try'[k] \in Sessions!Try \cup {Sessions!Unused}
                      /\ ~(try'[k] # Sessions!Unused /\ try'[k].awaited)
    BY DEF IsAwaited
  <1>1. CASE try[k] = Sessions!Unused BY <1>1
  <1>2. CASE try[k] # Sessions!Unused
    <2>1. try[k] \in Sessions!Try BY <1>2 DEF Sessions!TypeOK
    <2> QED BY <1>2, <2>1 DEF Sessions!Try
  <1> QED BY <1>1, <1>2

(* Every variable keeps its type.                                            *)
LEMMA SessionsTypes ==
    ASSUME Sessions!SessionsAssumption, Sessions!TypeOK, leaving <= leaves, Sessions!Next
    PROVE  Sessions!TypeOK'
  <1> USE DEF Sessions!SessionsAssumption
  <1>w. win \in [Sessions!Windows -> WindowState] /\ \A w \in Sessions!Windows :
        win[w] \in WindowState
    BY DEF Sessions!TypeOK, WindowState, UserIds
  <1>f. Sessions!Closed \in WindowState /\ Sessions!Fresh \in WindowState
    BY DEF Sessions!Closed, Sessions!Fresh, WindowState, UserIds
  <1>s. \A w \in Sessions!Windows : Sessions!Stored(w) \in UserIds
    BY DEF Sessions!TypeOK, Sessions!Stored, UserIds
  <1>1. ASSUME NEW w \in Sessions!Windows, Sessions!Load(w) PROVE Sessions!TypeOK'
    <2>1. win' \in [Sessions!Windows -> WindowState]
      BY <1>1, <1>w, <1>f, <1>s DEF Sessions!Load, WindowState
    <2>2. restoring' \subseteq Sessions!Windows BY <1>1 DEF Sessions!Load, Sessions!TypeOK
    <2>3. try' \in [Tries -> Sessions!Try \cup {Sessions!Unused}] /\
          chat' \subseteq Sessions!Ids
      BY <1>1, NobodyWaits DEF Sessions!Load, Sessions!TypeOK
    <2>4. leaving' \in 0..MaxLeaves /\ leaves' \in 0..MaxLeaves
      BY <1>1 DEF Sessions!Load, Sessions!TypeOK
    <2> QED BY <1>1, <2>1, <2>2, <2>3, <2>4
        DEF Sessions!Load, Sessions!TypeOK, WindowState, UserIds
  <1>2. ASSUME NEW w \in Sessions!Windows, Sessions!Restored(w) PROVE Sessions!TypeOK'
    <2>1. PICK t \in UserIds : t = win[w].token BY <1>2, <1>w DEF WindowState
    <2>2. PICK q : q = [win[w] EXCEPT !.ready = TRUE, !.user = t, !.socket = t] OBVIOUS
    <2>3. q \in WindowState BY <1>w, <2>1, <2>2 DEF WindowState
    <2>4. win' = [win EXCEPT ![w] = q] BY <1>2, <1>w, <2>1, <2>2 DEF Sessions!Restored
    <2>5. win' \in [Sessions!Windows -> WindowState] BY <1>w, <2>3, <2>4
    <2> QED BY <1>2, <2>5 DEF Sessions!Restored, Sessions!TypeOK, WindowState, UserIds
  <1>3. ASSUME NEW w \in Sessions!Windows, Sessions!RestoreFails(w) PROVE Sessions!TypeOK'
    <2>1. win' \in [Sessions!Windows -> WindowState]
      BY <1>3, <1>w DEF Sessions!RestoreFails, WindowState, UserIds
    <2> QED BY <1>3, <2>1 DEF Sessions!RestoreFails, Sessions!TypeOK, WindowState, UserIds
  <1>4. CASE Sessions!Quit
    <2>1. win' \in [Sessions!Windows -> WindowState] BY <1>4, <1>f DEF Sessions!Quit
    <2>2. leaving' \in 0..MaxLeaves BY <1>4 DEF Sessions!Quit
    <2> QED BY <1>4, <2>1, <2>2, NobodyWaits
        DEF Sessions!Quit, Sessions!TypeOK, WindowState, UserIds
  <1>5. CASE Sessions!Talk
    BY <1>5, <1>w DEF Sessions!Talk, Sessions!TypeOK, WindowState, UserIds, Sessions!Windows
  <1>6. CASE Sessions!Logout
    <2>1. win' \in [Sessions!Windows -> WindowState]
      BY <1>6, <1>w DEF Sessions!Logout, WindowState, UserIds
    <2>2. leaving' \in 0..MaxLeaves /\ leaves' \in 0..MaxLeaves
      BY <1>6 DEF Sessions!Logout, Sessions!TypeOK
    <2> QED BY <1>6, <2>1, <2>2 DEF Sessions!Logout, Sessions!TypeOK, WindowState, UserIds
  <1>7. CASE Sessions!LoggedOut
    <2>1. Sessions!NoId \in UserIds BY DEF UserIds
    <2>2. win' \in [Sessions!Windows -> WindowState]
      BY <1>7, <1>w, <2>1 DEF Sessions!LoggedOut, WindowState
    <2> QED BY <1>7, <2>2 DEF Sessions!LoggedOut, Sessions!TypeOK, WindowState, UserIds
  <1>8. ASSUME NEW k \in Tries, NEW op \in {"signup", "login"}, NEW email \in Emails,
        NEW remember \in BOOLEAN, 
          Sessions!Submit(k, op, email, remember) PROVE Sessions!TypeOK'
    <2>1. try' \in [Tries -> Sessions!Try \cup {Sessions!Unused}]
      BY <1>8 DEF Sessions!Submit, Sessions!TypeOK, Sessions!Try
    <2> QED BY <1>8, <2>1 DEF Sessions!Submit, Sessions!TypeOK
  <1>9. ASSUME NEW k \in Tries, Sessions!Fails(k) PROVE Sessions!TypeOK'
    <2>1. try[k] \in Sessions!Try BY <1>9 DEF Sessions!Fails, Sessions!TypeOK
    <2>2. try' \in [Tries -> Sessions!Try \cup {Sessions!Unused}]
      BY <1>9, <2>1 DEF Sessions!Fails, Sessions!TypeOK, Sessions!Try
    <2> QED BY <1>9, <2>2 DEF Sessions!Fails, Sessions!TypeOK
  <1>10. ASSUME NEW k \in Tries, Sessions!Enters(k) PROVE Sessions!TypeOK'
    <2>1. try[k] \in Sessions!Try BY <1>10 DEF Sessions!Enters, Sessions!TypeOK
    <2>2. try' \in [Tries -> Sessions!Try \cup {Sessions!Unused}]
      BY <1>10, <2>1 DEF Sessions!Enters, Sessions!TypeOK, Sessions!Try
    <2>3. try[k].id \in UserIds BY <2>1 DEF Sessions!Try, UserIds
    <2>4. win' \in [Sessions!Windows -> WindowState]
      <3>1. PICK i \in UserIds : i = try[k].id BY <2>3
      <3>2. PICK s : s = [win["main"] EXCEPT !.token = i, !.user = i, !.socket = i] OBVIOUS
      <3>3. win["main"] \in WindowState BY <1>w DEF Sessions!Windows
      <3>4. s \in WindowState BY <3>1, <3>2, <3>3 DEF WindowState
      <3>5. win' = [win EXCEPT !["main"] = s] BY <1>10, <3>1, <3>2 DEF Sessions!Enters
      <3> QED BY <1>w, <3>4, <3>5
    <2>5. local' \in UserIds /\ ofWindow' \in UserIds
      BY <1>10, <2>3 DEF Sessions!Enters, UserIds
    <2> QED BY <1>10, <2>2, <2>4, <2>5
        DEF Sessions!Enters, Sessions!TypeOK, WindowState, UserIds
  <1>11. ASSUME NEW k \in Tries, Sessions!Find(k) PROVE Sessions!TypeOK'
    <2>1. try[k] \in Sessions!Try BY <1>11 DEF Sessions!Find, Sessions!TypeOK
    <2>2. PICK refused \in BOOLEAN :
          refused = (Sessions!HasAccount(try[k].email) <=> try[k].op = "signup")
      OBVIOUS
    <2>3. PICK found : found = IF try[k].op = "login" /\
          ~refused THEN Sessions!IdOf(try[k].email) ELSE Sessions!NoId
      OBVIOUS
    <2>4. try' = [try EXCEPT ![k].at = IF refused THEN "done" ELSE "hash", ![k].id = found]
      BY <1>11, <2>2, <2>3, Zenon DEF Sessions!Find
    <2>5. found \in UserIds
      <3>1. CASE found = Sessions!NoId BY <3>1 DEF UserIds
      <3>2. CASE found # Sessions!NoId
        <4>1. Sessions!HasAccount(try[k].email) /\ found = Sessions!IdOf(try[k].email)
          BY <2>1, <2>2, <2>3, <3>2 DEF Sessions!Try
        <4> QED BY <4>1 DEF Sessions!HasAccount, Sessions!IdOf, UserIds
      <3> QED BY <3>1, <3>2
    <2>6. try' \in [Tries -> Sessions!Try \cup {Sessions!Unused}]
      BY <2>1, <2>4, <2>5 DEF Sessions!TypeOK, Sessions!Try, UserIds
    <2> QED BY <1>11, <2>6 DEF Sessions!Find, Sessions!TypeOK
  <1>12. ASSUME NEW k \in Tries, Sessions!Create(k) PROVE Sessions!TypeOK'
    <2>1. try[k] \in Sessions!Try BY <1>12 DEF Sessions!Create, Sessions!TypeOK
    <2>2. made + 1 \in Sessions!Ids BY <1>12 DEF Sessions!Create, Sessions!TypeOK, Sessions!Ids
    <2>3. try' \in [Tries -> Sessions!Try \cup {Sessions!Unused}]
      BY <1>12, <2>1, <2>2 DEF Sessions!Create, Sessions!TypeOK, Sessions!Try
    <2>4. try[k].email \in Emails BY <2>1 DEF Sessions!Try
    <2>5. owner' \in [Sessions!Ids -> Emails \cup {Sessions!Nobody}]
      BY <1>12, <2>2, <2>4 DEF Sessions!Create, Sessions!TypeOK
    <2>6. made' \in 0..MaxIds BY <1>12 DEF Sessions!Create, Sessions!TypeOK
    <2> QED BY <1>12, <2>3, <2>5, <2>6 DEF Sessions!Create, Sessions!TypeOK
  <1>13. ASSUME NEW k \in Tries, Sessions!Compare(k) PROVE Sessions!TypeOK'
    <2>1. try[k] \in Sessions!Try BY <1>13 DEF Sessions!Compare, Sessions!TypeOK
    <2>2. PICK id \in {try[k].id, Sessions!NoId} :
          try' = [try EXCEPT ![k].at = "done", ![k].id = id]
      BY <1>13 DEF Sessions!Compare
    <2>3. id \in UserIds BY <2>1 DEF Sessions!Try, UserIds
    <2>4. try' \in [Tries -> Sessions!Try \cup {Sessions!Unused}]
      BY <2>1, <2>2, <2>3 DEF Sessions!TypeOK, Sessions!Try, UserIds
    <2> QED BY <1>13, <2>4 DEF Sessions!Compare, Sessions!TypeOK
  <1>14. ASSUME NEW i \in Sessions!Ids, Sessions!Delete(i) PROVE Sessions!TypeOK'
    BY <1>14 DEF Sessions!Delete, Sessions!TypeOK
  <1> QED BY <1>1, <1>2, <1>3, <1>4, <1>5, <1>6, <1>7, <1>8, <1>9, <1>10, <1>11, <1>12, <1>13,
      <1>14
      DEF Sessions!Next

(* Whom a step leaves alone: what the calls wait for, the accounts, the page. *)
LEMMA AwaitedStays ==
    ASSUME Sessions!TypeOK, NEW k \in Tries, try[k] \in Sessions!Try, NEW a, NEW i,
           try' = [try EXCEPT ![k].at = a, ![k].id = i] \/ try' = [try EXCEPT ![k].at = a]
    PROVE  \A l \in Tries : IsAwaited(l)' <=> IsAwaited(l)
  <1> SUFFICES ASSUME NEW l \in Tries
               PROVE  (try'[l] # Sessions!Unused /\ try'[l].awaited) <=>
                     (try[l] # Sessions!Unused /\ try[l].awaited)
    BY DEF IsAwaited
  <1>u. \A t \in Sessions!Try : t # Sessions!Unused
    <2> TAKE t \in Sessions!Try
    <2>1. /\ DOMAIN t = {"op", "email", "remember", "at", "id", "awaited"}
          /\ DOMAIN Sessions!Unused = {"op"}
      BY DEF Sessions!Try, Sessions!Unused
    <2>2. "at" \in DOMAIN t /\ "at" \notin DOMAIN Sessions!Unused BY <2>1
    <2> QED BY <2>2
  <1>1. CASE l # k BY <1>1 DEF Sessions!TypeOK
  <1>2. CASE l = k
    <2>1. try'[k].awaited = try[k].awaited BY DEF Sessions!TypeOK, Sessions!Try
    <2>2. try'[k] # Sessions!Unused
      <3>1. DOMAIN try'[k] = DOMAIN try[k] BY DEF Sessions!TypeOK, Sessions!Try
      <3>2. "at" \in DOMAIN try[k] /\ "at" \notin DOMAIN Sessions!Unused
        BY DEF Sessions!Try, Sessions!Unused
      <3> QED BY <3>1, <3>2
    <2> QED BY <1>2, <1>u, <2>1, <2>2
  <1> QED BY <1>1, <1>2

(* Every step of the windows and of the server preserves the invariant.      *)
LEMMA SessionsStep ==
    ASSUME Sessions!SessionsAssumption, SessionsInv, Sessions!Next
    PROVE  SessionsInv'
  <1>t. Sessions!TypeOK /\ Sessions!TypeOK' BY SessionsTypes DEF SessionsInv
  <1>w. \A w \in Sessions!Windows : win[w] \in WindowState
    BY <1>t DEF Sessions!TypeOK, WindowState, UserIds
  <1>m. "main" \in Sessions!Windows BY DEF Sessions!Windows
  <1> USE <1>t, <1>w, <1>m
      DEF SessionsInv, Sessions!Loading, Sessions!ChatIsOfItsUser, Sessions!SocketIsOfItsUser
  <1>1. ASSUME NEW w \in Sessions!Windows, Sessions!Load(w) PROVE SessionsInv'
    <2>1. made' = made /\ owner' = owner BY <1>1 DEF Sessions!Load
    <2>2. leaving' <= leaves' BY <1>1 DEF Sessions!Load, Sessions!TypeOK
    <2>3. win'[w].user = Sessions!NoId /\ \A v \in Sessions!Windows : v # w => win'[v] = win[v]
      BY <1>1 DEF Sessions!Load, Sessions!TypeOK, Sessions!Fresh, Sessions!Closed
    <2>4. CASE w = "main"
      <3>1. chat' = {} /\ \A k \in Tries : ~IsAwaited(k)'
        BY <1>1, <2>4, NobodyWaits DEF Sessions!Load
      <3> QED BY <2>1, <2>2, <2>3, <2>4, <3>1
          DEF Sessions!Exists, Sessions!OneAccountPerEmail, IsAwaited
    <2>5. CASE w # "main"
      <3>1. UNCHANGED <<try, leaving, chat>> BY <1>1, <2>5 DEF Sessions!Load
      <3>2. "main" \in restoring' <=> "main" \in restoring BY <1>1, <2>5 DEF Sessions!Load
      <3> QED BY <2>1, <2>2, <2>3, <2>5, <3>1, <3>2
          DEF Sessions!Exists, Sessions!OneAccountPerEmail, IsAwaited
    <2> QED BY <2>4, <2>5
  <1>2. ASSUME NEW w \in Sessions!Windows, Sessions!Restored(w) PROVE SessionsInv'
    <2>1. UNCHANGED <<owner, made, try, leaving, chat, leaves>> BY <1>2 DEF Sessions!Restored
    <2>2. /\ win'[w].user = win[w].token
          /\ win'[w].socket = win[w].token
          /\ \A v \in Sessions!Windows : v # w => win'[v] = win[v]
      BY <1>2 DEF Sessions!Restored, Sessions!TypeOK
    <2>3. restoring' = restoring \ {w} /\ w \in restoring BY <1>2 DEF Sessions!Restored
    <2>4. w = "main" => chat = {} BY <2>3 DEF Sessions!TypeOK, Sessions!Ids, Sessions!NoId
    <2> QED BY <2>1, <2>2, <2>3, <2>4
        DEF Sessions!Exists, Sessions!OneAccountPerEmail, IsAwaited
  <1>3. ASSUME NEW w \in Sessions!Windows, Sessions!RestoreFails(w) PROVE SessionsInv'
    <2>1. UNCHANGED <<owner, made, try, leaving, chat, leaves>>
      BY <1>3 DEF Sessions!RestoreFails
    <2>2. \A v \in Sessions!Windows :
          win'[v].user = win[v].user /\ win'[v].socket = win[v].socket
      BY <1>3 DEF Sessions!RestoreFails, Sessions!TypeOK, WindowState
    <2>3. restoring' \subseteq restoring BY <1>3 DEF Sessions!RestoreFails
    <2> QED BY <2>1, <2>2, <2>3 DEF Sessions!Exists, Sessions!OneAccountPerEmail, IsAwaited
  <1>4. CASE Sessions!Quit
    <2>1. UNCHANGED <<owner, made>> /\ leaving' <= leaves'
      BY <1>4 DEF Sessions!Quit, Sessions!TypeOK
    <2>2. chat' = {} /\ restoring' = {} /\ \A k \in Tries : ~IsAwaited(k)'
      BY <1>4, NobodyWaits DEF Sessions!Quit
    <2>3. \A w \in Sessions!Windows : win'[w].user = Sessions!NoId
      BY <1>4 DEF Sessions!Quit, Sessions!Closed
    <2> QED BY <2>1, <2>2, <2>3 DEF Sessions!Exists, Sessions!OneAccountPerEmail, IsAwaited
  <1>5. CASE Sessions!Talk
    <2>1. UNCHANGED <<owner, made, try, local, ofWindow, win, restoring, leaving, leaves>>
      BY <1>5 DEF Sessions!Talk
    <2>2. chat' \subseteq {win["main"].user} BY <1>5 DEF Sessions!Talk
    <2> QED BY <2>1, <2>2 DEF Sessions!Exists, Sessions!OneAccountPerEmail, IsAwaited
  <1>6. CASE Sessions!Logout
    <2>1. /\ UNCHANGED <<owner, made, try, local, ofWindow, restoring, chat>>
          /\ leaving' <= leaves'
      BY <1>6 DEF Sessions!Logout, Sessions!TypeOK
    <2>2. \A v \in Sessions!Windows :
          win'[v].user = win[v].user /\ win'[v].socket \in {win[v].socket, Sessions!NoId}
      BY <1>6 DEF Sessions!Logout, Sessions!TypeOK, WindowState
    <2> QED BY <2>1, <2>2 DEF Sessions!Exists, Sessions!OneAccountPerEmail, IsAwaited
  <1>7. CASE Sessions!LoggedOut
    <2>1. UNCHANGED <<owner, made, try, restoring>> /\ leaving' <= leaves' /\ chat' = {}
      BY <1>7 DEF Sessions!LoggedOut, Sessions!TypeOK
    <2>2. /\ win'["main"].user = Sessions!NoId
          /\ \A v \in Sessions!Windows : v # "main" => win'[v] = win[v]
      BY <1>7 DEF Sessions!LoggedOut, Sessions!TypeOK, WindowState
    <2> QED BY <2>1, <2>2 DEF Sessions!Exists, Sessions!OneAccountPerEmail, IsAwaited
  <1>8. ASSUME NEW k \in Tries, NEW op \in {"signup", "login"}, NEW email \in Emails,
  NEW remember \in BOOLEAN,
          Sessions!Submit(k, op, email, remember) PROVE SessionsInv'
    <2>1. UNCHANGED <<owner, made, local, ofWindow, win, restoring, leaving, chat, leaves>>
      BY <1>8 DEF Sessions!Submit
    <2>2. \A l \in Tries :
          ~IsAwaited(l) /\ win["main"].user = Sessions!NoId /\ "main" \notin restoring
      BY <1>8 DEF Sessions!Submit, IsAwaited
    <2>3. \A l \in Tries : l # k => try'[l] = try[l]
      BY <1>8 DEF Sessions!Submit, Sessions!TypeOK
    <2> QED BY <2>1, <2>2, <2>3 DEF Sessions!Exists, Sessions!OneAccountPerEmail, IsAwaited
  <1>9. ASSUME NEW k \in Tries, Sessions!Fails(k) PROVE SessionsInv'
    <2>1. UNCHANGED <<owner, made, local, ofWindow, win, restoring, leaving, chat, leaves>>
      BY <1>9 DEF Sessions!Fails
    <2>3. \A l \in Tries : l # k => try'[l] = try[l] BY <1>9 DEF Sessions!Fails, Sessions!TypeOK
    <2>4. try[k] \in Sessions!Try /\ ~try'[k].awaited
      BY <1>9 DEF Sessions!Fails, Sessions!TypeOK, Sessions!Try
    <2> QED BY <2>1, <2>3, <2>4 DEF Sessions!Exists, Sessions!OneAccountPerEmail, IsAwaited
  <1>10. ASSUME NEW k \in Tries, Sessions!Enters(k) PROVE SessionsInv'
    <2>1. UNCHANGED <<owner, made, restoring, leaving, chat, leaves>>
      BY <1>10 DEF Sessions!Enters
    <2>2. IsAwaited(k) BY <1>10 DEF Sessions!Enters, IsAwaited
    <2>3. \A l \in Tries : l # k => try'[l] = try[l]
      BY <1>10 DEF Sessions!Enters, Sessions!TypeOK
    <2>4. try[k] \in Sessions!Try /\ ~try'[k].awaited
      BY <1>10 DEF Sessions!Enters, Sessions!TypeOK, Sessions!Try
    <2>5. /\ win'["main"].user = try[k].id
          /\ win'["main"].socket = try[k].id
          /\ \A v \in Sessions!Windows : v # "main" => win'[v] = win[v]
      BY <1>10 DEF Sessions!Enters, Sessions!TypeOK, WindowState
    <2>6. chat = {} BY <2>2 DEF Sessions!TypeOK, Sessions!Ids, Sessions!NoId, IsAwaited
    <2>7. \A l \in Tries : ~IsAwaited(l)' BY <2>2, <2>3, <2>4 DEF IsAwaited
    <2>8. "main" \notin restoring BY <2>2
    <2> QED BY <2>1, <2>5, <2>6, <2>7, <2>8
        DEF Sessions!Exists, Sessions!OneAccountPerEmail, IsAwaited
  <1>11. ASSUME NEW k \in Tries, Sessions!Find(k) PROVE SessionsInv'
    <2>1. UNCHANGED <<owner, made, local, ofWindow, win, restoring, leaving, chat, leaves>>
      BY <1>11 DEF Sessions!Find
    <2>2. try[k] \in Sessions!Try BY <1>11 DEF Sessions!Find, Sessions!TypeOK
    <2>3. \E a, i : try' = [try EXCEPT ![k].at = a, ![k].id = i]
      BY <1>11, Zenon DEF Sessions!Find
    <2>4. \A l \in Tries : IsAwaited(l)' <=> IsAwaited(l) BY <2>2, <2>3, AwaitedStays
    <2> QED BY <2>1, <2>4 DEF Sessions!Exists, Sessions!OneAccountPerEmail, IsAwaited
  <1>12. ASSUME NEW k \in Tries, Sessions!Create(k) PROVE SessionsInv'
    <2>1. UNCHANGED <<local, ofWindow, win, restoring, leaving, chat, leaves>>
      BY <1>12 DEF Sessions!Create
    <2>2. try[k] \in Sessions!Try BY <1>12 DEF Sessions!Create, Sessions!TypeOK
    <2>3. \E a, i : try' = [try EXCEPT ![k].at = a, ![k].id = i] \/
          try' = [try EXCEPT ![k].at = a]
      BY <1>12 DEF Sessions!Create
    <2>4. \A l \in Tries : IsAwaited(l)' <=> IsAwaited(l) BY <2>2, <2>3, AwaitedStays
    <2>5. made + 1 \in Sessions!Ids
      BY <1>12 DEF Sessions!Create, Sessions!TypeOK, Sessions!Ids, Sessions!SessionsAssumption
    <2>6. /\ (\A i \in Sessions!Ids : Sessions!Exists(i) => i <= made)'
          /\ Sessions!OneAccountPerEmail'
      <3>1. CASE UNCHANGED <<owner, made>>
        BY <3>1 DEF Sessions!Exists, Sessions!OneAccountPerEmail
      <3>2. CASE /\ ~Sessions!HasAccount(try[k].email)
                 /\ made' = made + 1
                 /\ owner' = [owner EXCEPT ![made + 1] = try[k].email]
        <4>1. \A i \in Sessions!Ids : i # made + 1 => owner'[i] = owner[i]
          BY <3>2 DEF Sessions!TypeOK
        <4>2. owner'[made + 1] = try[k].email BY <2>5, <3>2 DEF Sessions!TypeOK
        <4>3. \A i \in Sessions!Ids : owner[i] # try[k].email BY <3>2 DEF Sessions!HasAccount
        <4>4. (\A i \in Sessions!Ids : Sessions!Exists(i) => i <= made)'
          BY <2>5, <3>2, <4>1 DEF Sessions!Exists, Sessions!TypeOK, Sessions!Ids
        <4>5. Sessions!OneAccountPerEmail'
          BY <2>5, <4>1, <4>2, <4>3 DEF Sessions!Exists, Sessions!OneAccountPerEmail
        <4> QED BY <4>4, <4>5
      <3> QED BY <1>12, <3>1, <3>2 DEF Sessions!Create
    <2> QED BY <2>1, <2>4, <2>6 DEF IsAwaited
  <1>13. ASSUME NEW k \in Tries, Sessions!Compare(k) PROVE SessionsInv'
    <2>1. UNCHANGED <<owner, made, local, ofWindow, win, restoring, leaving, chat, leaves>>
      BY <1>13 DEF Sessions!Compare
    <2>2. try[k] \in Sessions!Try BY <1>13 DEF Sessions!Compare, Sessions!TypeOK
    <2>3. \E a, i : try' = [try EXCEPT ![k].at = a, ![k].id = i] BY <1>13 DEF Sessions!Compare
    <2>4. \A l \in Tries : IsAwaited(l)' <=> IsAwaited(l) BY <2>2, <2>3, AwaitedStays
    <2> QED BY <2>1, <2>4 DEF Sessions!Exists, Sessions!OneAccountPerEmail, IsAwaited
  <1>14. ASSUME NEW i \in Sessions!Ids, Sessions!Delete(i) PROVE SessionsInv'
    <2>1. UNCHANGED <<made, try, local, ofWindow, win, restoring, leaving, chat, leaves>>
      BY <1>14 DEF Sessions!Delete
    <2>2. \A j \in Sessions!Ids : owner'[j] = IF j = i THEN Sessions!Nobody ELSE owner[j]
      BY <1>14 DEF Sessions!Delete, Sessions!TypeOK
    <2> QED BY <2>1, <2>2 DEF Sessions!Exists, Sessions!OneAccountPerEmail, IsAwaited
  <1> QED BY <1>1, <1>2, <1>3, <1>4, <1>5, <1>6, <1>7, <1>8, <1>9, <1>10, <1>11, <1>12, <1>13,
      <1>14
      DEF Sessions!Next

(* The invariant holds, for any sign-ins, emails and logouts.                *)
LEMMA SessionsInvariance ==
    ASSUME Sessions!SessionsAssumption
    PROVE  Sessions!Spec => []SessionsInv
  <1>1. Sessions!Init => SessionsInv
    <2> SUFFICES ASSUME Sessions!Init PROVE SessionsInv OBVIOUS
    <2>1. owner \in [Sessions!Ids -> Emails \cup {Sessions!Nobody}] /\
          try \in [Tries -> Sessions!Try \cup {Sessions!Unused}]
      BY DEF Sessions!Init
    <2>2. /\ win \in [Sessions!Windows -> WindowState]
          /\ \A w \in Sessions!Windows : win[w].user = Sessions!NoId
      BY DEF Sessions!Init, WindowState, UserIds, Sessions!Closed, Sessions!Fresh
    <2>3. made \in 0..MaxIds /\ leaving \in 0..MaxLeaves /\ leaves \in 0..MaxLeaves
      BY DEF Sessions!Init, Sessions!SessionsAssumption
    <2>4. Sessions!TypeOK
      BY <2>1, <2>2, <2>3 DEF Sessions!Init, Sessions!TypeOK, WindowState, UserIds
    <2>5. leaving <= leaves BY DEF Sessions!Init
    <2>6. \A k \in Tries : ~IsAwaited(k) BY DEF Sessions!Init, IsAwaited
    <2>7. \A i \in Sessions!Ids : ~Sessions!Exists(i) BY DEF Sessions!Init, Sessions!Exists
    <2>8. chat = {} BY DEF Sessions!Init
    <2>9. "main" \in Sessions!Windows BY DEF Sessions!Windows
    <2> QED BY <2>2, <2>4, <2>5, <2>6, <2>7, <2>8, <2>9
        DEF SessionsInv, Sessions!ChatIsOfItsUser, Sessions!SocketIsOfItsUser,
            Sessions!OneAccountPerEmail
  <1>2. SessionsInv /\ [Sessions!Next]_(Sessions!vars) => SessionsInv'
    <2>1. CASE UNCHANGED Sessions!vars
      BY <2>1
         DEF Sessions!vars, SessionsInv, Sessions!TypeOK, Sessions!Loading, IsAwaited,
             Sessions!ChatIsOfItsUser, Sessions!SocketIsOfItsUser, Sessions!OneAccountPerEmail,
             Sessions!Exists
    <2> QED BY <2>1, SessionsStep
  <1> QED BY <1>1, <1>2, PTL DEF Sessions!Spec

(* The chat store holds messages of the user the main window shows alone,     *)
(* however logouts, sign-ins, reloads and their answers overlap (authStore.js *)
(* and chatStore.js).                                                        *)
THEOREM ChatStaysOfItsUser == Sessions!Spec => []ChatIsOfItsUser
  <1>1. Sessions!SessionsAssumption BY ServerAssumption
  <1>2. Sessions!Spec => []SessionsInv BY <1>1, SessionsInvariance
  <1>3. SessionsInv => ChatIsOfItsUser BY DEF SessionsInv, ChatIsOfItsUser
  <1> QED BY <1>2, <1>3, PTL

(* A window that shows a user is on the socket of that user or on none        *)
(* (authStore.js and socketService.js).                                      *)
THEOREM SocketStaysOfItsUser == Sessions!Spec => []Sessions!SocketIsOfItsUser
  <1>1. Sessions!SessionsAssumption BY ServerAssumption
  <1>2. Sessions!Spec => []SessionsInv BY <1>1, SessionsInvariance
  <1>3. SessionsInv => Sessions!SocketIsOfItsUser BY DEF SessionsInv
  <1> QED BY <1>2, <1>3, PTL

(* Sign-ups that overlap, or follow one whose answer was lost, make one       *)
(* account of an email address (authService.js and FileUserRepository.js).   *)
THEOREM OneAccountEach == Sessions!Spec => []Sessions!OneAccountPerEmail
  <1>1. Sessions!SessionsAssumption BY ServerAssumption
  <1>2. Sessions!Spec => []SessionsInv BY <1>1, SessionsInvariance
  <1>3. SessionsInv => Sessions!OneAccountPerEmail BY DEF SessionsInv
  <1> QED BY <1>2, <1>3, PTL

-----------------------------------------------------------------------------
(* Admin: the page changes a row before the server has answered, and takes    *)
(* the change back when it fails, while lists are read and shown.            *)

(* The requests of a row: to switch a feature, to delete the account.        *)
ToggleAsks == [op : {"toggle"}, to : Admin!Row, previous : Admin!Row, at :
      {"sent", "done", "refused"}]
DeleteAsks == [op : {"delete"}, at : {"sent", "found", "cleaned", "done", "refused"}]

(* A row that is not astray is the account, or what the account will be when  *)
(* its request has been answered.                                            *)
RowOK(u) ==
    /\ u \notin Admin!Busy /\ u \notin astray => rows[u] = feature[u]
    /\ u \in Admin!Busy /\ ask[u].op = "toggle" =>
          /\ ask[u].at = "done" => feature[u] = ask[u].to
          /\ u \notin astray => 
                /\ rows[u] # Admin!Rowless
                /\ ask[u].at # "done" => feature[u] = ask[u].previous
    /\ u \in Admin!Busy /\ ask[u].op = "delete" =>
          IF ask[u].at = "done" THEN feature[u] = Admin!Rowless ELSE u \notin astray =>
                rows[u] = feature[u]

(* A list that was read tells of every account that has not changed since.    *)
AdminInv ==
    /\ Admin!TypeOK
    /\ list.at = "read" => \A u \in People \ since : list.seen[u] = feature[u]
    /\ \A u \in People : RowOK(u)

(* A row that waits does so for one of the two kinds of request.             *)
LEMMA AskKinds == ASSUME Admin!TypeOK, NEW u \in People
   PROVE /\ u \in Admin!Busy <=> ask[u] # Admin!Quiet
         /\ u \in Admin!Busy => ask[u] \in ToggleAsks \cup DeleteAsks
         /\ u \in Admin!Busy /\ ask[u].op = "toggle" => ask[u] \in ToggleAsks
         /\ u \in Admin!Busy /\ ask[u].op = "delete" => ask[u] \in DeleteAsks
   BY DEF Admin!TypeOK, Admin!Busy, ToggleAsks, DeleteAsks, Admin!Ask

(* A request is not the state of a row without one.                          *)
LEMMA AsksAreNotQuiet == \A a \in ToggleAsks \cup DeleteAsks : a # Admin!Quiet
  BY DEF ToggleAsks, DeleteAsks, Admin!Quiet

(* A step leaves alone the rows it does not touch.                           *)
LEMMA OtherRows ==
    ASSUME NEW u \in People, RowOK(u), ask'[u] = ask[u], rows'[u] = rows[u],
           feature'[u] = feature[u],
           u \in astray' <=> u \in astray
    PROVE  RowOK(u)'
  BY DEF RowOK, Admin!Busy

(* Every step of the page and of the server preserves the invariant.         *)
LEMMA AdminStep == ASSUME Admin!AdminAssumption, AdminInv, Admin!Next PROVE AdminInv'
  <1> USE DEF Admin!AdminAssumption
  <1>t. Admin!TypeOK BY DEF AdminInv
  <1>l. list.at = "read" => list.seen \in Admin!Accounts BY <1>t DEF Admin!TypeOK
  <1>1. CASE Admin!Refresh
    <2>1. Admin!TypeOK'
      BY <1>1, <1>t DEF Admin!Refresh, Admin!TypeOK, Admin!NoList, Admin!Accounts, Admin!Row
    <2> QED BY <1>1, <2>1 DEF Admin!Refresh, AdminInv, RowOK, Admin!NoList, Admin!Busy
  <1>2. CASE Admin!ReadList
    <2>1. Admin!TypeOK' BY <1>2, <1>t DEF Admin!ReadList, Admin!TypeOK
    <2> QED BY <1>2, <2>1 DEF Admin!ReadList, AdminInv, RowOK, Admin!Busy
  <1>3. CASE Admin!Listed
    <2>1. Admin!TypeOK'
      BY <1>3, <1>t DEF Admin!Listed, Admin!TypeOK, Admin!NoList, Admin!Accounts, Admin!Row
    <2>2. UNCHANGED <<feature, owned, ask, since, asked>> /\ list'.at = "none"
      BY <1>3 DEF Admin!Listed, Admin!NoList
    <2>3. ASSUME NEW u \in People PROVE RowOK(u)'
      <3>1. RowOK(u) BY DEF AdminInv
      <3>2. u \notin since => rows'[u] = feature[u] BY <1>3 DEF Admin!Listed, AdminInv
      <3>3. u \notin astray' => u \notin since /\ (u \notin astray \/ u \notin Admin!Busy)
        BY <1>3 DEF Admin!Listed
      <3>4. Admin!Busy' = Admin!Busy BY <2>2 DEF Admin!Busy
      <3>5. u \in Admin!Busy /\ ask[u].op = "toggle" =>
            ask[u].to # Admin!Rowless /\ ask[u].previous # Admin!Rowless
        BY <1>t, AskKinds DEF ToggleAsks, Admin!Row, Admin!Rowless
      <3>6. u \in Admin!Busy /\ ask[u].op = "toggle" =>
            (u \notin astray' => rows'[u] # Admin!Rowless)
        BY <3>1, <3>2, <3>3, <3>5 DEF RowOK
      <3> QED BY <2>2, <3>1, <3>2, <3>3, <3>4, <3>6 DEF RowOK
    <2> QED BY <2>1, <2>2, <2>3 DEF AdminInv
  <1>4. CASE Admin!ListFails
    <2>1. Admin!TypeOK'
      BY <1>4, <1>t DEF Admin!ListFails, Admin!TypeOK, Admin!NoList, Admin!Accounts, Admin!Row
    <2> QED BY <1>4, <2>1 DEF Admin!ListFails, AdminInv, RowOK, Admin!NoList, Admin!Busy
  <1>5. ASSUME NEW u \in People, Admin!Toggle(u) PROVE AdminInv'
    <2>1. rows[u] \in Admin!Row /\ Admin!Other(rows[u]) \in Admin!Row
      BY <1>5, <1>t DEF Admin!Toggle, Admin!TypeOK, Admin!Accounts, Admin!Row, Admin!Other
    <2>2. PICK a : a = [op |-> "toggle", to |-> Admin!Other(rows[u]), previous |-> rows[u],
          at |-> "sent"]
      OBVIOUS
    <2>3. a \in ToggleAsks /\ a # Admin!Quiet BY <2>1, <2>2, AsksAreNotQuiet DEF ToggleAsks
    <2>4. ask' = [ask EXCEPT ![u] = a] /\ ask' \in [People -> Admin!Ask \cup {Admin!Quiet}] 
      BY <1>5, <1>t, <2>2, <2>3 DEF Admin!Toggle, Admin!TypeOK, Admin!Ask, ToggleAsks
    <2>5. rows' \in Admin!Accounts
      BY <1>5, <1>t, <2>1 DEF Admin!Toggle, Admin!TypeOK, Admin!Accounts
    <2>6. asked' \in 0..MaxAsked BY <1>5, <1>t DEF Admin!Toggle, Admin!TypeOK
    <2>7. Admin!TypeOK' BY <1>5, <1>t, <2>4, <2>5, <2>6 DEF Admin!Toggle, Admin!TypeOK
    <2>8. \A v \in People : RowOK(v)'
      <3> TAKE v \in People
      <3>1. RowOK(v) BY DEF AdminInv
      <3>2. CASE v # u
        <4>1. ask'[v] = ask[v] /\ rows'[v] = rows[v]
          BY <1>5, <1>t, <3>2 DEF Admin!Toggle, Admin!TypeOK, Admin!Accounts
        <4>2. v \in Admin!Busy' <=> v \in Admin!Busy BY <4>1 DEF Admin!Busy
        <4> QED BY <1>5, <3>1, <4>1, <4>2 DEF RowOK, Admin!Toggle
      <3>3. CASE v = u
        <4>1. ask'[u] = a /\ rows'[u] = Admin!Other(rows[u])
          BY <1>5, <1>t, <2>4 DEF Admin!Toggle, Admin!TypeOK, Admin!Accounts
        <4>2. u \in Admin!Busy' /\ u \notin Admin!Busy
          BY <1>5, <2>3, <4>1 DEF Admin!Busy, Admin!Toggle
        <4>3. u \notin astray => rows[u] = feature[u] BY <3>1, <3>3, <4>2 DEF RowOK
        <4> QED BY <1>5, <2>1, <2>2, <3>3, <4>1, <4>2, <4>3
            DEF RowOK, Admin!Toggle, Admin!Row, Admin!Rowless
      <3> QED BY <3>2, <3>3
    <2> QED BY <1>5, <2>7, <2>8 DEF AdminInv, Admin!Toggle
  <1>6. ASSUME NEW u \in People, Admin!Remove(u) PROVE AdminInv'
    <2>2. PICK a : a = [op |-> "delete", at |-> "sent"] OBVIOUS
    <2>3. a \in DeleteAsks /\ a # Admin!Quiet BY <2>2, AsksAreNotQuiet DEF DeleteAsks
    <2>4. ask' = [ask EXCEPT ![u] = a] /\ ask' \in [People -> Admin!Ask \cup {Admin!Quiet}]
      BY <1>6, <1>t, <2>2, <2>3 DEF Admin!Remove, Admin!TypeOK, Admin!Ask, DeleteAsks
    <2>6. asked' \in 0..MaxAsked BY <1>6, <1>t DEF Admin!Remove, Admin!TypeOK
    <2>7. Admin!TypeOK' BY <1>6, <1>t, <2>4, <2>6 DEF Admin!Remove, Admin!TypeOK
    <2>8. RowOK(u)'
      <3>1. RowOK(u) BY DEF AdminInv
      <3>2. ask'[u] = a BY <1>t, <2>4 DEF Admin!TypeOK
      <3>3. u \in Admin!Busy' /\ u \notin Admin!Busy
        BY <1>6, <2>3, <3>2 DEF Admin!Busy, Admin!Remove
      <3> QED BY <1>6, <2>2, <3>1, <3>2, <3>3 DEF RowOK, Admin!Remove
    <2>9. \A v \in People : v # u => ask'[v] = ask[v] BY <1>t, <2>4 DEF Admin!TypeOK
    <2> QED BY <1>6, <2>7, <2>8, <2>9, OtherRows DEF AdminInv, Admin!Remove
  <1>7. ASSUME NEW u \in People, Admin!Succeeds(u) PROVE AdminInv'
    <2>1. u \in Admin!Busy /\ ask[u] \in ToggleAsks \cup DeleteAsks
      BY <1>7, <1>t, AskKinds DEF Admin!Succeeds
    <2>2. rows' \in Admin!Accounts /\ \A v \in People : v # u => rows'[v] = rows[v]
      <3>1. CASE ask[u].op = "delete"
        BY <1>7, <1>t, <3>1 DEF Admin!Succeeds, Admin!TypeOK, Admin!Accounts
      <3>2. CASE ask[u].op # "delete"
        <4>1. ask[u].to \in Admin!Row BY <2>1, <3>2 DEF ToggleAsks, DeleteAsks
        <4> QED BY <1>7, <1>t, <3>2, <4>1 DEF Admin!Succeeds, Admin!TypeOK, Admin!Accounts
      <3> QED BY <3>1, <3>2
    <2>3. /\ ask' \in [People -> Admin!Ask \cup {Admin!Quiet}]
          /\ ask'[u] = Admin!Quiet
          /\ \A v \in People : v # u => ask'[v] = ask[v]
      BY <1>7, <1>t DEF Admin!Succeeds, Admin!TypeOK
    <2>4. /\ astray' \subseteq People
          /\ \A v \in People : v # u => (v \in astray' <=> v \in astray)
      BY <1>7, <1>t DEF Admin!Succeeds, Admin!TypeOK
    <2>5. UNCHANGED <<feature, owned, list, since, asked>> BY <1>7 DEF Admin!Succeeds
    <2>6. Admin!TypeOK' BY <1>t, <2>2, <2>3, <2>4, <2>5 DEF Admin!TypeOK
    <2>7. RowOK(u)'
      <3>1. RowOK(u) BY DEF AdminInv
      <3>2. u \notin Admin!Busy' BY <2>3 DEF Admin!Busy
      <3>3. u \notin astray' => rows'[u] = feature[u]
        <4>1. CASE ask[u].op = "delete"
          <5>1. rows'[u] = Admin!Rowless
            BY <1>7, <1>t, <4>1 DEF Admin!Succeeds, Admin!TypeOK, Admin!Accounts
          <5> QED BY <1>7, <2>1, <3>1, <4>1, <5>1 DEF Admin!Succeeds, RowOK
        <4>2. CASE ask[u].op = "toggle"
          <5>1. rows[u] # Admin!Rowless => rows'[u] = ask[u].to
            BY <1>7, <1>t, <4>2 DEF Admin!Succeeds, Admin!TypeOK, Admin!Accounts
          <5>2. rows[u] = Admin!Rowless => astray' = astray BY <1>7, <4>2 DEF Admin!Succeeds
          <5> QED BY <1>7, <2>1, <3>1, <4>2, <5>1, <5>2 DEF Admin!Succeeds, RowOK
        <4> QED BY <2>1, <4>1, <4>2 DEF ToggleAsks, DeleteAsks
      <3> QED BY <2>5, <3>2, <3>3 DEF RowOK
    <2> QED BY <2>2, <2>3, <2>4, <2>5, <2>6, <2>7, OtherRows DEF AdminInv
  <1>8. ASSUME NEW u \in People, Admin!Fails(u) PROVE AdminInv'
    <2>1. u \in Admin!Busy /\ ask[u] \in ToggleAsks \cup DeleteAsks
      BY <1>8, <1>t, AskKinds DEF Admin!Fails
    <2>2. rows' \in Admin!Accounts /\ \A v \in People : v # u => rows'[v] = rows[v]
      <3>1. ask[u].op = "toggle" => ask[u].previous \in Admin!Row
        BY <2>1 DEF ToggleAsks, DeleteAsks
      <3> QED BY <1>8, <1>t, <3>1 DEF Admin!Fails, Admin!Revert, Admin!TypeOK, Admin!Accounts
    <2>3. /\ ask' \in [People -> Admin!Ask \cup {Admin!Quiet}]
          /\ ask'[u] = Admin!Quiet
          /\ \A v \in People : v # u => ask'[v] = ask[v]
      BY <1>8, <1>t DEF Admin!Fails, Admin!TypeOK
    <2>4. /\ astray' \subseteq People
          /\ \A v \in People : v # u => (v \in astray' <=> v \in astray)
      BY <1>8, <1>t DEF Admin!Fails, Admin!TypeOK
    <2>5. UNCHANGED <<owned, list, asked>> BY <1>8 DEF Admin!Fails
    <2>6. \/ UNCHANGED <<feature, since>>
          \/ /\ since' = since \cup {u} /\ ask[u].at # "refused"
             /\ \E x \in Admin!Row \cup {Admin!Rowless} : feature' = [feature EXCEPT ![u] = x]
      <3>1. ask[u].op = "toggle" => ask[u].to \in Admin!Row BY <2>1 DEF ToggleAsks, DeleteAsks
      <3> QED BY <1>8, <3>1 DEF Admin!Fails
    <2>7. Admin!TypeOK' BY <1>t, <2>2, <2>3, <2>4, <2>5, <2>6 DEF Admin!TypeOK, Admin!Accounts
    <2>8. \A v \in People : v # u => feature'[v] = feature[v]
      BY <1>t, <2>6 DEF Admin!TypeOK, Admin!Accounts
    <2>9. list'.at = "read" => \A v \in People \ since' : list'.seen[v] = feature'[v]
      BY <2>5, <2>6, <2>8 DEF AdminInv
    <2>10. RowOK(u)'
      <3>1. RowOK(u) BY DEF AdminInv
      <3>2. u \notin Admin!Busy' BY <2>3 DEF Admin!Busy
      <3>3. CASE ask[u].at # "refused" BY <1>8, <3>2, <3>3 DEF Admin!Fails, RowOK
      <3>4. CASE ask[u].at = "refused"
        <4>1. astray' = astray /\ feature' = feature BY <1>8, <2>6, <3>4 DEF Admin!Fails
        <4>2. CASE ask[u].op = "toggle"
          <5>1. u \notin astray => rows'[u] = ask[u].previous /\ feature[u] = ask[u].previous
            BY <1>8, <1>t, <2>1, <3>1, <3>4, <4>2
               DEF Admin!Fails, Admin!Revert, RowOK, Admin!TypeOK, Admin!Accounts
          <5> QED BY <3>2, <4>1, <5>1 DEF RowOK
        <4>3. CASE ask[u].op = "delete"
          <5>1. rows' = rows BY <1>8, <4>3 DEF Admin!Fails, Admin!Revert
          <5> QED BY <2>1, <3>1, <3>2, <3>4, <4>1, <4>3, <5>1 DEF RowOK
        <4> QED BY <2>1, <4>2, <4>3 DEF ToggleAsks, DeleteAsks
      <3> QED BY <3>3, <3>4
    <2> QED BY <2>2, <2>3, <2>4, <2>7, <2>8, <2>9, <2>10, OtherRows DEF AdminInv
  <1>9. ASSUME NEW u \in People, Admin!UpdateFeatures(u) PROVE AdminInv'
    <2>1. u \in Admin!Busy /\ ask[u] \in ToggleAsks
      BY <1>9, <1>t, AskKinds DEF Admin!UpdateFeatures
    <2>2. PICK a : a = IF feature[u] =
          Admin!Rowless THEN [ask[u] EXCEPT !.at = "refused"] ELSE [ask[u] EXCEPT !.at = "done"]
      OBVIOUS
    <2>3. /\ a \in ToggleAsks
          /\ a # Admin!Quiet
          /\ a.op = "toggle"
          /\ a.to = ask[u].to
          /\ a.previous = ask[u].previous
          /\ a.at = IF feature[u] = Admin!Rowless THEN "refused" ELSE "done"
      BY <2>1, <2>2, AsksAreNotQuiet DEF ToggleAsks
    <2>4. ask' = [ask EXCEPT ![u] = a] BY <1>9, <2>2 DEF Admin!UpdateFeatures
    <2>5. /\ ask' \in [People -> Admin!Ask \cup {Admin!Quiet}]
          /\ ask'[u] = a
          /\ \A v \in People : v # u => ask'[v] = ask[v]
      BY <1>t, <2>3, <2>4 DEF Admin!TypeOK, Admin!Ask, ToggleAsks
    <2>6. ask[u].to \in Admin!Row BY <2>1 DEF ToggleAsks
    <2>7. feature' \in Admin!Accounts /\ since' \subseteq People
      BY <1>9, <1>t, <2>6 DEF Admin!UpdateFeatures, Admin!TypeOK, Admin!Accounts
    <2>8. UNCHANGED <<owned, rows, list, astray, asked>> BY <1>9 DEF Admin!UpdateFeatures
    <2>9. Admin!TypeOK' BY <1>t, <2>5, <2>7, <2>8 DEF Admin!TypeOK
    <2>10. IF feature[u] = Admin!Rowless THEN feature' = feature /\ since' = since
           ELSE feature'[u] = ask[u].to /\ since' = since \cup {u} /\ \A v \in People : v # u =>
                 feature'[v] = feature[v]
      BY <1>9, <1>t DEF Admin!UpdateFeatures, Admin!TypeOK, Admin!Accounts
    <2>11. list'.at = "read" => \A v \in People \ since' : list'.seen[v] = feature'[v]
      BY <2>8, <2>10 DEF AdminInv
    <2>12. RowOK(u)'
      <3>1. RowOK(u) BY DEF AdminInv
      <3>2. u \in Admin!Busy' BY <2>3, <2>5 DEF Admin!Busy
      <3>3. ask[u].op = "toggle" /\ ask[u].at = "sent" BY <1>9 DEF Admin!UpdateFeatures
      <3>4. feature'[u] = IF feature[u] = Admin!Rowless THEN Admin!Rowless ELSE ask[u].to
        BY <2>10
      <3>5. u \notin astray => rows[u] # Admin!Rowless /\ feature[u] = ask[u].previous
        BY <2>1, <3>1, <3>3 DEF RowOK
      <3>6. /\ ask'[u].op = "toggle"
            /\ ask'[u].to = ask[u].to
            /\ ask'[u].previous = ask[u].previous
            /\ ask'[u].at = IF feature[u] = Admin!Rowless THEN "refused" ELSE "done"
        BY <2>3, <2>5
      <3>7. ask[u].previous # Admin!Rowless BY <2>1 DEF ToggleAsks, Admin!Row, Admin!Rowless
      <3> QED BY <2>8, <3>2, <3>4, <3>5, <3>6, <3>7 DEF RowOK
    <2> QED BY <2>5, <2>8, <2>9, <2>10, <2>11, <2>12, OtherRows DEF AdminInv
  <1>10. ASSUME NEW u \in People, Admin!ServerFails(u) PROVE AdminInv'
    <2>1. u \in Admin!Busy /\ ask[u] \in ToggleAsks \cup DeleteAsks
      BY <1>10, <1>t, AskKinds DEF Admin!ServerFails
    <2>2. PICK a : a = [ask[u] EXCEPT !.at = "refused"] OBVIOUS
    <2>3. /\ a \in ToggleAsks \cup DeleteAsks
          /\ a # Admin!Quiet
          /\ a.op = ask[u].op
          /\ a.at = "refused"
          /\ a.op = "toggle" => a.to = ask[u].to /\ a.previous = ask[u].previous
      <3>1. CASE ask[u] \in ToggleAsks BY <2>2, <3>1, AsksAreNotQuiet DEF ToggleAsks
      <3>2. CASE ask[u] \in DeleteAsks BY <2>2, <3>2, AsksAreNotQuiet DEF DeleteAsks
      <3> QED BY <2>1, <3>1, <3>2
    <2>4. /\ ask' \in [People -> Admin!Ask \cup {Admin!Quiet}]
          /\ ask'[u] = a
          /\ \A v \in People : v # u => ask'[v] = ask[v]
      BY <1>10, <1>t, <2>2, <2>3
         DEF Admin!ServerFails, Admin!TypeOK, Admin!Ask, ToggleAsks, DeleteAsks
    <2>5. UNCHANGED <<feature, owned, rows, list, since, astray, asked>>
      BY <1>10 DEF Admin!ServerFails
    <2>6. Admin!TypeOK' BY <1>t, <2>4, <2>5 DEF Admin!TypeOK
    <2>7. RowOK(u)'
      <3>1. RowOK(u) /\ ask[u].at = "sent" BY <1>10 DEF AdminInv, Admin!ServerFails
      <3>2. u \in Admin!Busy' BY <2>3, <2>4 DEF Admin!Busy
      <3> QED BY <2>1, <2>3, <2>4, <2>5, <3>1, <3>2 DEF RowOK
    <2> QED BY <2>4, <2>5, <2>6, <2>7, OtherRows DEF AdminInv
  <1>11. ASSUME NEW u \in People, Admin!FindTarget(u) \/ Admin!Cleanup(u) PROVE AdminInv'
    <2>1. u \in Admin!Busy /\ ask[u] \in DeleteAsks
      BY <1>11, <1>t, AskKinds DEF Admin!FindTarget, Admin!Cleanup
    <2>2. PICK to \in {"refused", "found", "cleaned"} : ask' = [ask EXCEPT ![u].at = to]
      BY <1>11 DEF Admin!FindTarget, Admin!Cleanup
    <2>3. [ask[u] EXCEPT !.at = to] \in DeleteAsks BY <2>1 DEF DeleteAsks
    <2>4. /\ ask' \in [People -> Admin!Ask \cup {Admin!Quiet}]
          /\ ask'[u] \in DeleteAsks
          /\ ask'[u].at = to
          /\ \A v \in People : v # u => ask'[v] = ask[v]
      BY <1>t, <2>1, <2>2, <2>3 DEF Admin!TypeOK, Admin!Ask, DeleteAsks
    <2>5. UNCHANGED <<feature, rows, list, since, astray, asked>> /\ owned' \subseteq owned
      BY <1>11 DEF Admin!FindTarget, Admin!Cleanup
    <2>6. Admin!TypeOK' BY <1>t, <2>4, <2>5 DEF Admin!TypeOK
    <2>7. RowOK(u)'
      <3>1. RowOK(u) /\ ask[u].at # "done"
        BY <1>11 DEF AdminInv, Admin!FindTarget, Admin!Cleanup
      <3>2. u \in Admin!Busy' BY <2>4, AsksAreNotQuiet DEF Admin!Busy
      <3>3. ask[u].op = "delete" /\ ask'[u].op = "delete" BY <2>1, <2>4 DEF DeleteAsks
      <3> QED BY <2>1, <2>4, <2>5, <3>1, <3>2, <3>3 DEF RowOK
    <2> QED BY <2>4, <2>5, <2>6, <2>7, OtherRows DEF AdminInv
  <1>12. ASSUME NEW u \in People, Admin!DeleteById(u) PROVE AdminInv'
    <2>1. u \in Admin!Busy /\ ask[u] \in DeleteAsks
      BY <1>12, <1>t, AskKinds DEF Admin!DeleteById
    <2>2. PICK a : a = IF feature[u] =
          Admin!Rowless THEN [ask[u] EXCEPT !.at = "refused"] ELSE [ask[u] EXCEPT !.at = "done"]
      OBVIOUS
    <2>3. /\ a \in DeleteAsks
          /\ a # Admin!Quiet
          /\ a.op = "delete"
          /\ a.at = IF feature[u] = Admin!Rowless THEN "refused" ELSE "done"
      BY <2>1, <2>2, AsksAreNotQuiet DEF DeleteAsks
    <2>4. ask' = [ask EXCEPT ![u] = a] BY <1>12, <2>2 DEF Admin!DeleteById
    <2>5. /\ ask' \in [People -> Admin!Ask \cup {Admin!Quiet}]
          /\ ask'[u] = a
          /\ \A v \in People : v # u => ask'[v] = ask[v]
      BY <1>t, <2>3, <2>4 DEF Admin!TypeOK, Admin!Ask, DeleteAsks
    <2>7. feature' \in Admin!Accounts /\ since' \subseteq People
      BY <1>12, <1>t DEF Admin!DeleteById, Admin!TypeOK, Admin!Accounts
    <2>8. UNCHANGED <<owned, rows, list, astray, asked>> BY <1>12 DEF Admin!DeleteById
    <2>9. Admin!TypeOK' BY <1>t, <2>5, <2>7, <2>8 DEF Admin!TypeOK
    <2>10. IF feature[u] = Admin!Rowless THEN feature' = feature /\ since' = since
           ELSE feature'[u] = Admin!Rowless /\ since' = since \cup {u} /\ \A v \in People :
                 v # u => feature'[v] = feature[v]
      BY <1>12, <1>t DEF Admin!DeleteById, Admin!TypeOK, Admin!Accounts
    <2>11. list'.at = "read" => \A v \in People \ since' : list'.seen[v] = feature'[v]
      BY <2>8, <2>10 DEF AdminInv
    <2>12. RowOK(u)'
      <3>1. RowOK(u) BY DEF AdminInv
      <3>2. u \in Admin!Busy' BY <2>3, <2>5 DEF Admin!Busy
      <3>3. ask[u].op = "delete" /\ ask[u].at = "cleaned" BY <1>12 DEF Admin!DeleteById
      <3> QED BY <2>1, <2>3, <2>5, <2>8, <2>10, <3>1, <3>2, <3>3 DEF RowOK
    <2> QED BY <2>5, <2>8, <2>9, <2>10, <2>11, <2>12, OtherRows DEF AdminInv
  <1>13. ASSUME NEW u \in People, Admin!Work(u) PROVE AdminInv'
    <2>1. Admin!TypeOK' BY <1>13, <1>t DEF Admin!Work, Admin!TypeOK
    <2> QED BY <1>13, <2>1, OtherRows DEF AdminInv, Admin!Work
  <1> QED BY <1>1, <1>2, <1>3, <1>4, <1>5, <1>6, <1>7, <1>8, <1>9, <1>10, <1>11, <1>12, <1>13
      DEF Admin!Next

(* The invariant holds, for any accounts and number of requests.             *)
LEMMA AdminInvariance == ASSUME Admin!AdminAssumption PROVE Admin!Spec => []AdminInv
  <1>1. Admin!Init => AdminInv
    <2> SUFFICES ASSUME Admin!Init PROVE AdminInv OBVIOUS
    <2>1. /\ feature \in Admin!Accounts
          /\ rows \in Admin!Accounts
          /\ Admin!NoList.seen \in Admin!Accounts
      BY DEF Admin!Init, Admin!Accounts, Admin!Row, Admin!NoList
    <2>2. ask \in [People -> Admin!Ask \cup {Admin!Quiet}] BY DEF Admin!Init
    <2>3. list \in [at : {"none", "sent", "read"}, seen : Admin!Accounts] /\ list.at = "sent"
      BY <2>1 DEF Admin!Init, Admin!NoList
    <2>4. asked \in 0..MaxAsked BY DEF Admin!Init, Admin!AdminAssumption
    <2>5. Admin!TypeOK BY <2>1, <2>2, <2>3, <2>4 DEF Admin!Init, Admin!TypeOK
    <2>6. \A u \in People : u \in astray /\ u \notin Admin!Busy BY DEF Admin!Init, Admin!Busy
    <2> QED BY <2>3, <2>5, <2>6 DEF AdminInv, RowOK
  <1>2. AdminInv /\ [Admin!Next]_(Admin!vars) => AdminInv'
    <2>1. CASE UNCHANGED Admin!vars
      BY <2>1 DEF Admin!vars, AdminInv, Admin!TypeOK, RowOK, Admin!Busy
    <2> QED BY <2>1, AdminStep
  <1> QED BY <1>1, <1>2, PTL DEF Admin!Spec

(* A row that waits for no answer is what the account is.                    *)
LEMMA RowsAreAccounts == AdminInv => Admin!RowIsTheAccount
  BY DEF AdminInv, RowOK, Admin!RowIsTheAccount

(* A row of the administrator's page that waits for no answer is what the     *)
(* account is, unless its answer was lost or a list older than a change was   *)
(* shown (AdminView.jsx and admin.controller.js).                            *)
THEOREM RowsStayTheAccounts == Admin!Spec => []RowIsTheAccount
  <1>1. Admin!AdminAssumption BY ServerAssumption
  <1>2. Admin!Spec => []AdminInv BY <1>1, AdminInvariance
  <1>3. AdminInv => RowIsTheAccount BY RowsAreAccounts DEF RowIsTheAccount
  <1> QED BY <1>2, <1>3, PTL

-----------------------------------------------------------------------------
(* Browser: one list of tabs and one active index, which every call reads     *)
(* again after an await.                                                     *)

(* The calls that wait for a browser to start.                               *)
LaunchCalls == {c \in Visits : stage[c] = "launch"}

(* No page is in the list twice.                                             *)
DistinctTabs == \A i, j \in 1..Len(tabs) : tabs[i] = tabs[j] => i = j

(* The list holds pages that were opened.                                    *)
TabsWereOpened == Len(tabs) <= opened /\ \A i \in 1..Len(tabs) : tabs[i] <= opened

(* A call that closes a page, if no other came in between, will take that     *)
(* page out of the list.                                                     *)
CloseIsOfItsPage(c) ==
    stage[c] = "close" =>
       /\ act[c].kind = "close" 
       /\ ~overlapped => act[c].index < Len(tabs) /\ visited[c] = tabs[act[c].index + 1]

(* A launch that ends finds at most as many browsers as there were calls.    *)
BrowserInv ==
    /\ Browser!TypeOK
    /\ browser + Cardinality(LaunchCalls) <= Cardinality(Visits)
    /\ TabsWereOpened
    /\ DistinctTabs
    /\ tabs = <<>> => activeTab = 0
    /\ Browser!ActiveIsATab
    /\ Browser!TabsAreThePages
    /\ ~overlapped => \A c, d \in Visits : Browser!Under(c) /\ Browser!Under(d) => c = d
    /\ \A c \in Visits : CloseIsOfItsPage(c)

(* What taking one element out of a sequence leaves. *)
LEMMA TakenOut ==
    ASSUME NEW S, NEW s \in Seq(S), NEW i \in 1..Len(s)
    PROVE  /\ RemoveAt(s, i) \in Seq(S) /\ Len(RemoveAt(s, i)) = Len(s) - 1
           /\ \A j \in 1..(Len(s) - 1) : RemoveAt(s, i)[j] = IF j < i THEN s[j] ELSE s[j + 1]
  <1>1. PICK a : a = SubSeq(s, 1, i - 1) OBVIOUS
  <1>2. PICK b : b = SubSeq(s, i + 1, Len(s)) OBVIOUS
  <1>3. \A j \in 1..Len(s) : s[j] \in S BY ElementOfSeq
  <1>4. Len(s) \in Nat BY LenProperties
  <1>5. a \in Seq(S) /\ Len(a) = i - 1 /\ \A j \in 1..(i - 1) : a[j] = s[j]
    BY <1>1, <1>3, <1>4, SubSeqProperties
  <1>6. b \in Seq(S) /\ Len(b) = Len(s) - i /\ \A j \in 1..(Len(s) - i) : b[j] = s[i + j]
    <2>1. \A j \in (i + 1)..Len(s) : s[j] \in S BY <1>3, <1>4
    <2>2. /\ SubSeq(s, i + 1, Len(s)) \in Seq(S)
          /\ Len(SubSeq(s, i + 1, Len(s))) = IF i + 1 <= Len(s) THEN Len(s) - (i + 1) + 1 ELSE 0
          /\ \A j \in 1..(Len(s) - (i + 1) + 1) : SubSeq(s, i + 1, Len(s))[j] = s[i + 1 + j - 1]
      BY <1>4, <2>1, SubSeqProperties
    <2> QED BY <1>2, <1>4, <2>2
  <1>7. RemoveAt(s, i) = a \o b BY <1>1, <1>2 DEF RemoveAt
  <1>8. /\ a \o b \in Seq(S) /\ Len(a \o b) = Len(a) + Len(b)
        /\ \A j \in 1..(Len(a) + Len(b)) :
              (a \o b)[j] = IF j <= Len(a) THEN a[j] ELSE b[j - Len(a)]
    BY <1>5, <1>6, ConcatProperties
  <1>9. ASSUME NEW j \in 1..(Len(s) - 1)
      PROVE RemoveAt(s, i)[j] = IF j < i THEN s[j] ELSE s[j + 1]
    <2>1. CASE j < i BY <1>4, <1>5, <1>6, <1>7, <1>8, <2>1
    <2>2. CASE ~(j < i)
      <3>0. Len(a) = i - 1 /\ j \in 1..(Len(a) + Len(b)) /\ ~(j <= Len(a))
        BY <1>4, <1>5, <1>6, <2>2
      <3>1. (a \o b)[j] = b[j - (i - 1)] BY <1>8, <3>0
      <3>2. j - (i - 1) \in 1..(Len(s) - i) BY <1>4, <2>2
      <3>3. b[j - (i - 1)] = s[i + (j - (i - 1))] BY <1>6, <3>2
      <3> QED BY <1>4, <1>7, <2>2, <3>1, <3>3
    <2> QED BY <2>1, <2>2
  <1>10. Len(RemoveAt(s, i)) = Len(s) - 1 BY <1>4, <1>5, <1>6, <1>7, <1>8
  <1> QED BY <1>7, <1>8, <1>9, <1>10

(* Of distinct tabs, taking one out takes its page away. *)
LEMMA PageLess ==
    ASSUME tabs \in Seq(Browser!PageIds), DistinctTabs, NEW i \in 1..Len(tabs)
    PROVE  ToSet(RemoveAt(tabs, i)) = ToSet(tabs) \ {tabs[i]}
  <1>1. PICK r : r = RemoveAt(tabs, i) OBVIOUS
  <1>2. Len(tabs) \in Nat /\ DOMAIN tabs = 1..Len(tabs) BY LenProperties
  <1>3. /\ r \in Seq(Browser!PageIds) /\ Len(r) = Len(tabs) - 1
        /\ \A j \in 1..(Len(tabs) - 1) : r[j] = IF j < i THEN tabs[j] ELSE tabs[j + 1]
    BY <1>1, TakenOut
  <1>4. DOMAIN r = 1..(Len(tabs) - 1) BY <1>3, LenProperties
  <1>5. ASSUME NEW x \in ToSet(r) PROVE x \in ToSet(tabs) \ {tabs[i]}
    <2>1. PICK j \in 1..(Len(tabs) - 1) : x = r[j] BY <1>4 DEF ToSet
    <2>2. PICK k \in 1..Len(tabs) : x = tabs[k] /\ k # i
      <3>1. CASE j < i BY <1>2, <1>3, <2>1, <3>1
      <3>2. CASE ~(j < i) BY <1>2, <1>3, <2>1, <3>2
      <3> QED BY <3>1, <3>2
    <2>3. x # tabs[i] BY <2>2 DEF DistinctTabs
    <2> QED BY <1>2, <2>2, <2>3 DEF ToSet
  <1>6. ASSUME NEW x \in ToSet(tabs) \ {tabs[i]} PROVE x \in ToSet(r)
    <2>1. PICK j \in 1..Len(tabs) : x = tabs[j] BY <1>2 DEF ToSet
    <2>2. CASE j < i
      <3>1. j \in 1..(Len(tabs) - 1) /\ r[j] = x BY <1>2, <1>3, <2>1, <2>2
      <3> QED BY <1>4, <3>1 DEF ToSet
    <2>3. CASE i < j
      <3>1. j - 1 \in 1..(Len(tabs) - 1) /\ r[j - 1] = x BY <1>2, <1>3, <2>1, <2>3
      <3> QED BY <1>4, <3>1 DEF ToSet
    <2> QED BY <1>2, <2>1, <2>2, <2>3
  <1> QED BY <1>1, <1>5, <1>6

(* A page more. *)
LEMMA PageMore ==
    ASSUME tabs \in Seq(Browser!PageIds), NEW p \in Browser!PageIds
    PROVE  ToSet(Append(tabs, p)) = ToSet(tabs) \union {p}
  <1>1. Len(tabs) \in Nat /\ DOMAIN tabs = 1..Len(tabs) BY LenProperties
  <1>2. PICK r : r = Append(tabs, p) OBVIOUS
  <1>3. /\ r \in Seq(Browser!PageIds) /\ Len(r) = Len(tabs) + 1 /\ r[Len(tabs) + 1] = p
        /\ \A j \in 1..Len(tabs) : r[j] = tabs[j]
    BY <1>2, AppendProperties
  <1>4. DOMAIN r = 1..(Len(tabs) + 1) BY <1>3, LenProperties
  <1>5. ASSUME NEW x PROVE x \in ToSet(r) <=> x \in ToSet(tabs) \/ x = p
    <2>1. x \in ToSet(r) <=> \E j \in 1..(Len(tabs) + 1) : x = r[j] BY <1>4 DEF ToSet
    <2>2. x \in ToSet(tabs) <=> \E j \in 1..Len(tabs) : x = tabs[j] BY <1>1 DEF ToSet
    <2>3. \A j \in 1..(Len(tabs) + 1) : j \in 1..Len(tabs) \/ j = Len(tabs) + 1 BY <1>1
    <2>4. \A j \in 1..Len(tabs) : j \in 1..(Len(tabs) + 1) BY <1>1
    <2>5. Len(tabs) + 1 \in 1..(Len(tabs) + 1) BY <1>1
    <2> QED BY <1>3, <2>1, <2>2, <2>3, <2>4, <2>5
  <1> QED BY <1>2, <1>5

BrowserAwaits == {"idle", "launch", "first", "page", "tab", "work", "front", "close"}

(* One call goes on: calls overlap only where that was noted.                *)
LEMMA OneCallMoves ==
    ASSUME BrowserInv, NEW c \in Visits, NEW x \in BrowserAwaits,
           stage' = [stage EXCEPT ![c] = x],
           \A d \in Visits : d # c => act'[d] = act[d] /\ visited'[d] = visited[d],
           \/ overlapped' = overlapped /\ Browser!Under(c)
           \/ stage[c] = "idle" /\
                 overlapped' = (overlapped \/ \E d \in Visits : Browser!Under(d)),
           CloseIsOfItsPage(c)'
    PROVE  /\ stage' \in [Visits -> BrowserAwaits] /\ overlapped' \in BOOLEAN
           /\ (~overlapped => \A d, e \in Visits : Browser!Under(d) /\ Browser!Under(e) =>
                 d = e)'
           /\ \A d \in Visits : CloseIsOfItsPage(d)'
  <1>1. stage \in [Visits -> BrowserAwaits] BY DEF BrowserInv, Browser!TypeOK, BrowserAwaits
  <1>2. stage' \in [Visits -> BrowserAwaits] BY <1>1
  <1>3. overlapped' \in BOOLEAN BY DEF BrowserInv, Browser!TypeOK
  <1>4. stage'[c] = x /\ \A d \in Visits : d # c => stage'[d] = stage[d] BY <1>1
  <1>5. ~overlapped' => ~overlapped /\ \A d \in Visits : d # c => ~Browser!Under(d)
    BY DEF BrowserInv
  <1>6. \A d \in Visits : d # c => (Browser!Under(d)' <=> Browser!Under(d))
    BY <1>4 DEF Browser!Under
  <1>7. (~overlapped => \A d, e \in Visits : Browser!Under(d) /\ Browser!Under(e) => d = e)'
    BY <1>5, <1>6
  <1>8. ASSUME NEW d \in Visits, d # c PROVE CloseIsOfItsPage(d)'
    <2>1. CloseIsOfItsPage(d) /\ stage'[d] = stage[d] /\ act'[d] = act[d]
      BY <1>4, <1>8 DEF BrowserInv
    <2>2. stage[d] = "close" => overlapped' BY <1>3, <1>5, <1>8 DEF Browser!Under
    <2> QED BY <2>1, <2>2 DEF CloseIsOfItsPage
  <1> QED BY <1>2, <1>3, <1>7, <1>8

(* The launches that are under way when one call goes on.                    *)
LEMMA LaunchesCounted ==
    ASSUME BrowserInv, Browser!BrowserAssumption, NEW c \in Visits, NEW x \in BrowserAwaits,
           stage' = [stage EXCEPT ![c] = x]
    PROVE  /\ Cardinality(LaunchCalls) \in Nat /\ Cardinality(LaunchCalls') \in Nat
           /\ Cardinality(Visits) \in Nat
           /\ Cardinality(LaunchCalls') <= Cardinality(Visits)
           /\ x # "launch" => Cardinality(LaunchCalls') <= Cardinality(LaunchCalls)
           /\ x # "launch" /\ stage[c] = "launch" =>
                 Cardinality(LaunchCalls') = Cardinality(LaunchCalls) - 1
  <1>1. stage \in [Visits -> BrowserAwaits] BY DEF BrowserInv, Browser!TypeOK, BrowserAwaits
  <1>2. IsFiniteSet(Visits) BY SameLibrary DEF Browser!BrowserAssumption
  <1>3. LaunchCalls \subseteq Visits /\ LaunchCalls' \subseteq Visits BY DEF LaunchCalls
  <1>4. /\ IsFiniteSet(LaunchCalls)
        /\ IsFiniteSet(LaunchCalls')
        /\ Cardinality(LaunchCalls') <= Cardinality(Visits)
    BY <1>2, <1>3, FS_Subset
  <1>5. /\ Cardinality(LaunchCalls) \in Nat
        /\ Cardinality(LaunchCalls') \in Nat
        /\ Cardinality(Visits) \in Nat
    BY <1>2, <1>4, FS_CardinalityType
  <1>6. ASSUME x # "launch" PROVE LaunchCalls' = LaunchCalls \ {c} BY <1>1, <1>6 DEF LaunchCalls
  <1>7. ASSUME x # "launch" PROVE Cardinality(LaunchCalls') <= Cardinality(LaunchCalls)
    BY <1>4, <1>6, <1>7, FS_Subset
  <1>8. ASSUME x # "launch", stage[c] = "launch"
      PROVE Cardinality(LaunchCalls') = Cardinality(LaunchCalls) - 1
    BY <1>4, <1>6, <1>8, FS_RemoveElement DEF LaunchCalls
  <1> QED BY <1>4, <1>5, <1>7, <1>8

(* A call that ends leaves the others alone.                                 *)
LEMMA CallEnds ==
    ASSUME BrowserInv, Browser!BrowserAssumption, NEW c \in Visits, Browser!Ends(c)
    PROVE  /\ stage' = [stage EXCEPT ![c] = "idle"]
           /\ act' \in [Visits -> Browser!Ask] /\ visited' \in [Visits -> 0..MaxPages]
           /\ \A d \in Visits : d # c => act'[d] = act[d] /\ visited'[d] = visited[d]
           /\ CloseIsOfItsPage(c)'
  <1>1. stage' = [stage EXCEPT ![c] = "idle"] BY DEF Browser!Ends, Browser!Awaits
  <1>2. [kind |-> "none"] \in Browser!Ask /\ Browser!None \in 0..MaxPages
    <2>1. [kind |-> "none"] \in Browser!Ask BY DEF Browser!Ask
    <2>2. Browser!None \in 0..MaxPages BY DEF Browser!None, Browser!BrowserAssumption
    <2> QED BY <2>1, <2>2
  <1>3. act' \in [Visits -> Browser!Ask] BY <1>2 DEF Browser!Ends, BrowserInv, Browser!TypeOK
  <1>4. visited' \in [Visits -> 0..MaxPages]
    BY <1>2 DEF Browser!Ends, BrowserInv, Browser!TypeOK
  <1>5. \A d \in Visits : d # c => act'[d] = act[d] /\ visited'[d] = visited[d]
    BY DEF Browser!Ends, BrowserInv, Browser!TypeOK
  <1>6. CloseIsOfItsPage(c)' BY <1>1 DEF CloseIsOfItsPage, BrowserInv, Browser!TypeOK
  <1> QED BY <1>1, <1>3, <1>4, <1>5, <1>6

(* What a call does once there is a browser.                                 *)
LEMMA AfterTheBrowser ==
    ASSUME BrowserInv, NEW c \in Visits, NEW pages \in Seq(Browser!PageIds), NEW i \in Nat,
           pages = <<>> \/ i < Len(pages),
           Browser!AfterBrowser(c, pages, i)
    PROVE  /\ \E x \in {"tab", "page", "work"} : stage' = [stage EXCEPT ![c] = x]
           /\ visited' \in [Visits -> 0..MaxPages]
           /\ \A d \in Visits : d # c => visited'[d] = visited[d]
  <1>1. \E x \in {"tab", "page", "work"} : stage' = [stage EXCEPT ![c] = x]
    BY DEF Browser!AfterBrowser, Browser!Awaits
  <1>2. CASE visited' = visited BY <1>1, <1>2 DEF BrowserInv, Browser!TypeOK
  <1>3. CASE visited' = [visited EXCEPT ![c] = pages[i + 1]] /\ pages # <<>>
    <2>1. Len(pages) \in Nat /\ i + 1 \in 1..Len(pages) BY <1>3, LenProperties
    <2>2. pages[i + 1] \in Browser!PageIds BY <2>1, ElementOfSeq
    <2>3. pages[i + 1] \in 0..MaxPages BY <2>2 DEF Browser!PageIds
    <2> QED BY <1>1, <1>3, <2>3 DEF BrowserInv, Browser!TypeOK
  <1> QED BY <1>2, <1>3 DEF Browser!AfterBrowser

(* A page more at the end of the list. *)
LEMMA ListGrows ==
    ASSUME BrowserInv, Browser!BrowserAssumption, NEW c \in Visits, NEW from,
           Browser!Made(c, from)
    PROVE  /\ tabs' \in Seq(Browser!PageIds)
           /\ Len(tabs') = Len(tabs) + 1
           /\ Len(tabs) \in Nat
           /\ tabs' # <<>>
           /\ opened' \in 0..MaxPages /\ alive' \subseteq 1..opened'
           /\ TabsWereOpened' /\ DistinctTabs' /\ Len(tabs') <= MaxPages
           /\ (~overlapped /\ ~crashed => ToSet(tabs) = alive)'
  <1>1. tabs \in Seq(Browser!PageIds) /\ opened \in 0..MaxPages /\ alive \subseteq 1..opened
    BY DEF BrowserInv, Browser!TypeOK
  <1>2. Len(tabs) \in Nat BY <1>1, LenProperties
  <1>3. opened' = opened + 1 /\ opened' \in 1..MaxPages
    BY <1>1 DEF Browser!Made, Browser!BrowserAssumption
  <1>4. tabs' = Append(tabs, opened') /\ opened' \in Browser!PageIds
    BY <1>3 DEF Browser!Made, Browser!PageIds
  <1>5. /\ tabs' \in Seq(Browser!PageIds) /\ tabs' # <<>> /\ Len(tabs') = Len(tabs) + 1
        /\ \A i \in 1..Len(tabs) : tabs'[i] = tabs[i]
        /\ tabs'[Len(tabs) + 1] = opened'
    BY <1>1, <1>4, AppendProperties
  <1>6. \A i \in 1..Len(tabs) : tabs[i] \in Browser!PageIds /\ tabs[i] <= opened
    BY <1>1, ElementOfSeq DEF BrowserInv, TabsWereOpened
  <1>7. \A i \in 1..Len(tabs') : i \in 1..Len(tabs) \/ i = Len(tabs) + 1 BY <1>2, <1>5
  <1>8. TabsWereOpened'
    <2>1. Len(tabs') <= opened' BY <1>1, <1>2, <1>3, <1>5 DEF BrowserInv, TabsWereOpened
    <2>2. \A i \in 1..Len(tabs') : tabs'[i] <= opened'
      BY <1>1, <1>3, <1>5, <1>6, <1>7 DEF Browser!PageIds
    <2> QED BY <2>1, <2>2 DEF TabsWereOpened
  <1>9. DistinctTabs'
    <2> SUFFICES ASSUME NEW i \in 1..Len(tabs'), NEW j \in 1..Len(tabs'), tabs'[i] = tabs'[j]
        PROVE i = j
      BY DEF DistinctTabs
    <2>1. \A k \in 1..Len(tabs) : tabs'[k] # opened'
      BY <1>1, <1>3, <1>5, <1>6 DEF Browser!PageIds
    <2> QED BY <1>5, <1>7, <2>1 DEF BrowserInv, DistinctTabs
  <1>10. alive' = alive \union {opened'} BY DEF Browser!Made
  <1>11. alive' \subseteq 1..opened' BY <1>1, <1>3, <1>10
  <1>12. ~overlapped' /\ ~crashed' => ToSet(tabs') = alive'
    <2>1. ToSet(tabs') = ToSet(tabs) \union {opened'} BY <1>1, <1>4, PageMore
    <2> QED BY <1>10, <2>1, SameLibrary
        DEF BrowserInv, Browser!TabsAreThePages, Browser!Made
  <1>13. Len(tabs') <= MaxPages
    BY <1>3, <1>2, <1>5, <1>8 DEF TabsWereOpened, Browser!BrowserAssumption
  <1> QED BY <1>2, <1>3, <1>5, <1>8, <1>9, <1>11, <1>12, <1>13

(* A step of one call that leaves the tabs as they are. *)
LEMMA TabsStay ==
    ASSUME Browser!BrowserAssumption, BrowserInv, NEW c \in Visits, NEW x \in BrowserAwaits,
           stage' = [stage EXCEPT ![c] = x],
           x = "launch" => browser = 0,
           act' \in [Visits -> Browser!Ask], visited' \in [Visits -> 0..MaxPages],
           \A d \in Visits : d # c => act'[d] = act[d] /\ visited'[d] = visited[d],
           \/ overlapped' = overlapped /\ Browser!Under(c)
           \/ stage[c] = "idle" /\
                 overlapped' = (overlapped \/ \E d \in Visits : Browser!Under(d)),
           CloseIsOfItsPage(c)',
           UNCHANGED <<browser, tabs, alive, opened, crashed>>,
           activeTab' \in 0..MaxPages, tabs = <<>> => activeTab' = 0,
           tabs = <<>> \/ activeTab' < Len(tabs)
    PROVE  BrowserInv'
  <1>1. /\ stage' \in [Visits -> BrowserAwaits] /\ overlapped' \in BOOLEAN
        /\ (~overlapped => \A d, e \in Visits : Browser!Under(d) /\ Browser!Under(e) => d = e)'
        /\ \A d \in Visits : CloseIsOfItsPage(d)'
    BY OneCallMoves
  <1>2. Browser!TypeOK' BY <1>1 DEF BrowserInv, Browser!TypeOK, BrowserAwaits
  <1>3. (browser + Cardinality(LaunchCalls) <= Cardinality(Visits))'
    <2>1. browser \in Nat BY DEF BrowserInv, Browser!TypeOK
    <2>2. /\ Cardinality(LaunchCalls) \in Nat
          /\ Cardinality(LaunchCalls') \in Nat
          /\ Cardinality(Visits) \in Nat
          /\ Cardinality(LaunchCalls') <= Cardinality(Visits)
          /\ x # "launch" => Cardinality(LaunchCalls') <= Cardinality(LaunchCalls)
      BY LaunchesCounted
    <2>3. Cardinality(LaunchCalls)' = Cardinality(LaunchCalls') OBVIOUS
    <2> QED BY <2>1, <2>2, <2>3 DEF BrowserInv
  <1>4. (TabsWereOpened /\ DistinctTabs)' BY DEF BrowserInv, TabsWereOpened, DistinctTabs
  <1>5. Browser!ActiveIsATab' /\ (tabs = <<>> => activeTab = 0)' BY DEF Browser!ActiveIsATab
  <1>6. Browser!TabsAreThePages' BY DEF BrowserInv, Browser!TabsAreThePages, Browser!TypeOK
  <1> QED BY <1>1, <1>2, <1>3, <1>4, <1>5, <1>6 DEF BrowserInv

(* A step of one call that brings a page more. *)
LEMMA TabsGrow ==
    ASSUME Browser!BrowserAssumption, BrowserInv, NEW c \in Visits, NEW from,
           Browser!Made(c, from), Browser!Under(c),
           NEW x \in {"idle", "tab", "page", "work"}, stage' = [stage EXCEPT ![c] = x],
           act' \in [Visits -> Browser!Ask], visited' \in [Visits -> 0..MaxPages],
           \A d \in Visits : d # c => act'[d] = act[d] /\ visited'[d] = visited[d],
           activeTab' \in {0, activeTab, Len(tabs') - 1}
    PROVE  BrowserInv'
  <1>0. stage \in [Visits -> BrowserAwaits] BY DEF BrowserInv, Browser!TypeOK, BrowserAwaits
  <1>1. x \in BrowserAwaits /\ x # "close" /\ x # "launch" /\ stage'[c] = x
    BY <1>0 DEF BrowserAwaits
  <1>2. CloseIsOfItsPage(c)' BY <1>1 DEF CloseIsOfItsPage
  <1>3. UNCHANGED <<browser, overlapped>> BY DEF Browser!Made
  <1>4. /\ stage' \in [Visits -> BrowserAwaits] /\ overlapped' \in BOOLEAN
        /\ (~overlapped => \A d, e \in Visits : Browser!Under(d) /\ Browser!Under(e) => d = e)'
        /\ \A d \in Visits : CloseIsOfItsPage(d)'
    BY <1>1, <1>2, <1>3, OneCallMoves
  <1>5. /\ tabs' \in Seq(Browser!PageIds)
        /\ Len(tabs') = Len(tabs) + 1
        /\ Len(tabs) \in Nat
        /\ tabs' # <<>>
        /\ opened' \in 0..MaxPages /\ alive' \subseteq 1..opened'
        /\ TabsWereOpened' /\ DistinctTabs' /\ Len(tabs') <= MaxPages
        /\ (~overlapped /\ ~crashed => ToSet(tabs) = alive)'
    BY ListGrows
  <1>6. /\ activeTab \in Nat
        /\ (tabs = <<>> => activeTab = 0)
        /\ (tabs = <<>> \/ activeTab < Len(tabs))
    BY DEF BrowserInv, Browser!TypeOK, Browser!ActiveIsATab
  <1>7. tabs = <<>> => Len(tabs) = 0 OBVIOUS
  <1>8. activeTab' \in 0..MaxPages /\ activeTab' < Len(tabs')
    BY <1>5, <1>6, <1>7 DEF Browser!BrowserAssumption
  <1>9. Browser!TypeOK'
    BY <1>3, <1>4, <1>5, <1>8 DEF BrowserInv, Browser!TypeOK, BrowserAwaits, Browser!Made
  <1>10. (browser + Cardinality(LaunchCalls) <= Cardinality(Visits))'
    <2>1. browser \in Nat BY DEF BrowserInv, Browser!TypeOK
    <2>2. /\ Cardinality(LaunchCalls) \in Nat
          /\ Cardinality(LaunchCalls') \in Nat
          /\ Cardinality(Visits) \in Nat
          /\ Cardinality(LaunchCalls') <= Cardinality(LaunchCalls)
      BY <1>1, LaunchesCounted
    <2>3. Cardinality(LaunchCalls)' = Cardinality(LaunchCalls') OBVIOUS
    <2> QED BY <1>3, <2>1, <2>2, <2>3 DEF BrowserInv
  <1>11. Browser!ActiveIsATab' /\ (tabs = <<>> => activeTab = 0)'
    BY <1>5, <1>8 DEF Browser!ActiveIsATab
  <1> QED BY <1>4, <1>5, <1>9, <1>10, <1>11, SameLibrary
      DEF BrowserInv, Browser!TabsAreThePages

(* Every step of a call preserves the invariant, and so does a crash.        *)
LEMMA BrowserStep ==
    ASSUME Browser!BrowserAssumption, BrowserInv, Browser!Next
    PROVE  BrowserInv'
  <1>t. /\ tabs \in Seq(Browser!PageIds) /\ Len(tabs) \in Nat /\ activeTab \in 0..MaxPages
        /\ browser \in 0..Cardinality(Visits) /\ opened \in 0..MaxPages /\ MaxPages \in Nat
        /\ stage \in [Visits -> BrowserAwaits]
    BY LenProperties, SameLibrary
       DEF BrowserInv, Browser!TypeOK, Browser!BrowserAssumption, BrowserAwaits
  <1>o. (tabs = <<>> \/ activeTab < Len(tabs)) /\ (tabs = <<>> => activeTab = 0)
    BY DEF BrowserInv, Browser!ActiveIsATab
  <1>s. act \in [Visits -> Browser!Ask] /\ visited \in [Visits -> 0..MaxPages]
    BY DEF BrowserInv, Browser!TypeOK
  <1>1. ASSUME NEW c \in Visits, NEW kind \in {"use", "new"}, Browser!Open(c, kind)
      PROVE BrowserInv'
    <2>1. UNCHANGED <<browser, tabs, activeTab, alive, opened, crashed>>
      BY <1>1 DEF Browser!Open
    <2>2. [kind |-> kind] \in Browser!Ask BY DEF Browser!Ask
    <2>3. act' \in [Visits -> Browser!Ask] /\ \A d \in Visits : d # c => act'[d] = act[d]
      BY <1>1, <2>2 DEF Browser!Open, BrowserInv, Browser!TypeOK
    <2>4. /\ \E x \in {"launch", "tab", "page", "work"} :
                stage' = [stage EXCEPT ![c] = x] /\ (x = "launch" => browser = 0)
          /\ visited' \in [Visits -> 0..MaxPages]
          /\ \A d \in Visits : d # c => visited'[d] = visited[d]
      <3>1. CASE browser = 0
        <4>1. stage' = [stage EXCEPT ![c] = "launch"] /\ visited' = visited
          BY <1>1, <3>1 DEF Browser!Open, Browser!Awaits
        <4> QED BY <3>1, <4>1 DEF BrowserInv, Browser!TypeOK
      <3>2. CASE browser # 0
        <4>1. Browser!AfterBrowser(c, tabs, activeTab) BY <1>1, <3>2 DEF Browser!Open
        <4> QED BY <1>t, <1>o, <4>1, AfterTheBrowser
      <3> QED BY <3>1, <3>2
    <2>5. PICK x \in {"launch", "tab", "page", "work"} :
          stage' = [stage EXCEPT ![c] = x] /\ (x = "launch" => browser = 0)
      BY <2>4
    <2>6. stage[c] = "idle" /\ overlapped' = (overlapped \/ \E d \in Visits : Browser!Under(d))
      BY <1>1 DEF Browser!Open, Browser!Begin
    <2>7. x \in BrowserAwaits /\ x # "close" /\ stage'[c] = x BY <1>t, <2>5 DEF BrowserAwaits
    <2>8. CloseIsOfItsPage(c)' BY <2>7 DEF CloseIsOfItsPage
    <2> QED BY <1>t, <1>o, <2>1, <2>3, <2>4, <2>5, <2>6, <2>7, <2>8, TabsStay
  <1>2. ASSUME NEW c \in Visits, NEW i \in 0..MaxPages, Browser!SwitchTab(c, i)
      PROVE BrowserInv'
    <2>1. /\ UNCHANGED <<browser, tabs, alive, opened, act, visited, crashed>>
          /\ i < Len(tabs)
          /\ activeTab' = i
          /\ stage' = [stage EXCEPT ![c] = "front"]
      BY <1>2 DEF Browser!SwitchTab, Browser!Awaits
    <2>2. stage[c] = "idle" /\ overlapped' = (overlapped \/ \E d \in Visits : Browser!Under(d))
      BY <1>2 DEF Browser!SwitchTab, Browser!Begin
    <2>3. "front" \in BrowserAwaits /\ stage'[c] = "front" BY <1>t, <2>1 DEF BrowserAwaits
    <2>4. CloseIsOfItsPage(c)' BY <2>3 DEF CloseIsOfItsPage
    <2>5. tabs # <<>> BY <2>1
    <2> QED BY <1>s, <2>1, <2>2, <2>3, <2>4, <2>5, TabsStay
  <1>3. ASSUME NEW c \in Visits, NEW i \in 0..MaxPages, Browser!CloseTab(c, i) PROVE BrowserInv'
    <2>1. UNCHANGED <<browser, tabs, activeTab, alive, opened, crashed>> /\ i < Len(tabs)
          /\ stage' = [stage EXCEPT ![c] = "close"]
          /\ visited' = [visited EXCEPT ![c] = tabs[i + 1]]
          /\ act' = [act EXCEPT ![c] = [kind |-> "close", index |-> i]]
      BY <1>3 DEF Browser!CloseTab, Browser!Awaits
    <2>2. stage[c] = "idle" /\ overlapped' = (overlapped \/ \E d \in Visits : Browser!Under(d))
      BY <1>3 DEF Browser!CloseTab, Browser!Begin
    <2>3. tabs[i + 1] \in 0..MaxPages BY <1>t, <2>1, ElementOfSeq DEF Browser!PageIds
    <2>4. [kind |-> "close", index |-> i] \in Browser!Ask BY DEF Browser!Ask
    <2>5. act' \in [Visits -> Browser!Ask] /\ visited' \in [Visits -> 0..MaxPages]
          /\ \A d \in Visits : d # c => act'[d] = act[d] /\ visited'[d] = visited[d]
      BY <1>s, <2>1, <2>3, <2>4
    <2>6. CloseIsOfItsPage(c)' BY <1>s, <2>1 DEF CloseIsOfItsPage
    <2>7. "close" \in BrowserAwaits BY DEF BrowserAwaits
    <2> QED BY <1>t, <1>o, <2>1, <2>2, <2>5, <2>6, <2>7, TabsStay
  <1>4. ASSUME NEW c \in Visits, Browser!Launched(c) PROVE BrowserInv'
    <2>1. /\ UNCHANGED <<tabs, activeTab, alive, opened, act, visited, overlapped, crashed>>
          /\ browser' = browser + 1
          /\ stage[c] = "launch" /\ stage' = [stage EXCEPT ![c] = "first"]
      BY <1>4 DEF Browser!Launched, Browser!Awaits
    <2>2. "first" \in BrowserAwaits /\ stage'[c] = "first" /\ Browser!Under(c)
      BY <1>t, <2>1 DEF BrowserAwaits, Browser!Under
    <2>3. CloseIsOfItsPage(c)' BY <2>2 DEF CloseIsOfItsPage
    <2>4. /\ stage' \in [Visits -> BrowserAwaits]
          /\ (~overlapped => \A d, e \in Visits : Browser!Under(d) /\ Browser!Under(e) =>
                d = e)'
          /\ \A d \in Visits : CloseIsOfItsPage(d)'
      BY <2>1, <2>2, <2>3, OneCallMoves
    <2>5. /\ Cardinality(LaunchCalls) \in Nat
          /\ Cardinality(LaunchCalls') \in Nat
          /\ Cardinality(Visits) \in Nat
          /\ Cardinality(LaunchCalls') = Cardinality(LaunchCalls) - 1
      BY <2>1, <2>2, LaunchesCounted
    <2>6. Cardinality(LaunchCalls)' = Cardinality(LaunchCalls') OBVIOUS
    <2>7. (browser + Cardinality(LaunchCalls) <= Cardinality(Visits))'
      BY <1>t, <2>1, <2>5, <2>6 DEF BrowserInv
    <2>8. browser' \in 0..Cardinality(Visits) BY <1>t, <2>1, <2>5, <2>6, <2>7
    <2>9. Browser!TypeOK'
      BY <2>1, <2>4, <2>8, SameLibrary DEF BrowserInv, Browser!TypeOK, BrowserAwaits
    <2> QED BY <2>1, <2>4, <2>7, <2>9
        DEF BrowserInv, TabsWereOpened, DistinctTabs, Browser!ActiveIsATab,
            Browser!TabsAreThePages
  <1>5. ASSUME NEW c \in Visits, Browser!FirstPage(c) PROVE BrowserInv'
    <2>1. /\ Browser!Made(c, "first")
          /\ act' = act
          /\ activeTab' = activeTab
          /\ Browser!AfterBrowser(c, tabs', activeTab)
      BY <1>5 DEF Browser!FirstPage
    <2>2. Browser!Under(c) BY <2>1 DEF Browser!Made, Browser!Under
    <2>3. tabs' \in Seq(Browser!PageIds) /\ Len(tabs') = Len(tabs) + 1 /\ tabs' # <<>>
      BY <2>1, ListGrows
    <2>4. activeTab \in Nat /\ activeTab < Len(tabs') BY <1>t, <1>o, <2>3
    <2>5. /\ \E x \in {"tab", "page", "work"} : stage' = [stage EXCEPT ![c] = x]
          /\ visited' \in [Visits -> 0..MaxPages]
          /\ \A d \in Visits : d # c => visited'[d] = visited[d]
      BY <2>1, <2>3, <2>4, AfterTheBrowser
    <2> QED BY <1>s, <2>1, <2>2, <2>5, TabsGrow
  <1>6. ASSUME NEW c \in Visits, Browser!ActivePage(c) PROVE BrowserInv'
    <2>1. /\ Browser!Made(c, "page")
          /\ act' = act
          /\ activeTab' = 0
          /\ stage' = [stage EXCEPT ![c] = "work"]
          /\ visited' = [visited EXCEPT ![c] = tabs'[1]]
      BY <1>6 DEF Browser!ActivePage, Browser!Awaits
    <2>2. Browser!Under(c) BY <2>1 DEF Browser!Made, Browser!Under
    <2>3. tabs' \in Seq(Browser!PageIds) /\ Len(tabs') = Len(tabs) + 1 BY <2>1, ListGrows
    <2>4. tabs'[1] \in 0..MaxPages
      <3>1. PICK t : t = tabs' OBVIOUS
      <3>2. t \in Seq(Browser!PageIds) /\ 1 \in 1..Len(t) BY <1>t, <2>3, <3>1
      <3>3. t[1] \in Browser!PageIds BY <3>2, ElementOfSeq
      <3> QED BY <3>1, <3>3 DEF Browser!PageIds
    <2> QED BY <1>s, <2>1, <2>2, <2>4, TabsGrow
  <1>7. ASSUME NEW c \in Visits, Browser!Tabbed(c) PROVE BrowserInv'
    <2>1. Browser!Made(c, "tab") /\ activeTab' = Len(tabs') - 1 /\ Browser!Ends(c)
      BY <1>7 DEF Browser!Tabbed
    <2>2. Browser!Under(c) BY <2>1 DEF Browser!Made, Browser!Under
    <2>3. /\ stage' = [stage EXCEPT ![c] = "idle"]
          /\ act' \in [Visits -> Browser!Ask] /\ visited' \in [Visits -> 0..MaxPages]
          /\ \A d \in Visits : d # c => act'[d] = act[d] /\ visited'[d] = visited[d]
      BY <2>1, CallEnds
    <2> QED BY <2>1, <2>2, <2>3, TabsGrow
  <1>8. ASSUME NEW c \in Visits, Browser!Closed(c) PROVE BrowserInv'
    <2>1. stage[c] = "close" /\ ~crashed /\ alive' = alive \ {visited[c]} /\ Browser!Ends(c)
          /\ UNCHANGED <<browser, opened, overlapped, crashed>>
      BY <1>8 DEF Browser!Closed
    <2>t. tabs' = IF act[c].index < Len(tabs) THEN RemoveAt(tabs, act[c].index + 1) ELSE tabs
      BY <1>8, SameLibrary DEF Browser!Closed
    <2>a. activeTab' = IF activeTab < Len(tabs') THEN activeTab ELSE IF tabs' =
          <<>> THEN 0 ELSE Len(tabs') - 1
      BY <1>8, Zenon DEF Browser!Closed
    <2>2. Browser!Under(c) /\ "idle" \in BrowserAwaits BY <2>1 DEF Browser!Under, BrowserAwaits
    <2>3. /\ stage' = [stage EXCEPT ![c] = "idle"]
          /\ act' \in [Visits -> Browser!Ask] /\ visited' \in [Visits -> 0..MaxPages]
          /\ \A d \in Visits : d # c => act'[d] = act[d] /\ visited'[d] = visited[d]
          /\ CloseIsOfItsPage(c)'
      BY <2>1, CallEnds
    <2>4. /\ stage' \in [Visits -> BrowserAwaits]
          /\ (~overlapped => \A d, e \in Visits : Browser!Under(d) /\ Browser!Under(e) =>
                d = e)'
          /\ \A d \in Visits : CloseIsOfItsPage(d)'
      BY <2>1, <2>2, <2>3, OneCallMoves
    <2>5. /\ act[c].index \in 0..MaxPages
          /\ (~overlapped => act[c].index < Len(tabs) /\ visited[c] = tabs[act[c].index + 1])
      BY <1>s, <2>1 DEF BrowserInv, CloseIsOfItsPage, Browser!Ask
    <2>6. /\ tabs' \in Seq(Browser!PageIds)
          /\ Len(tabs') \in Nat
          /\ Len(tabs') <= Len(tabs)
          /\ TabsWereOpened'
          /\ DistinctTabs'
          /\ ~overlapped => ToSet(tabs') = ToSet(tabs) \ {visited[c]}
      <3>1. CASE act[c].index < Len(tabs)
        <4>1. PICK i \in 1..Len(tabs) : i = act[c].index + 1 BY <1>t, <2>5, <3>1
        <4>2. tabs' = RemoveAt(tabs, i) BY <2>t, <3>1, <4>1
        <4>3. /\ tabs' \in Seq(Browser!PageIds) /\ Len(tabs') = Len(tabs) - 1
              /\ \A j \in 1..(Len(tabs) - 1) : tabs'[j] = IF j < i THEN tabs[j] ELSE tabs[j + 1]
          BY <1>t, <4>2, TakenOut
        <4>4. \A j \in 1..Len(tabs') : \E k \in 1..Len(tabs) :
              tabs'[j] = tabs[k] /\ k = IF j < i THEN j ELSE j + 1
          BY <1>t, <4>3
        <4>5. TabsWereOpened'
          BY <1>t, <2>1, <4>3, <4>4, SMTT(20) DEF TabsWereOpened, BrowserInv
        <4>6. DistinctTabs'
          <5> SUFFICES ASSUME NEW j \in 1..Len(tabs'), NEW k \in 1..Len(tabs'),
              tabs'[j] = tabs'[k]
              PROVE j = k
            BY DEF DistinctTabs
          <5>1. PICK a \in 1..Len(tabs) : tabs'[j] = tabs[a] /\ a = IF j < i THEN j ELSE j + 1
            BY <4>4
          <5>2. PICK b \in 1..Len(tabs) : tabs'[k] = tabs[b] /\ b = IF k < i THEN k ELSE k + 1
            BY <4>4
          <5>3. a = b BY <5>1, <5>2 DEF BrowserInv, DistinctTabs
          <5>4. j \in Int /\ k \in Int /\ i \in Int BY <4>3
          <5> QED BY <5>1, <5>2, <5>3, <5>4
        <4>7. ~overlapped => ToSet(tabs') = ToSet(tabs) \ {visited[c]}
          BY <1>t, <2>5, <4>1, <4>2, PageLess DEF BrowserInv
        <4> QED BY <1>t, <4>1, <4>3, <4>5, <4>6, <4>7
      <3>2. CASE ~(act[c].index < Len(tabs))
        <4>1. tabs' = tabs BY <2>t, <3>2
        <4>2. overlapped BY <2>5, <3>2
        <4> QED BY <1>t, <2>1, <4>1, <4>2 DEF BrowserInv, TabsWereOpened, DistinctTabs
      <3> QED BY <3>1, <3>2
    <2>7. /\ activeTab' \in 0..MaxPages
          /\ (tabs' = <<>> \/ activeTab' < Len(tabs'))
          /\ (tabs' = <<>> => activeTab' = 0)
      <3>1. tabs' = <<>> => Len(tabs') = 0 OBVIOUS
      <3>2. tabs' # <<>> => Len(tabs') > 0 BY <2>6, EmptySeq
      <3>3. Len(tabs) <= MaxPages BY <1>t DEF BrowserInv, TabsWereOpened
      <3>4. CASE tabs' = <<>>
        <4>1. activeTab' = 0 BY <1>t, <2>a, <3>1, <3>4
        <4> QED BY <1>t, <3>4, <4>1
      <3>5. CASE tabs' # <<>>
        <4>1. activeTab' = IF activeTab < Len(tabs') THEN activeTab ELSE Len(tabs') - 1
          BY <2>a, <3>5
        <4> QED BY <1>t, <2>6, <3>2, <3>3, <3>5, <4>1
      <3> QED BY <3>4, <3>5
    <2>8. Browser!TypeOK'
      <3>1. alive' \subseteq 1..opened' BY <2>1 DEF BrowserInv, Browser!TypeOK
      <3> QED BY <2>1, <2>3, <2>4, <2>6, <2>7, <3>1
          DEF BrowserInv, Browser!TypeOK, BrowserAwaits
    <2>9. (browser + Cardinality(LaunchCalls) <= Cardinality(Visits))'
      <3>1. /\ Cardinality(LaunchCalls) \in Nat
            /\ Cardinality(LaunchCalls') \in Nat
            /\ Cardinality(Visits) \in Nat
            /\ Cardinality(LaunchCalls') <= Cardinality(LaunchCalls)
        BY <2>2, <2>3, LaunchesCounted
      <3>2. Cardinality(LaunchCalls)' = Cardinality(LaunchCalls') OBVIOUS
      <3> QED BY <1>t, <2>1, <3>1, <3>2 DEF BrowserInv
    <2>10. Browser!TabsAreThePages'
      BY <2>1, <2>6, SameLibrary DEF BrowserInv, Browser!TabsAreThePages
    <2> QED BY <2>4, <2>6, <2>7, <2>8, <2>9, <2>10 DEF BrowserInv, Browser!ActiveIsATab
  <1>9. ASSUME NEW c \in Visits, Browser!Works(c) \/ Browser!Rejects(c) PROVE BrowserInv'
    <2>1. /\ Browser!Ends(c)
          /\ Browser!Under(c)
          /\ UNCHANGED <<browser, tabs, activeTab, alive, opened, overlapped, crashed>>
      BY <1>9 DEF Browser!Works, Browser!Rejects, Browser!Under
    <2>2. /\ stage' = [stage EXCEPT ![c] = "idle"]
          /\ act' \in [Visits -> Browser!Ask] /\ visited' \in [Visits -> 0..MaxPages]
          /\ \A d \in Visits : d # c => act'[d] = act[d] /\ visited'[d] = visited[d]
          /\ CloseIsOfItsPage(c)'
      BY <2>1, CallEnds
    <2>3. "idle" \in BrowserAwaits BY DEF BrowserAwaits
    <2> QED BY <1>t, <1>o, <2>1, <2>2, <2>3, TabsStay
  <1>10. CASE Browser!Crash
    <2>1. /\ UNCHANGED <<browser, tabs, activeTab, opened, act, stage, visited, overlapped>>
          /\ crashed' = TRUE
          /\ alive' = {}
      BY <1>10 DEF Browser!Crash
    <2>2. Browser!TypeOK' BY <2>1 DEF BrowserInv, Browser!TypeOK
    <2>3. \A c \in Visits : CloseIsOfItsPage(c)' BY <2>1 DEF BrowserInv, CloseIsOfItsPage
    <2>4. LaunchCalls' = LaunchCalls BY <2>1 DEF LaunchCalls
    <2> QED BY <2>1, <2>2, <2>3, <2>4
        DEF BrowserInv, TabsWereOpened, DistinctTabs, Browser!ActiveIsATab,
            Browser!TabsAreThePages, Browser!Under
  <1> QED BY <1>1, <1>2, <1>3, <1>4, <1>5, <1>6, <1>7, <1>8, <1>9, <1>10 DEF Browser!Next

(* The invariant holds, for any finite number of calls and pages.            *)
LEMMA BrowserInvariance == ASSUME Browser!BrowserAssumption PROVE Browser!Spec => []BrowserInv
  <1>1. Browser!Init => BrowserInv
    <2> SUFFICES ASSUME Browser!Init PROVE BrowserInv OBVIOUS
    <2>1. /\ tabs = <<>>
          /\ Len(tabs) = 0
          /\ tabs \in Seq(Browser!PageIds)
          /\ ToSet(tabs) = {}
          /\ alive = {}
      <3>1. DOMAIN tabs = {} BY DEF Browser!Init
      <3> QED BY <3>1, EmptySeq DEF Browser!Init, ToSet
    <2>2. LaunchCalls = {} /\ Cardinality(LaunchCalls) = 0
      BY FS_EmptySet DEF Browser!Init, LaunchCalls
    <2>3. Cardinality(Visits) \in Nat
      BY FS_CardinalityType, SameLibrary DEF Browser!BrowserAssumption
    <2>4. [kind |-> "none"] \in Browser!Ask BY DEF Browser!Ask
    <2>5. act \in [Visits -> Browser!Ask] /\ stage \in [Visits -> BrowserAwaits]
      BY <2>4 DEF Browser!Init, BrowserAwaits
    <2>6. visited \in [Visits -> 0..MaxPages]
      BY DEF Browser!Init, Browser!None, Browser!BrowserAssumption
    <2>7. /\ activeTab \in 0..MaxPages
          /\ opened \in 0..MaxPages
          /\ browser \in 0..Cardinality(Visits)
      BY <2>3 DEF Browser!Init, Browser!BrowserAssumption
    <2>8. {overlapped, crashed} \subseteq BOOLEAN /\ ~overlapped BY DEF Browser!Init
    <2>9. Browser!TypeOK
      BY <2>1, <2>5, <2>6, <2>7, <2>8, SameLibrary DEF Browser!TypeOK, BrowserAwaits
    <2>10. browser + Cardinality(LaunchCalls) <= Cardinality(Visits)
      BY <2>2, <2>3 DEF Browser!Init
    <2>11. \A c \in Visits : ~Browser!Under(c) /\ CloseIsOfItsPage(c)
      BY DEF Browser!Init, Browser!Under, CloseIsOfItsPage
    <2>12. TabsWereOpened /\ DistinctTabs BY <2>1 DEF Browser!Init, TabsWereOpened, DistinctTabs
    <2> QED BY <2>1, <2>9, <2>10, <2>11, <2>12, SameLibrary
        DEF Browser!Init, BrowserInv, Browser!ActiveIsATab, Browser!TabsAreThePages
  <1>2. BrowserInv /\ [Browser!Next]_(Browser!vars) => BrowserInv'
    <2>1. CASE UNCHANGED Browser!vars
      <3>1. \A c \in Visits : CloseIsOfItsPage(c) => CloseIsOfItsPage(c)'
        BY <2>1 DEF Browser!vars, CloseIsOfItsPage
      <3>2. LaunchCalls' = LaunchCalls BY <2>1 DEF Browser!vars, LaunchCalls
      <3>3. BrowserInv => Browser!TypeOK' BY <2>1 DEF Browser!vars, BrowserInv, Browser!TypeOK
      <3> QED BY <2>1, <3>1, <3>2, <3>3
          DEF Browser!vars, BrowserInv, TabsWereOpened, DistinctTabs, Browser!ActiveIsATab,
              Browser!TabsAreThePages, Browser!Under
    <2> QED BY <2>1, BrowserStep
  <1> QED BY <1>1, <1>2, PTL DEF Browser!Spec

(* Every caller finds an active tab if there is one, and as long as no two    *)
(* calls overlap and no browser dies the tabs are the pages that are open     *)
(* (BrowserCapability.js).                                                   *)
THEOREM TabsStayKept == Browser!Spec => []TabsAreKept
  <1>1. Browser!BrowserAssumption BY ServerAssumption
  <1>2. Browser!Spec => []BrowserInv BY <1>1, BrowserInvariance
  <1>3. BrowserInv => TabsAreKept BY DEF BrowserInv, TabsAreKept
  <1> QED BY <1>2, <1>3, PTL

-----------------------------------------------------------------------------
(* Mind: a turn reads and writes the session, the mood and the personality of *)
(* its user at several awaits, while other turns do.                         *)

(* What a turn that was sent is. *)
SentTurn == [at : Mind!Stages, by : Speakers, seen : SUBSET Turns, emotion :
      Speakers \cup {Undefined}]
(* What a session holds.                                                     *)
ChatMessage == [role : {"user", "model"}, parts : Mind!Texts]

(* Two turns of one user between the reading and the writing of the personality *)
(* have crossed; who adapted before, and crossed none, is in what a turn read.  *)
MindInv ==
    /\ turn \in [Turns -> {Mind!Unsent} \cup SentTurn]
    /\ session \in [Speakers -> Seq(ChatMessage)]
    /\ \A u \in Speakers : Len(session[u]) =< MaxHistory
    /\ felt \in [Speakers -> SUBSET Mind!Texts]
    /\ personality \in [Speakers -> SUBSET Turns]
    /\ machine \in [state : {"idle", "thinking", "emotion"}, emotion :
          Speakers \cup {Undefined}]
    /\ prompt = [k \in Turns |-> prompt[k]]
    /\ \A k \in Turns : prompt[k].emotion \in Speakers \cup {Undefined}
    /\ crossed \subseteq Turns
    /\ \A k \in Turns : turn[k].at \in {"profile", "save", "agents", "stream", "done"} =>
          Mind!Text(k, "user") \in felt[turn[k].by]
    /\ \A k \in Turns : Mind!At(k, "done") => Mind!Text(k, "model") \in felt[turn[k].by]
    /\ \A k \in Turns : Mind!Adapting(k) /\ k \notin crossed => k \in personality[turn[k].by]
    /\ \A k, j \in Turns :
          turn[k].at \in {"profile", "save"} /\ Mind!Adapting(j) /\ turn[j].by = turn[k].by /\
                j \notin crossed =>
             j \in turn[k].seen
    /\ \A k, j \in Turns :
          k # j /\ turn[k].at \in {"profile", "save"} /\ turn[j].at \in {"profile", "save"}
          /\ turn[k].by = turn[j].by => k \in crossed

(* What a session holds after one more message. *)
LEMMA SessionsAreBounded ==
    ASSUME Mind!MindAssumption, NEW s \in Seq(ChatMessage), NEW m \in ChatMessage
    PROVE  /\ Mind!Trim(Append(s, m)) \in Seq(ChatMessage)
           /\ Len(Mind!Trim(Append(s, m))) =< MaxHistory
  <1>1. MaxHistory \in Nat \ {0} BY DEF Mind!MindAssumption
  <1>2. PICK a \in Seq(ChatMessage) : a = Append(s, m) BY AppendProperties
  <1>3. Len(a) \in Nat BY <1>2, LenProperties
  <1>4. CASE Len(a) > MaxHistory
    <2>1. PICK i : i = Len(a) - MaxHistory + 1 OBVIOUS
    <2>a. i \in 1 .. Len(a) BY <1>1, <1>3, <1>4, <2>1
    <2>2. Mind!Trim(a) = SubSeq(a, i, Len(a)) BY <1>4, <2>1 DEF Mind!Trim
    <2>3. /\ SubSeq(a, i, Len(a)) \in Seq(ChatMessage)
          /\ Len(SubSeq(a, i, Len(a))) = Len(a) - i + 1
      <3>1. \A x \in i .. Len(a) : a[x] \in ChatMessage BY <1>2, <1>3, <2>a, ElementOfSeq
      <3> QED BY <1>2, <1>3, <2>a, <3>1, SubSeqProperties
    <2> QED BY <1>1, <1>2, <1>3, <2>1, <2>a, <2>2, <2>3
  <1>5. CASE ~(Len(a) > MaxHistory)
    <2>1. Mind!Trim(a) = a BY <1>5 DEF Mind!Trim
    <2> QED BY <1>1, <1>2, <1>3, <1>5, <2>1
  <1> QED BY <1>4, <1>5

(* A message that is said is in the session of its user. *)
LEMMA MessageIsSaid ==
    ASSUME Mind!MindAssumption, MindInv, NEW u \in Speakers, NEW role \in {"user", "model"},
           NEW k \in Turns,
           Mind!Say(u, role, k)
    PROVE  /\ session' \in [Speakers -> Seq(ChatMessage)]
           /\ \A v \in Speakers : Len(session'[v]) =< MaxHistory
  <1>1. [role |-> role, parts |-> Mind!Text(k, role)] \in ChatMessage
    BY DEF ChatMessage, Mind!Text, Mind!Texts
  <1>2. session \in [Speakers -> Seq(ChatMessage)] /\ \A v \in Speakers :
        Len(session[v]) =< MaxHistory
    BY DEF MindInv
  <1>3. PICK t : t = Mind!Trim(Append(session[u],
        [role |-> role, parts |-> Mind!Text(k, role)]))
    OBVIOUS
  <1>4. t \in Seq(ChatMessage) /\ Len(t) =< MaxHistory BY <1>1, <1>2, <1>3, SessionsAreBounded
  <1>5. session' = [session EXCEPT ![u] = t] BY <1>3 DEF Mind!Say
  <1> QED BY <1>2, <1>4, <1>5

(* Every variable keeps its type.                                            *)
LEMMA MindTypes == MindInv => Mind!TypeOK
  BY DEF MindInv, Mind!TypeOK, SentTurn, ChatMessage

(* A turn that is not sent is none that is.                                  *)
LEMMA UnsentTurn == Mind!Unsent.at = "unsent" /\ Mind!Unsent \notin SentTurn
  BY DEF Mind!Unsent, SentTurn, Mind!Stages

(* A turn goes on: it is of its user, and changes nothing that it has read. *)
LEMMA TurnGoesOn ==
    ASSUME MindInv, NEW k \in Turns, turn[k] \in SentTurn, NEW to \in Mind!Stages,
           Mind!Go(k, to)
    PROVE  /\ turn' \in [Turns -> {Mind!Unsent} \cup SentTurn]
           /\ turn'[k].at = to /\ turn'[k].by = turn[k].by /\ turn'[k].seen = turn[k].seen
           /\ turn'[k].emotion = turn[k].emotion
           /\ \A j \in Turns : j # k => turn'[j] = turn[j]
           /\ \A j \in Turns : turn'[j].by = turn[j].by
  <1>1. turn \in [Turns -> {Mind!Unsent} \cup SentTurn] BY DEF MindInv
  <1>2. PICK t : t = [turn[k] EXCEPT !.at = to] OBVIOUS
  <1>3. /\ t \in SentTurn
        /\ t.at = to
        /\ t.by = turn[k].by
        /\ t.seen = turn[k].seen
        /\ t.emotion = turn[k].emotion
    BY <1>2 DEF SentTurn
  <1>4. turn' = [turn EXCEPT ![k] = t] BY <1>2 DEF Mind!Go
  <1> QED BY <1>1, <1>3, <1>4

(* A turn that has a stage was sent.                                         *)
LEMMA SentTurns == MindInv => \A k \in Turns : turn[k].at # "unsent" => turn[k] \in SentTurn
  BY DEF MindInv, Mind!Unsent

(* The turns after a step, as what the personality and the emotion have of them. *)
TurnsLast ==
    /\ \A k \in Turns : turn[k].at \in {"profile", "save", "agents", "stream", "done"} =>
          Mind!Text(k, "user") \in felt[turn[k].by]
    /\ \A k \in Turns : Mind!At(k, "done") => Mind!Text(k, "model") \in felt[turn[k].by]
    /\ \A k \in Turns : Mind!Adapting(k) /\ k \notin crossed => k \in personality[turn[k].by]
    /\ \A k, j \in Turns :
          turn[k].at \in {"profile", "save"} /\ Mind!Adapting(j) /\ turn[j].by = turn[k].by /\
                j \notin crossed =>
             j \in turn[k].seen
    /\ \A k, j \in Turns :
          k # j /\ turn[k].at \in {"profile", "save"} /\ turn[j].at \in {"profile", "save"}
          /\ turn[k].by = turn[j].by => k \in crossed

(* The invariant after a step, from its parts.                               *)
LEMMA MindAssembled ==
    ASSUME turn' \in [Turns -> {Mind!Unsent} \cup SentTurn],
           session' \in [Speakers -> Seq(ChatMessage)],
           \A u \in Speakers : Len(session'[u]) =< MaxHistory,
           felt' \in [Speakers -> SUBSET Mind!Texts],
           personality' \in [Speakers -> SUBSET Turns],
           machine' \in [state : {"idle", "thinking", "emotion"}, emotion :
                 Speakers \cup {Undefined}],
           prompt' = [k \in Turns |-> prompt'[k]],
           \A k \in Turns : prompt'[k].emotion \in Speakers \cup {Undefined},
           crossed' \subseteq Turns, TurnsLast'
    PROVE  MindInv'
  BY DEF MindInv, TurnsLast

(* A step on which a turn goes to a later stage, or fails, without a reading. *)
LEMMA OnlyTheTurn ==
    ASSUME MindInv, NEW k \in Turns, turn[k] \in SentTurn, NEW to \in Mind!Stages,
           Mind!Go(k, to),
           UNCHANGED <<felt, personality, crossed>>,
           to \in {"profile", "save"} => turn[k].at \in {"profile", "save"},
           to \in {"agents", "stream", "done"} => turn[k].at \in {"agents", "stream", "done"},
           to # "done"
    PROVE  TurnsLast'
  <1>1. /\ turn'[k].at = to /\ turn'[k].by = turn[k].by /\ turn'[k].seen = turn[k].seen
        /\ \A j \in Turns : j # k => turn'[j] = turn[j]
    BY TurnGoesOn
  <1>2. \A j \in Turns : Mind!Adapting(j)' => Mind!Adapting(j) BY <1>1 DEF Mind!Adapting
  <1>3. \A j \in Turns : turn'[j].at \in {"profile", "save"} =>
        turn[j].at \in {"profile", "save"}
    BY <1>1
  <1>4. \A j \in Turns : turn'[j].by = turn[j].by /\ turn'[j].seen = turn[j].seen BY <1>1
  <1>5. \A j \in Turns : Mind!At(j, "done")' => Mind!At(j, "done") BY <1>1 DEF Mind!At
  <1>6. \A j \in Turns : turn'[j].at \in {"profile", "save", "agents", "stream", "done"} =>
            turn[j].at \in {"profile", "save", "agents", "stream", "done"}
    BY <1>1
  <1>7. (\A j \in Turns : turn[j].at \in {"profile", "save", "agents", "stream", "done"} =>
          Mind!Text(j, "user") \in felt[turn[j].by])'
    BY <1>4, <1>6 DEF MindInv, Mind!Text
  <1>8. (\A j \in Turns : Mind!At(j, "done") => Mind!Text(j, "model") \in felt[turn[j].by])'
    BY <1>4, <1>5 DEF MindInv, Mind!Text
  <1>9. (\A j \in Turns : Mind!Adapting(j) /\ j \notin crossed =>
        j \in personality[turn[j].by])'
    BY <1>2, <1>4 DEF MindInv
  <1>10. (\A m, j \in Turns :
          turn[m].at \in {"profile", "save"} /\ Mind!Adapting(j) /\ turn[j].by = turn[m].by /\
                j \notin crossed =>
             j \in turn[m].seen)'
    BY <1>2, <1>3, <1>4 DEF MindInv
  <1>11. (\A m, j \in Turns :
          m # j /\ turn[m].at \in {"profile", "save"} /\ turn[j].at \in {"profile", "save"}
          /\ turn[m].by = turn[j].by => m \in crossed)'
    BY <1>3, <1>4 DEF MindInv
  <1> QED BY <1>7, <1>8, <1>9, <1>10, <1>11 DEF TurnsLast

(* Every step of a turn preserves the invariant.                             *)
LEMMA MindStep == ASSUME Mind!MindAssumption, MindInv, Mind!Next PROVE MindInv'
  <1>t. /\ turn \in [Turns -> {Mind!Unsent} \cup SentTurn]
        /\ session \in [Speakers -> Seq(ChatMessage)]
        /\ \A u \in Speakers : Len(session[u]) =< MaxHistory
        /\ felt \in [Speakers -> SUBSET Mind!Texts]
        /\ personality \in [Speakers -> SUBSET Turns]
        /\ machine \in [state : {"idle", "thinking", "emotion"}, emotion :
              Speakers \cup {Undefined}]
        /\ prompt = [k \in Turns |-> prompt[k]]
        /\ \A k \in Turns : prompt[k].emotion \in Speakers \cup {Undefined}
        /\ crossed \subseteq Turns
    BY DEF MindInv
  <1>l. TurnsLast BY DEF MindInv, TurnsLast
  <1>u. Undefined \notin Speakers BY DEF Mind!MindAssumption
  <1>s. \A k \in Turns : turn[k].at # "unsent" => turn[k] \in SentTurn BY SentTurns
  <1>1. ASSUME NEW k \in Turns, NEW u \in Speakers, Mind!Begin(k, u) PROVE MindInv'
    <2>1. /\ turn[k].at = "unsent"
          /\ UNCHANGED <<felt, personality, prompt, crossed>>
          /\ Mind!Say(u, "user", k)
          /\ turn' = [turn EXCEPT ![k] = [Mind!Unsent EXCEPT !.at = "detect", !.by = u]]
          /\ machine' = [machine EXCEPT !.state = "thinking"]
      BY <1>1 DEF Mind!Begin, Mind!At
    <2>2. PICK t : t = [Mind!Unsent EXCEPT !.at = "detect", !.by = u] OBVIOUS
    <2>3. t \in SentTurn /\ t.at = "detect" BY <2>2 DEF Mind!Unsent, SentTurn, Mind!Stages
    <2>4. /\ turn' \in [Turns -> {Mind!Unsent} \cup SentTurn]
          /\ turn'[k] = t
          /\ \A j \in Turns : j # k => turn'[j] = turn[j]
      BY <1>t, <2>1, <2>2, <2>3
    <2>5. /\ session' \in [Speakers -> Seq(ChatMessage)]
          /\ \A v \in Speakers : Len(session'[v]) =< MaxHistory
      BY <2>1, MessageIsSaid
    <2>6. machine' \in [state : {"idle", "thinking", "emotion"}, emotion :
          Speakers \cup {Undefined}]
      BY <1>t, <2>1
    <2>7. TurnsLast'
      <3>1. \A j \in Turns : turn'[j].at # "detect" => turn'[j] = turn[j] BY <2>3, <2>4
      <3>2. \A j \in Turns : Mind!Adapting(j)' => Mind!Adapting(j) /\ turn'[j] = turn[j]
        BY <3>1 DEF Mind!Adapting
      <3>3. \A j \in Turns : turn'[j].at \in {"profile", "save", "agents", "stream", "done"} =>
            turn'[j] = turn[j]
        BY <3>1
      <3>4. \A j \in Turns : Mind!At(j, "done")' => turn'[j] = turn[j] /\ Mind!At(j, "done")
        BY <3>1 DEF Mind!At
      <3>5. (\A j \in Turns : turn[j].at \in {"profile", "save", "agents", "stream", "done"} =>
              Mind!Text(j, "user") \in felt[turn[j].by])'
        BY <2>1, <3>3 DEF MindInv, Mind!Text
      <3>6. (\A j \in Turns : Mind!At(j, "done") => Mind!Text(j, "model") \in felt[turn[j].by])'
        BY <2>1, <3>4 DEF MindInv, Mind!Text
      <3>7. (\A j \in Turns : Mind!Adapting(j) /\ j \notin crossed =>
            j \in personality[turn[j].by])'
        BY <2>1, <3>2 DEF MindInv
      <3>8. (\A m, j \in Turns :
              turn[m].at \in {"profile", "save"} /\ Mind!Adapting(j) /\
                    turn[j].by = turn[m].by /\ j \notin crossed =>
                 j \in turn[m].seen)'
        BY <2>1, <3>2, <3>3 DEF MindInv
      <3>9. (\A m, j \in Turns :
              m # j /\ turn[m].at \in {"profile", "save"} /\ turn[j].at \in {"profile", "save"}
              /\ turn[m].by = turn[j].by => m \in crossed)'
        BY <2>1, <3>3 DEF MindInv
      <3> QED BY <3>5, <3>6, <3>7, <3>8, <3>9 DEF TurnsLast
    <2> QED BY <1>t, <2>1, <2>4, <2>5, <2>6, <2>7, MindAssembled
  <1>2. ASSUME NEW k \in Turns,
      Mind!Detected(k) \/ Mind!Profiled(k) \/ Mind!AgentsAnswer(k) \/ Mind!Fail(k)
      PROVE MindInv'
    <2>1. /\ UNCHANGED <<session, felt, personality, prompt, crossed>>
          /\ machine' = machine \/ machine' = [machine EXCEPT !.state = "idle"]
      BY <1>2 DEF Mind!Detected, Mind!Profiled, Mind!AgentsAnswer, Mind!Fail
    <2>2. PICK to \in Mind!Stages :
             /\ Mind!Go(k, to) /\ turn[k].at # "unsent" /\ to # "done"
             /\ to \in {"profile", "save"} => turn[k].at \in {"profile", "save"}
             /\ to \in {"agents", "stream"} => turn[k].at \in {"agents", "stream", "done"}
      BY <1>2
         DEF Mind!Detected, Mind!Profiled, Mind!AgentsAnswer, Mind!Fail, Mind!At, Mind!Stages
    <2>3. turn[k] \in SentTurn BY <1>s, <2>2
    <2>4. TurnsLast' BY <2>1, <2>2, <2>3, OnlyTheTurn
    <2>5. turn' \in [Turns -> {Mind!Unsent} \cup SentTurn] BY <2>2, <2>3, TurnGoesOn
    <2>6. machine' \in [state : {"idle", "thinking", "emotion"}, emotion :
          Speakers \cup {Undefined}]
      BY <1>t, <2>1
    <2> QED BY <1>t, <2>1, <2>4, <2>5, <2>6, MindAssembled
  <1>3. ASSUME NEW k \in Turns, Mind!Recalled(k) PROVE MindInv'
    <2>1. turn[k].at = "recall" /\ UNCHANGED <<session, personality, machine, prompt>>
      BY <1>3 DEF Mind!Recalled, Mind!At
    <2>2. turn[k] \in SentTurn BY <1>s, <2>1
    <2>3. PICK u \in Speakers : u = turn[k].by BY <2>2 DEF SentTurn
    <2>4. PICK t : t = [turn[k] EXCEPT !.at = "profile", !.seen = personality[u], !.emotion =
          machine.emotion]
      OBVIOUS
    <2>5. turn' = [turn EXCEPT ![k] = t] BY <1>3, <2>3, <2>4 DEF Mind!Recalled
    <2>6. t \in SentTurn /\ t.at = "profile" /\ t.by = u /\ t.seen = personality[u]
      BY <1>t, <2>2, <2>3, <2>4 DEF SentTurn, Mind!Stages
    <2>7. /\ turn' \in [Turns -> {Mind!Unsent} \cup SentTurn]
          /\ turn'[k] = t
          /\ \A j \in Turns : j # k => turn'[j] = turn[j]
      BY <1>t, <2>5, <2>6
    <2>8. felt' = [felt EXCEPT ![u] = @ \cup {Mind!Text(k, "user")}]
      BY <1>3, <2>3 DEF Mind!Recalled, Mind!Analyze
    <2>9. Mind!Text(k, "user") \in Mind!Texts BY DEF Mind!Text, Mind!Texts
    <2>10. /\ felt' \in [Speakers -> SUBSET Mind!Texts] /\ Mind!Text(k, "user") \in felt'[u]
           /\ \A v \in Speakers : felt[v] \subseteq felt'[v]
      BY <1>t, <2>8, <2>9
    <2>11. PICK others :
          others = {j \in Turns : turn[j].by = u /\ turn[j].at \in {"profile", "save"}}
      OBVIOUS
    <2>12. crossed' = (IF others = {} THEN crossed ELSE crossed \cup others \cup {k})
      BY <1>3, <2>3, <2>11 DEF Mind!Recalled
    <2>13. crossed \subseteq crossed' /\ crossed' \subseteq Turns BY <1>t, <2>11, <2>12
    <2>14. \A j \in others : {j, k} \subseteq crossed' BY <2>12
    <2>15. \A j \in Turns : turn[j].at # "unsent" => turn[j].by \in Speakers
      BY <1>s DEF SentTurn
    <2>16. \A j \in Turns : Mind!Adapting(j)' => Mind!Adapting(j) /\ j # k /\ turn'[j] = turn[j]
      BY <2>6, <2>7 DEF Mind!Adapting
    <2>17. \A j \in Turns : j # k => turn'[j] = turn[j] BY <2>7
    <2>18. (\A j \in Turns : turn[j].at \in {"profile", "save", "agents", "stream", "done"} =>
              Mind!Text(j, "user") \in felt[turn[j].by])'
      <3> SUFFICES ASSUME NEW j \in Turns,
            turn'[j].at \in {"profile", "save", "agents", "stream", "done"}
                   PROVE  Mind!Text(j, "user") \in felt'[turn'[j].by]
        BY DEF Mind!Text
      <3>1. CASE j = k BY <2>6, <2>7, <2>10, <3>1
      <3>2. CASE j # k
        <4>1. Mind!Text(j, "user") \in felt[turn[j].by] /\ turn[j].by \in Speakers
          BY <2>15, <2>17, <3>2 DEF MindInv
        <4> QED BY <2>10, <2>17, <3>2, <4>1
      <3> QED BY <3>1, <3>2
    <2>19. (\A j \in Turns : Mind!At(j, "done") => Mind!Text(j, "model") \in felt[turn[j].by])'
      <3> SUFFICES ASSUME NEW j \in Turns, turn'[j].at = "done"
          PROVE Mind!Text(j, "model") \in felt'[turn'[j].by]
        BY DEF Mind!Text, Mind!At
      <3>1. j # k BY <2>6, <2>7
      <3>2. Mind!Text(j, "model") \in felt[turn[j].by] /\ turn[j].by \in Speakers
        BY <2>15, <2>17, <3>1 DEF MindInv, Mind!At
      <3> QED BY <2>10, <2>17, <3>1, <3>2
    <2>20. (\A j \in Turns : Mind!Adapting(j) /\ j \notin crossed =>
          j \in personality[turn[j].by])'
      BY <2>1, <2>13, <2>16 DEF MindInv
    <2>21. (\A m, j \in Turns :
              turn[m].at \in {"profile", "save"} /\ Mind!Adapting(j) /\
                    turn[j].by = turn[m].by /\ j \notin crossed =>
                 j \in turn[m].seen)'
      <3> SUFFICES ASSUME NEW m \in Turns, NEW j \in Turns,
      turn'[m].at \in {"profile", "save"}, Mind!Adapting(j)',
                          turn'[j].by = turn'[m].by, j \notin crossed'
                   PROVE  j \in turn'[m].seen
        OBVIOUS
      <3>1. Mind!Adapting(j) /\ j \notin crossed /\ turn'[j] = turn[j] BY <2>13, <2>16
      <3>2. CASE m = k BY <2>3, <2>6, <2>7, <3>1, <3>2 DEF MindInv
      <3>3. CASE m # k BY <2>17, <3>1, <3>3 DEF MindInv
      <3> QED BY <3>2, <3>3
    <2>22. (\A m, j \in Turns :
              m # j /\ turn[m].at \in {"profile", "save"} /\ turn[j].at \in {"profile", "save"}
              /\ turn[m].by = turn[j].by => m \in crossed)'
      <3> SUFFICES ASSUME NEW m \in Turns, NEW j \in Turns, m # j,
      turn'[m].at \in {"profile", "save"},
                          turn'[j].at \in {"profile", "save"}, turn'[m].by = turn'[j].by
                   PROVE  m \in crossed'
        OBVIOUS
      <3>1. CASE m = k
        <4>1. j \in others BY <2>6, <2>7, <2>11, <2>17, <3>1
        <4> QED BY <2>14, <3>1, <4>1
      <3>2. CASE j = k
        <4>1. m \in others BY <2>6, <2>7, <2>11, <2>17, <3>2
        <4> QED BY <2>14, <4>1
      <3>3. CASE m # k /\ j # k
        <4>1. m \in crossed BY <2>17, <3>3 DEF MindInv
        <4> QED BY <2>13, <4>1
      <3> QED BY <3>1, <3>2, <3>3
    <2>23. TurnsLast' BY <2>18, <2>19, <2>20, <2>21, <2>22 DEF TurnsLast
    <2> QED BY <1>t, <2>1, <2>7, <2>10, <2>13, <2>23, MindAssembled
  <1>4. ASSUME NEW k \in Turns, Mind!Adapted(k) PROVE MindInv'
    <2>1. turn[k].at = "save" /\ UNCHANGED <<session, felt, machine, crossed>>
      BY <1>4 DEF Mind!Adapted, Mind!At
    <2>2. turn[k] \in SentTurn BY <1>s, <2>1
    <2>3. PICK u \in Speakers : u = turn[k].by BY <2>2 DEF SentTurn
    <2>4. PICK next \in {"agents", "stream"} : Mind!Go(k, next) BY <1>4 DEF Mind!Adapted
    <2>5. next \in Mind!Stages BY <2>4 DEF Mind!Stages
    <2>6. /\ turn' \in [Turns -> {Mind!Unsent} \cup SentTurn]
          /\ turn'[k].at = next /\ turn'[k].by = u /\ turn'[k].seen = turn[k].seen
          /\ \A j \in Turns : j # k => turn'[j] = turn[j]
      BY <2>2, <2>3, <2>4, <2>5, TurnGoesOn
    <2>7. personality' = [personality EXCEPT ![u] = turn[k].seen \cup {k}]
      BY <1>4, <2>3 DEF Mind!Adapted, Mind!Adapt
    <2>8. /\ personality' \in [Speakers -> SUBSET Turns]
          /\ personality'[u] = turn[k].seen \cup {k}
          /\ \A v \in Speakers : v # u => personality'[v] = personality[v]
      BY <1>t, <2>2, <2>7 DEF SentTurn
    <2>9. /\ prompt' = [j \in Turns |-> prompt'[j]]
          /\ \A j \in Turns : prompt'[j].emotion \in Speakers \cup {Undefined}
      <3>1. turn[k].emotion \in Speakers \cup {Undefined} BY <2>2 DEF SentTurn
      <3>2. PICK p : p = [emotion |-> turn[k].emotion, history |-> session[turn[k].by],
                          shown |-> [i \in DOMAIN session[turn[k].by] |-> Mind!Line(session[turn[k].by][i])]]
        OBVIOUS
      <3>3. prompt' = [prompt EXCEPT ![k] = p] BY <1>4, <3>2 DEF Mind!Adapted
      <3>4. p.emotion = turn[k].emotion BY <3>2
      <3>5. prompt' = [j \in Turns |-> IF j = k THEN p ELSE prompt[j]] BY <1>t, <3>3
      <3> QED BY <1>t, <3>1, <3>4, <3>5
    <2>10. \A j \in Turns : turn[j].at # "unsent" => turn[j].by \in Speakers
      BY <1>s DEF SentTurn
    <2>11. \A j \in Turns : j # k /\ turn[j].at \in {"profile", "save"} /\ turn[j].by = u =>
          k \in crossed /\ j \in crossed
      BY <2>1, <2>3 DEF MindInv
    <2>12. \A j \in Turns : j # k /\ Mind!Adapting(j) /\ turn[j].by = u /\ j \notin crossed =>
          j \in turn[k].seen
      BY <2>1, <2>3 DEF MindInv
    <2>13. \A j \in Turns : j # k =>
          turn'[j] = turn[j] /\ (Mind!Adapting(j)' <=> Mind!Adapting(j))
      BY <2>6 DEF Mind!Adapting
    <2>14. (\A j \in Turns : turn[j].at \in {"profile", "save", "agents", "stream", "done"} =>
              Mind!Text(j, "user") \in felt[turn[j].by])'
      <3> SUFFICES ASSUME NEW j \in Turns,
            turn'[j].at \in {"profile", "save", "agents", "stream", "done"}
                   PROVE  Mind!Text(j, "user") \in felt[turn'[j].by]
        BY <2>1 DEF Mind!Text
      <3>1. CASE j = k BY <2>1, <2>3, <2>6, <3>1 DEF MindInv
      <3>2. CASE j # k BY <2>13, <3>2 DEF MindInv
      <3> QED BY <3>1, <3>2
    <2>15. (\A j \in Turns : Mind!At(j, "done") => Mind!Text(j, "model") \in felt[turn[j].by])'
      <3> SUFFICES ASSUME NEW j \in Turns, turn'[j].at = "done"
          PROVE Mind!Text(j, "model") \in felt[turn'[j].by]
        BY <2>1 DEF Mind!Text, Mind!At
      <3>1. j # k BY <2>4, <2>6
      <3> QED BY <2>13, <3>1 DEF MindInv, Mind!At
    <2>16. (\A j \in Turns : Mind!Adapting(j) /\ j \notin crossed =>
          j \in personality[turn[j].by])'
      <3> SUFFICES ASSUME NEW j \in Turns, Mind!Adapting(j)', j \notin crossed
          PROVE j \in personality'[turn'[j].by]
        BY <2>1
      <3>1. CASE j = k BY <2>6, <2>8, <3>1
      <3>2. CASE j # k /\ turn[j].by = u BY <2>8, <2>12, <2>13, <3>2
      <3>3. CASE j # k /\ turn[j].by # u
        <4>1. Mind!Adapting(j) /\ turn'[j] = turn[j] BY <2>13, <3>3
        <4>2. j \in personality[turn[j].by] BY <4>1 DEF MindInv
        <4>3. turn[j].by \in Speakers BY <2>10, <4>1 DEF Mind!Adapting
        <4> QED BY <2>8, <3>3, <4>1, <4>2, <4>3
      <3> QED BY <3>1, <3>2, <3>3
    <2>17. (\A m, j \in Turns :
              turn[m].at \in {"profile", "save"} /\ Mind!Adapting(j) /\
                    turn[j].by = turn[m].by /\ j \notin crossed =>
                 j \in turn[m].seen)'
      <3> SUFFICES ASSUME NEW m \in Turns, NEW j \in Turns,
      turn'[m].at \in {"profile", "save"}, Mind!Adapting(j)',
                          turn'[j].by = turn'[m].by, j \notin crossed
                   PROVE  j \in turn'[m].seen
        BY <2>1
      <3>1. m # k BY <2>4, <2>6
      <3>2. turn'[m] = turn[m] BY <2>13, <3>1
      <3>3. CASE j = k BY <2>6, <2>11, <3>1, <3>2, <3>3
      <3>4. CASE j # k BY <2>13, <3>2, <3>4 DEF MindInv
      <3> QED BY <3>3, <3>4
    <2>18. (\A m, j \in Turns :
              m # j /\ turn[m].at \in {"profile", "save"} /\ turn[j].at \in {"profile", "save"}
              /\ turn[m].by = turn[j].by => m \in crossed)'
      <3>1. \A j \in Turns : turn'[j].at \in {"profile", "save"} => turn'[j] = turn[j]
        BY <2>4, <2>6, <2>13
      <3> QED BY <2>1, <3>1 DEF MindInv
    <2>19. TurnsLast' BY <2>14, <2>15, <2>16, <2>17, <2>18 DEF TurnsLast
    <2> QED BY <1>t, <2>1, <2>6, <2>8, <2>9, <2>19, MindAssembled
  <1>5. ASSUME NEW k \in Turns, Mind!Complete(k) PROVE MindInv'
    <2>1. /\ turn[k].at = "stream"
          /\ UNCHANGED <<personality, prompt, crossed>>
          /\ Mind!Go(k, "done")
          /\ Mind!Say(turn[k].by, "model", k) /\ Mind!Analyze(turn[k].by, "model", k)
          /\ machine' = [state |-> "emotion", emotion |-> turn[k].by]
      BY <1>5 DEF Mind!Complete, Mind!At
    <2>2. turn[k] \in SentTurn BY <1>s, <2>1
    <2>3. PICK u \in Speakers : u = turn[k].by BY <2>2 DEF SentTurn
    <2>4. "done" \in Mind!Stages BY DEF Mind!Stages
    <2>5. /\ turn' \in [Turns -> {Mind!Unsent} \cup SentTurn]
          /\ turn'[k].at = "done" /\ turn'[k].by = u
          /\ \A j \in Turns : j # k => turn'[j] = turn[j]
      BY <2>1, <2>2, <2>3, <2>4, TurnGoesOn
    <2>6. /\ session' \in [Speakers -> Seq(ChatMessage)]
          /\ \A v \in Speakers : Len(session'[v]) =< MaxHistory
      BY <2>1, <2>3, MessageIsSaid
    <2>7. felt' = [felt EXCEPT ![u] = @ \cup {Mind!Text(k, "model")}]
      BY <2>1, <2>3 DEF Mind!Analyze
    <2>8. Mind!Text(k, "model") \in Mind!Texts BY DEF Mind!Text, Mind!Texts
    <2>9. /\ felt' \in [Speakers -> SUBSET Mind!Texts] /\ Mind!Text(k, "model") \in felt'[u]
          /\ \A v \in Speakers : felt[v] \subseteq felt'[v]
      BY <1>t, <2>7, <2>8
    <2>10. machine' \in [state : {"idle", "thinking", "emotion"}, emotion :
          Speakers \cup {Undefined}]
      BY <2>1, <2>3
    <2>11. \A j \in Turns : turn[j].at # "unsent" => turn[j].by \in Speakers
      BY <1>s DEF SentTurn
    <2>a. \A j \in Turns : turn'[j].by = turn[j].by BY <2>3, <2>5
    <2>b. \A j \in Turns : Mind!Adapting(j)' => Mind!Adapting(j)
      <3>1. \A j \in Turns : j # k => (Mind!Adapting(j)' <=> Mind!Adapting(j))
        BY <2>5 DEF Mind!Adapting
      <3>2. Mind!Adapting(k) BY <1>u, <2>1, <2>3 DEF Mind!Adapting
      <3> QED BY <3>1, <3>2
    <2>c. \A j \in Turns : turn'[j].at \in {"profile", "save"} => turn'[j] = turn[j] BY <2>5
    <2>13. (\A j \in Turns : turn[j].at \in {"profile", "save", "agents", "stream", "done"} =>
              Mind!Text(j, "user") \in felt[turn[j].by])'
      <3> SUFFICES ASSUME NEW j \in Turns,
            turn'[j].at \in {"profile", "save", "agents", "stream", "done"}
                   PROVE  Mind!Text(j, "user") \in felt'[turn'[j].by]
        BY DEF Mind!Text
      <3>1. turn[j].at \in {"profile", "save", "agents", "stream", "done"} BY <2>1, <2>5
      <3>2. Mind!Text(j, "user") \in felt[turn[j].by] /\ turn[j].by \in Speakers
        BY <1>l, <2>11, <3>1 DEF TurnsLast
      <3> QED BY <2>9, <2>a, <3>2
    <2>14. (\A j \in Turns : Mind!At(j, "done") => Mind!Text(j, "model") \in felt[turn[j].by])'
      <3> SUFFICES ASSUME NEW j \in Turns, turn'[j].at = "done"
          PROVE Mind!Text(j, "model") \in felt'[turn'[j].by]
        BY DEF Mind!Text, Mind!At
      <3>1. CASE j = k BY <2>5, <2>9, <3>1
      <3>2. CASE j # k
        <4>1. Mind!Text(j, "model") \in felt[turn[j].by] /\ turn[j].by \in Speakers
          BY <1>l, <2>5, <2>11, <3>2 DEF TurnsLast, Mind!At
        <4> QED BY <2>9, <2>a, <4>1
      <3> QED BY <3>1, <3>2
    <2>15. (\A j \in Turns : Mind!Adapting(j) /\ j \notin crossed =>
          j \in personality[turn[j].by])'
      BY <1>l, <2>1, <2>a, <2>b, <2>c DEF TurnsLast
    <2>16. (\A m, j \in Turns :
              turn[m].at \in {"profile", "save"} /\ Mind!Adapting(j) /\
                    turn[j].by = turn[m].by /\ j \notin crossed =>
                 j \in turn[m].seen)'
      BY <1>l, <2>1, <2>a, <2>b, <2>c DEF TurnsLast
    <2>17. (\A m, j \in Turns :
              m # j /\ turn[m].at \in {"profile", "save"} /\ turn[j].at \in {"profile", "save"}
              /\ turn[m].by = turn[j].by => m \in crossed)'
      BY <1>l, <2>1, <2>a, <2>b, <2>c DEF TurnsLast
    <2>18. TurnsLast' BY <2>13, <2>14, <2>15, <2>16, <2>17 DEF TurnsLast
    <2> QED BY <1>t, <2>1, <2>5, <2>6, <2>9, <2>10, <2>18, MindAssembled
  <1> QED BY <1>1, <1>2, <1>3, <1>4, <1>5 DEF Mind!Next

(* The invariant holds, for any speakers, turns and length of the history.   *)
LEMMA MindInvariance == ASSUME Mind!MindAssumption PROVE Mind!Spec => []MindInv
  <1>1. Mind!Init => MindInv
    <2> SUFFICES ASSUME Mind!Init PROVE MindInv OBVIOUS
    <2>1. MaxHistory \in Nat BY DEF Mind!MindAssumption
    <2>2. /\ turn \in [Turns -> {Mind!Unsent} \cup SentTurn]
          /\ session \in [Speakers -> Seq(ChatMessage)]
          /\ \A u \in Speakers : Len(session[u]) =< MaxHistory
      BY <2>1 DEF Mind!Init
    <2>3. /\ felt \in [Speakers -> SUBSET Mind!Texts]
          /\ personality \in [Speakers -> SUBSET Turns]
          /\ crossed \subseteq Turns
      BY DEF Mind!Init
    <2>4. machine \in [state : {"idle", "thinking", "emotion"}, emotion :
          Speakers \cup {Undefined}]
      BY DEF Mind!Init
    <2>5. /\ prompt = [k \in Turns |-> prompt[k]]
          /\ \A k \in Turns : prompt[k].emotion \in Speakers \cup {Undefined}
      BY DEF Mind!Init, Mind!NoPrompt
    <2>6. \A k \in Turns : turn[k].at = "unsent" BY DEF Mind!Init, Mind!Unsent
    <2>7. \A k \in Turns : ~Mind!Adapting(k) /\ ~Mind!At(k, "done")
      BY <2>6 DEF Mind!Adapting, Mind!At
    <2> QED BY <2>2, <2>3, <2>4, <2>5, <2>6, <2>7 DEF MindInv
  <1>2. MindInv /\ [Mind!Next]_(Mind!vars) => MindInv'
    <2> SUFFICES ASSUME MindInv, [Mind!Next]_(Mind!vars) PROVE MindInv' OBVIOUS
    <2>1. CASE UNCHANGED Mind!vars
      BY <2>1 DEF Mind!vars, MindInv, Mind!Adapting, Mind!At, Mind!Text
    <2> QED BY <2>1, MindStep
  <1> QED BY <1>1, <1>2, PTL DEF Mind!Spec

(* A turn that is done was felt, and its adaptation is in the personality     *)
(* unless it crossed another.                                                *)
LEMMA AdaptationsLast == MindInv => Mind!AdaptationsAreKept
  <1> SUFFICES ASSUME MindInv PROVE Mind!AdaptationsAreKept OBVIOUS
  <1>1. ASSUME NEW k \in Turns, Mind!At(k, "done")
      PROVE Mind!Texts \cap ({"user", "model"} \X {k}) \subseteq felt[turn[k].by]
    <2>1. Mind!Text(k, "user") \in felt[turn[k].by] /\
          Mind!Text(k, "model") \in felt[turn[k].by]
      BY <1>1 DEF MindInv, Mind!At
    <2>2. \A x \in {"user", "model"} \X {k} :
          x = Mind!Text(k, "user") \/ x = Mind!Text(k, "model")
      BY DEF Mind!Text
    <2> QED BY <2>1, <2>2
  <1> QED BY <1>1 DEF MindInv, Mind!AdaptationsAreKept

-----------------------------------------------------------------------------
(* Emotion: how far the axes can still be from their rest after a number of  *)
(* decays.                                                                   *)

(* How far from its rest joy can be after so many decays, from 0 on. *)
JoyAbove == <<500, 475, 451, 428, 406, 385, 365, 346, 328, 311, 295, 280, 266, 252, 239, 227,
      215, 204, 193, 183,
          173, 164, 155, 147, 139>>

(* A decay takes a twentieth off the distance, rounded to the next number.   *)
LEMMA JoysFade ==
    \A n \in 1 .. 24 : 950 * JoyAbove[n] =< 1000 * JoyAbove[n + 1] + 999
  BY DEF JoyAbove

LEMMA JoyEnds == JoyAbove[1] = 500 /\ JoyAbove[25] = 139
  BY DEF JoyAbove

LEMMA JoysAre == \A n \in 1 .. 25 : JoyAbove[n] \in 139 .. 500
  BY DEF JoyAbove

(* A quotient that is rounded up.                                            *)
LEMMA DivUp == \A p \in Nat : (p + 999) \div 1000 \in Nat /\ 1000 * ((p + 999) \div 1000) >= p
                              /\ 1000 * ((p + 999) \div 1000) =< p + 999
  OBVIOUS

(* Values of an axis, and of the mood. *)
Scale == 0 .. 1000
Balance == -1000 .. 1000
Rates == 1 .. 1000

(* A step from v towards its rest ends at w. *)
StepsTo(v, aim, rate, w) ==
    /\ w \in Int
    /\ v > aim => /\ aim =< w /\ w =< v
                   /\ 1000 * (w - aim) =< 1000 * (v - aim) - (v - aim) * rate
    /\ v =< aim => /\ v =< w /\ w =< aim
                    /\ 1000 * (aim - w) =< 1000 * (aim - v) - (aim - v) * rate

(* A step towards the rest does not pass it, and takes its part of the way.  *)
LEMMA TowardsNears ==
    ASSUME NEW v \in Int, NEW aim \in Int, NEW rate \in Rates
    PROVE  StepsTo(v, aim, rate, Emotion!Towards(v, aim, rate))
  <1>1. CASE v > aim
    <2>1. PICK p : p = (v - aim) * rate OBVIOUS
    <2>2. p \in Nat /\ p =< (v - aim) * 1000
      <3>1. PICK d \in Nat : d = v - aim /\ d > 0 BY <1>1
      <3>2. d * rate \in Nat /\ d * rate =< d * 1000 BY DEF Rates
      <3> QED BY <2>1, <3>1, <3>2
    <2>3. PICK q \in Nat : q = (p + 999) \div 1000 /\ 1000 * q >= p /\ 1000 * q =< p + 999
      BY <2>2, DivUp
    <2>4. Emotion!Towards(v, aim, rate) = v - q BY <1>1, <2>1, <2>3 DEF Emotion!Towards
    <2>5. PICK w : w = v - q OBVIOUS
    <2>6. StepsTo(v, aim, rate, w) BY <1>1, <2>1, <2>2, <2>3, <2>5 DEF StepsTo, Rates
    <2> QED BY <2>4, <2>5, <2>6
  <1>2. CASE v =< aim
    <2>1. PICK p : p = (aim - v) * rate OBVIOUS
    <2>2. p \in Nat /\ p =< (aim - v) * 1000
      <3>1. PICK d \in Nat : d = aim - v BY <1>2
      <3>2. d * rate \in Nat /\ d * rate =< d * 1000 BY DEF Rates
      <3> QED BY <2>1, <3>1, <3>2
    <2>3. PICK q \in Nat : q = (p + 999) \div 1000 /\ 1000 * q >= p /\ 1000 * q =< p + 999
      BY <2>2, DivUp
    <2>4. Emotion!Towards(v, aim, rate) = v + q BY <1>2, <2>1, <2>3 DEF Emotion!Towards
    <2>5. PICK w : w = v + q OBVIOUS
    <2>6. StepsTo(v, aim, rate, w) BY <1>2, <2>1, <2>2, <2>3, <2>5 DEF StepsTo, Rates
    <2> QED BY <2>4, <2>5, <2>6
  <1> QED BY <1>1, <1>2

(* Where the axes can be after n decays. *)
JoyBy(v, n) == v =< 650 \/ (n < 25 /\ v - 500 =< JoyAbove[n + 1])
StressBy(v, n) == v =< 300 \/ v =< 1000 - 30 * n
CuriosityBy(v, n) == v =< 700 \/ v =< 1000 - 30 * n
FocusBy(v, n) == v =< 700 \/ v =< 1000 - 25 * n
MoodBy(v, n) == v >= -400 \/ v >= 30 * n - 1000 \/ v >= 20 * n - 860

(* Where all of them can be.                                                 *)
CalmBy(s, n) ==
    /\ JoyBy(s.joy, n) /\ StressBy(s.stress, n) /\ CuriosityBy(s.curiosity, n)
    /\ FocusBy(s.focus, n) /\ MoodBy(s.mood, n)

(* The axes are on their scales.                                             *)
Scaled(s) ==
    /\ s.joy \in Scale /\ s.stress \in Scale /\ s.curiosity \in Scale /\ s.focus \in Scale
    /\ s.energy \in Scale /\ s.mood \in Balance

(* The axes keep their types, and are where so many decays have taken them.  *)
EmotionInv ==
    /\ Emotion!TypeOK
    /\ state = [axis \in Emotion!Axes |-> state[axis]]
    /\ CalmBy(state, calm)

(* Every axis has its scale.                                                 *)
Reach(axis) == Emotion!Low(axis) .. 1000

LEMMA ScaleOf ==
    ASSUME NEW axis \in Emotion!Axes \ {"mood"}, NEW v \in Reach(axis)
    PROVE  v \in Scale
  <1>1. Emotion!Low(axis) = 0 BY DEF Emotion!Low
  <1> QED BY <1>1 DEF Scale, Reach

LEMMA BalanceOf == ASSUME NEW v \in Reach("mood") PROVE v \in Balance
  <1>1. Emotion!Low("mood") = -1000 BY DEF Emotion!Low
  <1> QED BY <1>1 DEF Balance, Reach

LEMMA ScaledValues ==
    ASSUME NEW s, \A axis \in Emotion!Axes : s[axis] \in Reach(axis)
    PROVE  Scaled(s)
  <1>a. {"joy", "stress", "curiosity", "focus", "energy"} \subseteq Emotion!Axes \ {"mood"}
    BY DEF Emotion!Axes
  <1>c. ASSUME NEW axis \in Emotion!Axes \ {"mood"} PROVE s[axis] \in Scale
    BY ScaleOf, Zenon
  <1>1. s.joy \in Scale BY <1>a, <1>c, Zenon
  <1>2. s.stress \in Scale BY <1>a, <1>c, Zenon
  <1>3. s.curiosity \in Scale BY <1>a, <1>c, Zenon
  <1>4. s.focus \in Scale BY <1>a, <1>c, Zenon
  <1>5. s.energy \in Scale BY <1>a, <1>c, Zenon
  <1>6. s.mood \in Balance
    <2>1. "mood" \in Emotion!Axes BY DEF Emotion!Axes
    <2> QED BY <2>1, BalanceOf, Zenon
  <1> QED BY <1>1, <1>2, <1>3, <1>4, <1>5, <1>6 DEF Scaled

(* Values at which the emotion is neutral. *)
IsAtMost(v, most) == v \in Int /\ v =< most
IsAtLeast(v, least) == v \in Int /\ v >= least

(* After 24 decays no axis is where an emotion other than neutral begins.    *)
LEMMA JoyRests == \A v \in Scale : \A n \in Nat : n >= 24 /\ JoyBy(v, n) => IsAtMost(v, 650)
  <1> SUFFICES ASSUME NEW v \in Scale, NEW n \in Nat, n >= 24, JoyBy(v, n)
      PROVE IsAtMost(v, 650) OBVIOUS
  <1>0. v \in Int BY DEF Scale
  <1>1. CASE n = 24
    <2>1. n + 1 = 25 BY <1>1
    <2>2. JoyAbove[n + 1] = 139
      <3>1. JoyAbove[n + 1] = JoyAbove[25] BY <2>1
      <3> QED BY <3>1, JoyEnds
    <2> QED BY <1>0, <2>2 DEF JoyBy, IsAtMost
  <1>2. CASE n > 24 BY <1>0, <1>2 DEF JoyBy, IsAtMost
  <1> QED BY <1>1, <1>2

LEMMA OthersRest ==
    \A v \in Scale : \A n \in Nat : n >= 24 =>
        /\ StressBy(v, n) => IsAtMost(v, 300)
        /\ CuriosityBy(v, n) => IsAtMost(v, 700)
        /\ FocusBy(v, n) => IsAtMost(v, 700)
  BY DEF StressBy, CuriosityBy, FocusBy, IsAtMost, Scale

LEMMA MoodRests == \A v \in Balance : \A n \in Nat : n >= 24 /\ MoodBy(v, n) =>
      IsAtLeast(v, -400)
  BY DEF MoodBy, IsAtLeast, Balance

(* There the emotion is neutral.                                             *)
LEMMA IsNeutral ==
    ASSUME NEW s, IsAtMost(s.joy, 650), IsAtMost(s.stress, 300), IsAtMost(s.curiosity, 700),
           IsAtMost(s.focus, 700),
           IsAtLeast(s.mood, -400)
    PROVE  Emotion!Primary(s) = "neutral"
  BY DEF Emotion!Primary, IsAtMost, IsAtLeast

(* After 24 decays the emotion is neutral.                                   *)
LEMMA CalmInTime == ASSUME Emotion!EmotionAssumption, EmotionInv PROVE Emotion!CalmsDown
  <1> SUFFICES ASSUME calm >= 24
      PROVE Emotion!Primary(state) = "neutral"
        BY DEF Emotion!CalmsDown
  <1>1. calm \in Nat BY DEF EmotionInv, Emotion!TypeOK, Emotion!EmotionAssumption
  <1>2. Scaled(state)
    <2>1. \A axis \in Emotion!Axes : state[axis] \in Reach(axis)
      BY DEF EmotionInv, Emotion!TypeOK, Reach
    <2> QED BY <2>1, ScaledValues, Zenon
  <1>3. CalmBy(state, calm) BY DEF EmotionInv
  <1>4. IsAtMost(state.joy, 650) BY <1>1, <1>2, <1>3, JoyRests DEF Scaled, CalmBy
  <1>5. IsAtMost(state.stress, 300) BY <1>1, <1>2, <1>3, OthersRest DEF Scaled, CalmBy
  <1>6. IsAtMost(state.curiosity, 700) BY <1>1, <1>2, <1>3, OthersRest DEF Scaled, CalmBy
  <1>7. IsAtMost(state.focus, 700) BY <1>1, <1>2, <1>3, OthersRest DEF Scaled, CalmBy
  <1>8. IsAtLeast(state.mood, -400) BY <1>1, <1>2, <1>3, MoodRests DEF Scaled, CalmBy
  <1> QED BY <1>4, <1>5, <1>6, <1>7, <1>8, IsNeutral

(* Whatever the axes, one of the emotions is the primary one.                *)
LEMMA PrimaryOfScaled ==
    ASSUME NEW s, Scaled(s)
    PROVE  Emotion!Primary(s) \in {"anxious", "excited", "happy", "sad", "angry", "curious",
          "focused",
                           "confused", "neutral"}
  <1>0. \A v \in Scale : v \in Int BY DEF Scale
  <1>1. s.joy \in Int BY <1>0 DEF Scaled
  <1>2. s.stress \in Int BY <1>0 DEF Scaled
  <1>3. s.curiosity \in Int BY <1>0 DEF Scaled
  <1>4. s.focus \in Int BY <1>0 DEF Scaled
  <1>5. s.energy \in Int BY <1>0 DEF Scaled
  <1>6. s.mood \in Int
    <2>1. \A v \in Balance : v \in Int BY DEF Balance
    <2> QED BY <2>1 DEF Scaled
  <1> QED BY <1>1, <1>2, <1>3, <1>4, <1>5, <1>6 DEF Emotion!Primary

(* One axis that moves stays on its scale. *)
LEMMA ClampsAreScaled == \A axis, v : v \in Int =>
      Emotion!Clamp(axis, v) \in Emotion!Low(axis) .. 1000
  BY DEF Emotion!Clamp, Emotion!Low

(* A text moves each axis by a number. *)
LEMMA TextMoves ==
    ASSUME Emotion!EmotionAssumption, NEW words \in SUBSET Words, NEW cue \in Cues,
           NEW axis \in Emotion!Axes
    PROVE  Emotion!Delta(words, cue, axis) \in Int
  <1>1. ASSUME NEW w \in Words PROVE Emotion!Of(w, axis) \in Int
    <2>1. w \in {"excited", "sad", "angry", "scared", "confused", "love"}
      BY DEF Emotion!EmotionAssumption
    <2>2. CASE w = "excited"
      <3>1. Emotion!Keyword[w] = [joy |-> 200, energy |-> 200, curiosity |-> 100, mood |-> 180]
        BY <2>2 DEF Emotion!Keyword
      <3>2. \A a \in DOMAIN Emotion!Keyword[w] : Emotion!Keyword[w][a] \in Int BY <3>1
      <3> QED BY <3>2 DEF Emotion!Of
    <2>3. CASE w = "sad"
      <3>1. Emotion!Keyword[w] = [joy |-> -200, mood |-> -250, stress |-> 100, energy |-> -100]
        BY <2>3 DEF Emotion!Keyword
      <3>2. \A a \in DOMAIN Emotion!Keyword[w] : Emotion!Keyword[w][a] \in Int BY <3>1
      <3> QED BY <3>2 DEF Emotion!Of
    <2>4. CASE w = "angry"
      <3>1. Emotion!Keyword[w] =
            [stress |-> 300, mood |-> -300, energy |-> 100, confidence |-> -100]
        BY <2>4 DEF Emotion!Keyword
      <3>2. \A a \in DOMAIN Emotion!Keyword[w] : Emotion!Keyword[w][a] \in Int BY <3>1
      <3> QED BY <3>2 DEF Emotion!Of
    <2>5. CASE w = "scared"
      <3>1. Emotion!Keyword[w] =
            [stress |-> 250, confidence |-> -150, focus |-> -100, mood |-> -150]
        BY <2>5 DEF Emotion!Keyword
      <3>2. \A a \in DOMAIN Emotion!Keyword[w] : Emotion!Keyword[w][a] \in Int BY <3>1
      <3> QED BY <3>2 DEF Emotion!Of
    <2>6. CASE w = "confused"
      <3>1. Emotion!Keyword[w] =
            [focus |-> -200, curiosity |-> 100, stress |-> 80, confidence |-> -100]
        BY <2>6 DEF Emotion!Keyword
      <3>2. \A a \in DOMAIN Emotion!Keyword[w] : Emotion!Keyword[w][a] \in Int BY <3>1
      <3> QED BY <3>2 DEF Emotion!Of
    <2>7. CASE w = "love"
      <3>1. Emotion!Keyword[w] = [joy |-> 120, attachment |-> 80, trust |-> 50, mood |-> 150]
        BY <2>7 DEF Emotion!Keyword
      <3>2. \A a \in DOMAIN Emotion!Keyword[w] : Emotion!Keyword[w][a] \in Int BY <3>1
      <3> QED BY <3>2 DEF Emotion!Of
    <2> QED BY <2>1, <2>2, <2>3, <2>4, <2>5, <2>6, <2>7
  <1>2. Emotion!Cue(cue, axis) \in Int
    <2>1. Emotion!Cue(cue, axis) \in {50, 30, 80, 0} BY DEF Emotion!Cue
    <2> QED BY <2>1
  <1>3. PICK first : first = CHOOSE w \in words : TRUE OBVIOUS
  <1>7. PICK second : second = CHOOSE w \in words \ {first} : TRUE OBVIOUS
  <1>8. PICK x : x = (IF words = {} THEN 0
                      ELSE Emotion!Of(first, axis) + (IF words =
                            {first} THEN 0 ELSE Emotion!Of(second, axis)))
                        OBVIOUS
  <1>9. Emotion!Delta(words, cue, axis) = Emotion!Limited(Emotion!Cue(cue, axis) + x)
    BY <1>3, <1>7, <1>8 DEF Emotion!Delta
  <1>4. x \in Int
    <2>1. CASE words = {} BY <1>8, <2>1
    <2>2. CASE words # {}
      <3>2. first \in words BY <2>2, <1>3
      <3>3. Emotion!Of(first, axis) \in Int BY <1>1, <3>2
      <3>4. CASE words = {first} BY <1>8, <2>2, <3>3, <3>4
      <3>5. CASE words # {first}
        <4>2. words \ {first} # {} BY <2>2, <3>2, <3>5
        <4>3. second \in words BY <1>7, <4>2
        <4>4. Emotion!Of(second, axis) \in Int BY <1>1, <4>3
        <4>5. x = Emotion!Of(first, axis) + Emotion!Of(second, axis) BY <1>8, <2>2, <3>5
        <4> QED BY <3>3, <4>4, <4>5
      <3> QED BY <3>4, <3>5
    <2> QED BY <2>1, <2>2
  <1>5. Emotion!Delta(words, cue, axis) = Emotion!Limited(Emotion!Cue(cue, axis) + x) BY <1>9
  <1>6. \A d \in Int : Emotion!Limited(d) \in Int BY DEF Emotion!Limited
  <1> QED BY <1>2, <1>4, <1>5, <1>6

(* Each axis that decays comes nearer to its rest. *)
LEMMA DecayNears ==
    ASSUME EmotionInv
    PROVE  /\ Emotion!Decayed(state) = [axis \in Emotion!Axes |-> Emotion!Decayed(state)[axis]]
           /\ \A axis \in Emotion!Axes :
                 Emotion!Decayed(state)[axis] \in Emotion!Low(axis) .. 1000
           /\ \A axis \in DOMAIN Emotion!Rest :
                 axis \in Emotion!Axes /\
                       Emotion!Decayed(state)[axis] =
                             Emotion!Towards(state[axis], Emotion!Rest[axis],
                                   Emotion!Rate[axis])
  <1>1. DOMAIN Emotion!Rest =
        {"joy", "stress", "confidence", "curiosity", "energy", "focus", "mood"}
    BY DEF Emotion!Rest
  <1>2. DOMAIN Emotion!Rest \subseteq Emotion!Axes BY <1>1 DEF Emotion!Axes
  <1>3. Emotion!Decayed(state) = [axis \in Emotion!Axes |-> Emotion!Decayed(state)[axis]]
        /\ \A axis \in Emotion!Axes :
              Emotion!Decayed(state)[axis] = IF axis \in DOMAIN Emotion!Rest
                                 THEN Emotion!Towards(state[axis], Emotion!Rest[axis],
                                       Emotion!Rate[axis]) ELSE state[axis]
    BY DEF Emotion!Decayed
  <1>4. ASSUME NEW axis \in Emotion!Axes
      PROVE Emotion!Decayed(state)[axis] \in Emotion!Low(axis) .. 1000
    <2>1. state[axis] \in Emotion!Low(axis) .. 1000 BY DEF EmotionInv, Emotion!TypeOK
    <2>2. CASE axis \notin DOMAIN Emotion!Rest BY <1>3, <2>1, <2>2
    <2>3. CASE axis \in DOMAIN Emotion!Rest
      <3>1. Emotion!Rest[axis] \in Emotion!Low(axis) .. 1000
        BY <1>1, <2>3 DEF Emotion!Rest, Emotion!Low
      <3>2. Emotion!Rate[axis] \in Rates BY <1>1, <2>3 DEF Emotion!Rate, Rates
      <3>3. Emotion!Low(axis) \in Int BY DEF Emotion!Low
      <3>4. state[axis] \in Int /\ Emotion!Rest[axis] \in Int BY <2>1, <3>1, <3>3
      <3>5. PICK d : d = Emotion!Towards(state[axis], Emotion!Rest[axis], Emotion!Rate[axis])
        OBVIOUS
      <3>6. StepsTo(state[axis], Emotion!Rest[axis], Emotion!Rate[axis], d)
        BY <3>2, <3>4, <3>5, TowardsNears, Zenon
      <3>7. d \in Emotion!Low(axis) .. 1000 BY <2>1, <3>1, <3>3, <3>6 DEF StepsTo
      <3> QED BY <1>3, <2>3, <3>5, <3>7
    <2> QED BY <2>2, <2>3
  <1> QED BY <1>2, <1>3, <1>4

(* One more decay of each axis.                                              *)
LEMMA JoyFades ==
    ASSUME NEW v \in Scale, NEW n \in Nat, JoyBy(v, n)
    PROVE  JoyBy(Emotion!Towards(v, Emotion!Rest.joy, Emotion!Rate.joy), n + 1)
  <1>1. PICK e : e = Emotion!Rest.joy OBVIOUS
  <1>2. PICK r : r = Emotion!Rate.joy OBVIOUS
  <1>3. e = 500 BY <1>1 DEF Emotion!Rest
  <1>4. r = 50 BY <1>2 DEF Emotion!Rate
  <1>5. e \in Int /\ r \in Rates BY <1>3, <1>4 DEF Rates
  <1>6. v \in Int BY DEF Scale
  <1>7. PICK w : w = Emotion!Towards(v, e, r) OBVIOUS
  <1>8. StepsTo(v, e, r, w) BY <1>5, <1>6, <1>7, TowardsNears, Zenon
  <1>9. JoyBy(w, n + 1)
    <2>0. /\ w \in Int
          /\ v > 500 => w =< v /\ 1000 * (w - 500) =< 1000 * (v - 500) - (v - 500) * 50
          /\ v =< 500 => w =< 500
      BY <1>3, <1>4, <1>6, <1>8 DEF StepsTo
    <2>1. CASE v =< 650 BY <1>6, <2>0, <2>1 DEF JoyBy
    <2>2. CASE v > 650
      <3>0. n < 25 /\ v - 500 =< JoyAbove[n + 1] BY <1>6, <2>2 DEF JoyBy
      <3>1. n + 1 \in 1 .. 25 BY <3>0
      <3>2. PICK a \in 139 .. 500 : a = JoyAbove[n + 1] BY <3>1, JoysAre
      <3>3. n # 24
        <4> SUFFICES ASSUME n = 24 PROVE FALSE OBVIOUS
        <4>1. n + 1 = 25 OBVIOUS
        <4>4. JoyAbove[n + 1] = JoyAbove[25] BY <4>1
        <4>2. a = 139 BY <3>2, <4>4, JoyEnds
        <4>3. v - 500 =< 139 BY <3>0, <3>2, <4>2
        <4> QED BY <1>6, <2>2, <4>3
      <3>4. n + 1 \in 1 .. 24 /\ n + 1 + 1 \in 1 .. 25 /\ n + 1 < 25 BY <3>1, <3>3
      <3>5. PICK b \in 139 .. 500 : b = JoyAbove[n + 1 + 1] BY <3>4, JoysAre
      <3>6. 950 * a =< 1000 * b + 999
        <4>1. 950 * JoyAbove[n + 1] =< 1000 * JoyAbove[n + 1 + 1] + 999
          <5>1. PICK m \in 1 .. 24 : m = n + 1 BY <3>4
          <5> QED BY <5>1, JoysFade
        <4> QED BY <3>2, <3>5, <4>1
      <3>7. 1000 * (w - 500) =< 950 * (v - 500) BY <1>6, <2>0, <2>2
      <3>8. v - 500 =< a BY <3>0, <3>2
      <3>9. w - 500 =< b BY <1>6, <2>0, <3>6, <3>7, <3>8
      <3> QED BY <3>4, <3>5, <3>9 DEF JoyBy
    <2> QED BY <1>6, <2>1, <2>2
  <1> QED BY <1>1, <1>2, <1>7, <1>9

LEMMA StressFades ==
    ASSUME NEW v \in Scale, NEW n \in Nat, StressBy(v, n)
    PROVE  StressBy(Emotion!Towards(v, Emotion!Rest.stress, Emotion!Rate.stress), n + 1)
  <1>1. PICK e : e = Emotion!Rest.stress OBVIOUS
  <1>2. PICK r : r = Emotion!Rate.stress OBVIOUS
  <1>3. e = 0 BY <1>1 DEF Emotion!Rest
  <1>4. r = 100 BY <1>2 DEF Emotion!Rate
  <1>5. e \in Int /\ r \in Rates BY <1>3, <1>4 DEF Rates
  <1>6. v \in Int BY DEF Scale
  <1>7. PICK w : w = Emotion!Towards(v, e, r) OBVIOUS
  <1>8. StepsTo(v, e, r, w) BY <1>5, <1>6, <1>7, TowardsNears, Zenon
  <1>9. StressBy(w, n + 1)
    BY <1>3, <1>4, <1>6, <1>8 DEF StepsTo, StressBy
  <1> QED BY <1>1, <1>2, <1>7, <1>9

LEMMA CuriosityFades ==
    ASSUME NEW v \in Scale, NEW n \in Nat, CuriosityBy(v, n)
    PROVE  CuriosityBy(Emotion!Towards(v, Emotion!Rest.curiosity, Emotion!Rate.curiosity),
          n + 1)
  <1>1. PICK e : e = Emotion!Rest.curiosity OBVIOUS
  <1>2. PICK r : r = Emotion!Rate.curiosity OBVIOUS
  <1>3. e = 500 BY <1>1 DEF Emotion!Rest
  <1>4. r = 150 BY <1>2 DEF Emotion!Rate
  <1>5. e \in Int /\ r \in Rates BY <1>3, <1>4 DEF Rates
  <1>6. v \in Int BY DEF Scale
  <1>7. PICK w : w = Emotion!Towards(v, e, r) OBVIOUS
  <1>8. StepsTo(v, e, r, w) BY <1>5, <1>6, <1>7, TowardsNears, Zenon
  <1>9. CuriosityBy(w, n + 1)
    BY <1>3, <1>4, <1>6, <1>8 DEF StepsTo, CuriosityBy
  <1> QED BY <1>1, <1>2, <1>7, <1>9

LEMMA FocusFades ==
    ASSUME NEW v \in Scale, NEW n \in Nat, FocusBy(v, n)
    PROVE  FocusBy(Emotion!Towards(v, Emotion!Rest.focus, Emotion!Rate.focus), n + 1)
  <1>1. PICK e : e = Emotion!Rest.focus OBVIOUS
  <1>2. PICK r : r = Emotion!Rate.focus OBVIOUS
  <1>3. e = 500 BY <1>1 DEF Emotion!Rest
  <1>4. r = 125 BY <1>2 DEF Emotion!Rate
  <1>5. e \in Int /\ r \in Rates BY <1>3, <1>4 DEF Rates
  <1>6. v \in Int BY DEF Scale
  <1>7. PICK w : w = Emotion!Towards(v, e, r) OBVIOUS
  <1>8. StepsTo(v, e, r, w) BY <1>5, <1>6, <1>7, TowardsNears, Zenon
  <1>9. FocusBy(w, n + 1)
    BY <1>3, <1>4, <1>6, <1>8 DEF StepsTo, FocusBy
  <1> QED BY <1>1, <1>2, <1>7, <1>9

LEMMA MoodFades ==
    ASSUME NEW v \in Balance, NEW n \in Nat, MoodBy(v, n)
    PROVE  MoodBy(Emotion!Towards(v, Emotion!Rest.mood, Emotion!Rate.mood), n + 1)
  <1>1. PICK e : e = Emotion!Rest.mood OBVIOUS
  <1>2. PICK r : r = Emotion!Rate.mood OBVIOUS
  <1>3. e = 0 BY <1>1 DEF Emotion!Rest
  <1>4. r = 50 BY <1>2 DEF Emotion!Rate
  <1>5. e \in Int /\ r \in Rates BY <1>3, <1>4 DEF Rates
  <1>6. v \in Int BY DEF Balance
  <1>7. PICK w : w = Emotion!Towards(v, e, r) OBVIOUS
  <1>8. StepsTo(v, e, r, w) BY <1>5, <1>6, <1>7, TowardsNears, Zenon
  <1>9. MoodBy(w, n + 1)
    BY <1>3, <1>4, <1>6, <1>8 DEF StepsTo, MoodBy
  <1> QED BY <1>1, <1>2, <1>7, <1>9

(* What a decay makes of the axes that tell whether Yuna is calm. *)
LEMMA DecayCalms ==
    ASSUME EmotionInv, calm \in Nat
    PROVE  CalmBy(Emotion!Decayed(state), calm + 1)
  <1>1. Scaled(state)
    <2>1. \A axis \in Emotion!Axes : state[axis] \in Reach(axis)
      BY DEF EmotionInv, Emotion!TypeOK, Reach
    <2> QED BY <2>1, ScaledValues, Zenon
  <1>2. CalmBy(state, calm) BY DEF EmotionInv
  <1>3. /\ Emotion!Decayed(state).joy =
              Emotion!Towards(state.joy, Emotion!Rest.joy, Emotion!Rate.joy)
        /\ Emotion!Decayed(state).stress =
              Emotion!Towards(state.stress, Emotion!Rest.stress, Emotion!Rate.stress)
        /\ Emotion!Decayed(state).curiosity =
              Emotion!Towards(state.curiosity, Emotion!Rest.curiosity, Emotion!Rate.curiosity)
        /\ Emotion!Decayed(state).focus =
              Emotion!Towards(state.focus, Emotion!Rest.focus, Emotion!Rate.focus)
        /\ Emotion!Decayed(state).mood =
              Emotion!Towards(state.mood, Emotion!Rest.mood, Emotion!Rate.mood)
    <2>1. {"joy", "stress", "curiosity", "focus", "mood"} \subseteq DOMAIN Emotion!Rest
      BY DEF Emotion!Rest
    <2> QED BY <2>1, DecayNears
  <1>4. JoyBy(Emotion!Decayed(state).joy, calm + 1)
    BY <1>1, <1>2, <1>3, JoyFades, Zenon DEF Scaled, CalmBy
  <1>5. StressBy(Emotion!Decayed(state).stress, calm + 1)
    BY <1>1, <1>2, <1>3, StressFades, Zenon DEF Scaled, CalmBy
  <1>6. CuriosityBy(Emotion!Decayed(state).curiosity, calm + 1)
    BY <1>1, <1>2, <1>3, CuriosityFades, Zenon DEF Scaled, CalmBy
  <1>7. FocusBy(Emotion!Decayed(state).focus, calm + 1)
    BY <1>1, <1>2, <1>3, FocusFades, Zenon DEF Scaled, CalmBy
  <1>8. MoodBy(Emotion!Decayed(state).mood, calm + 1)
    BY <1>1, <1>2, <1>3, MoodFades, Zenon DEF Scaled, CalmBy
  <1> QED BY <1>4, <1>5, <1>6, <1>7, <1>8, Zenon DEF CalmBy

(* Before any decay the axes may be anywhere.                                *)
LEMMA NotYetCalm == ASSUME NEW s, Scaled(s) PROVE CalmBy(s, 0)
  <1>1. \A v \in Scale : JoyBy(v, 0)
    <2>1. JoyAbove[0 + 1] = 500
      <3>1. 0 + 1 = 1 OBVIOUS
      <3>2. JoyAbove[0 + 1] = JoyAbove[1] BY <3>1
      <3> QED BY <3>2, JoyEnds
    <2> QED BY <2>1 DEF JoyBy, Scale
  <1>2. \A v \in Scale : StressBy(v, 0) /\ CuriosityBy(v, 0) /\ FocusBy(v, 0)
    BY DEF StressBy, CuriosityBy, FocusBy, Scale
  <1>3. \A v \in Balance : MoodBy(v, 0) BY DEF MoodBy, Balance
  <1> QED BY <1>1, <1>2, <1>3, Zenon DEF CalmBy, Scaled

(* The invariant holds, for any texts and any number of decays.              *)
LEMMA EmotionInvariance == ASSUME Emotion!EmotionAssumption PROVE Emotion!Spec => []EmotionInv
  <1>1. Emotion!Init => EmotionInv
    <2> SUFFICES ASSUME Emotion!Init PROVE EmotionInv OBVIOUS
    <2>1. state = Emotion!Fresh /\ calm = 0 /\ texts = 0 /\ shown = "neutral"
      BY DEF Emotion!Init
    <2>2. DOMAIN state = Emotion!Axes /\ state = [axis \in Emotion!Axes |-> state[axis]]
      BY <2>1 DEF Emotion!Fresh, Emotion!Axes
    <2>3. \A axis \in Emotion!Axes : state[axis] \in Emotion!Low(axis) .. 1000
      BY <2>1 DEF Emotion!Fresh, Emotion!Axes, Emotion!Low
    <2>4. calm \in 0 .. MaxCalm /\ texts \in 0 .. MaxTexts BY <2>1 DEF Emotion!EmotionAssumption
    <2>5. Emotion!TypeOK BY <2>1, <2>2, <2>3, <2>4 DEF Emotion!TypeOK
    <2>6. CalmBy(state, calm)
      <3>1. \A axis \in Emotion!Axes : state[axis] \in Reach(axis) BY <2>3 DEF Reach
      <3>2. Scaled(state) BY <3>1, ScaledValues, Zenon
      <3>3. calm = 0 BY <2>1
      <3> QED BY <3>2, <3>3, NotYetCalm, Zenon
    <2> QED BY <2>2, <2>5, <2>6 DEF EmotionInv
  <1>2. EmotionInv /\ [Emotion!Next]_(Emotion!vars) => EmotionInv'
    <2> SUFFICES ASSUME EmotionInv, [Emotion!Next]_(Emotion!vars) PROVE EmotionInv' OBVIOUS
    <2>1. CASE UNCHANGED Emotion!vars BY <2>1 DEF Emotion!vars, EmotionInv, Emotion!TypeOK
    <2>2. CASE Emotion!TickDecay
      <3>1. calm < MaxCalm /\ calm' = calm + 1 /\ state' = Emotion!Decayed(state) /\
            UNCHANGED <<shown, texts>>
        BY <2>2 DEF Emotion!TickDecay
      <3>2. calm \in Nat /\ calm' \in 0 .. MaxCalm
        BY <3>1 DEF EmotionInv, Emotion!TypeOK, Emotion!EmotionAssumption
      <3>3. /\ state' = [axis \in Emotion!Axes |-> state'[axis]]
            /\ (\A axis \in Emotion!Axes : state'[axis] \in Emotion!Low(axis) .. 1000)
        BY <3>1, DecayNears
      <3>4. DOMAIN state' = Emotion!Axes BY <3>3
      <3>5. Emotion!TypeOK' BY <3>1, <3>2, <3>3, <3>4 DEF EmotionInv, Emotion!TypeOK
      <3>8. CalmBy(state, calm)' BY <3>1, <3>2, DecayCalms
      <3> QED BY <3>3, <3>5, <3>8 DEF EmotionInv
    <2>3. ASSUME NEW words \in SUBSET Words, NEW cue \in Cues, NEW told \in BOOLEAN,
          Emotion!AnalyzeText(words, cue, told)
          PROVE  EmotionInv'
      <3>1. /\ texts < MaxTexts
            /\ texts' = texts + 1
            /\ calm' = 0
            /\ state' = Emotion!Moved(words, cue)
            /\ shown' = IF told THEN Emotion!Primary(state') ELSE shown
        BY <2>3 DEF Emotion!AnalyzeText
      <3>2. \A axis \in Emotion!Axes : state[axis] \in Int
        <4>1. \A axis \in Emotion!Axes : Emotion!Low(axis) \in Int BY DEF Emotion!Low
        <4> QED BY <4>1 DEF EmotionInv, Emotion!TypeOK
      <3>3. \A axis \in Emotion!Axes :
            Emotion!Clamp(axis, state[axis] + Emotion!Delta(words, cue,
                  axis)) \in Emotion!Low(axis) .. 1000
        BY <3>2, TextMoves, ClampsAreScaled
      <3>4. state' = [axis \in Emotion!Axes |-> Emotion!Clamp(axis,
            state[axis] + Emotion!Delta(words, cue, axis))]
        BY <3>1 DEF Emotion!Moved
      <3>5. DOMAIN state' = Emotion!Axes /\ state' = [axis \in Emotion!Axes |-> state'[axis]]
            /\ \A axis \in Emotion!Axes : state'[axis] \in Emotion!Low(axis) .. 1000
        BY <3>3, <3>4
      <3>6. calm' \in 0 .. MaxCalm /\ texts' \in 0 .. MaxTexts
        BY <3>1 DEF EmotionInv, Emotion!TypeOK, Emotion!EmotionAssumption
      <3>7. Scaled(state')
        <4>1. \A axis \in Emotion!Axes : state'[axis] \in Reach(axis) BY <3>5 DEF Reach
        <4> QED BY <4>1, ScaledValues, Zenon
      <3>8. shown' \in {"anxious", "excited", "happy", "sad", "angry", "curious", "focused",
                        "confused", "neutral"}
        <4>1. Emotion!Primary(state') \in {"anxious", "excited", "happy", "sad", "angry",
              "curious", "focused",
                                  "confused", "neutral"}
          BY <3>7, PrimaryOfScaled
        <4> QED BY <3>1, <4>1 DEF EmotionInv, Emotion!TypeOK
      <3>9. Emotion!TypeOK' BY <3>5, <3>6, <3>8 DEF Emotion!TypeOK
      <3>10. CalmBy(state, calm)'
        <4>1. CalmBy(state', 0) BY <3>7, NotYetCalm
        <4> QED BY <3>1, <4>1
      <3> QED BY <3>5, <3>9, <3>10 DEF EmotionInv
    <2> QED BY <2>1, <2>2, <2>3 DEF Emotion!Next
  <1> QED BY <1>1, <1>2, PTL DEF Emotion!Spec

(* What a turn that is done has made of the mood and of the personality of    *)
(* its user lasts, unless two turns of one user crossed, and whatever was     *)
(* said, two minutes of silence make the emotion neutral                     *)
(* (PersonalityEngine.js, EmotionEngine.js).                                 *)
THEOREM FeelingsStay == Mind!Spec /\ Emotion!Spec => []FeelingsLast
  <1>1. Mind!MindAssumption /\ Emotion!EmotionAssumption BY ServerAssumption
  <1>2. Mind!Spec => []MindInv BY <1>1, MindInvariance
  <1>3. Emotion!Spec => []EmotionInv BY <1>1, EmotionInvariance
  <1>4. MindInv /\ EmotionInv => FeelingsLast
    BY <1>1, AdaptationsLast, CalmInTime DEF FeelingsLast
  <1> QED BY <1>2, <1>3, <1>4, PTL


(***************************************************************************)
(* FileUsers.tla, for any calls, addresses, fields and number of accounts. *)
(* DraftIsNext keeps itself only together with the chain of writes: who    *)
(* waits in it has asked for something and has not been answered, once.    *)
(***************************************************************************)
FileChain ==
    /\ queue \in Seq(Signups)
    /\ \A i, j \in 1..Len(queue) : queue[i] = queue[j] => i = j
    /\ \A c \in Signups : asks[c] # Stored!Idle <=> \E i \in 1..Len(queue) : queue[i] = c

\* An id beyond those that were given is free.
FileFree == \A i \in Stored!Ids : i > given => users[i] = NoUser

FileInv ==
    /\ Stored!FileTypeOK /\ FileChain /\ FileFree
    /\ Stored!DraftIsNext
    /\ Stored!EmailsAreUnique

FileDistinct(held) ==
    \A i, j \in Stored!Ids :
        held[i] # NoUser /\ held[j] # NoUser /\ held[i].email = held[j].email => i = j

LEMMA FileOpFacts ==
    ASSUME NEW op \in Stored!Ops
    PROVE  /\ op # Stored!Idle
           /\ \/ op.kind = "create" /\ op.email \in Addresses
              \/ op.kind = "update" /\ op.id \in Stored!Ids /\ op.field \in Fields
                   /\ op.value \in Values
              \/ op.kind = "delete" /\ op.id \in Stored!Ids
BY DEF Stored!Ops, Stored!Create, Stored!Update, Stored!Delete, Stored!Idle

\* An operation that is not refused leaves accounts with addresses of their own.
LEMMA FileAfterFacts ==
    ASSUME Stored!FileUsersAssumption, Stored!FileTypeOK, FileFree, Stored!EmailsAreUnique,
           NEW op \in Stored!Ops, ~Stored!Refused(users, op), Stored!Given(op) <= MaxUsers
    PROVE  LET held == Stored!After(users, op, given + 1) IN
           /\ held \in Stored!Accounts /\ FileDistinct(held)
           /\ Stored!Given(op) \in 0..MaxUsers
           /\ \A i \in Stored!Ids : i > Stored!Given(op) => held[i] = NoUser
<1> MaxUsers \in Nat /\ Unset \in Values /\ NoUser \notin Stored!User
  BY DEF Stored!FileUsersAssumption, Stored!UserStoreAssumption
<1> DEFINE held == Stored!After(users, op, given + 1)
<1>1. users \in [Stored!Ids -> Stored!User \union {NoUser}] /\ given \in 0..MaxUsers
  BY DEF Stored!FileTypeOK, Stored!TypeOK, Stored!Accounts
<1>2. CASE op.kind = "create"
  <2> DEFINE u == [email |-> op.email, data |-> [f \in Fields |-> Unset]]
             g == given + 1
  <2>1. Stored!Given(op) = g /\ g \in Stored!Ids
    BY <1>1, <1>2 DEF Stored!Given, Stored!Ids
  <2>2. held = [users EXCEPT ![g] = u]
    BY <1>2 DEF Stored!After
  <2>3. u \in Stored!User /\ u.email = op.email
    BY <1>2, FileOpFacts DEF Stored!User
  <2>4. ~Stored!Taken(users, op.email)
    BY <1>2 DEF Stored!Refused
  <2> HIDE DEF held, u, g
  <2>5. held \in Stored!Accounts /\ held[g] = u /\ \A i \in Stored!Ids : i # g => held[i] = users[i]
    BY <1>1, <2>1, <2>2, <2>3 DEF Stored!Accounts
  <2>6. FileDistinct(held)
    BY <2>3, <2>4, <2>5 DEF FileDistinct, Stored!Taken, Stored!EmailsAreUnique
  <2>7. ASSUME NEW i \in Stored!Ids, i > g PROVE held[i] = NoUser
    BY <1>1, <2>5, <2>7 DEF FileFree, Stored!Ids, g
  <2>8. g \in 0..MaxUsers
    BY <2>1 DEF Stored!Ids
  <2> QED
    BY <2>1, <2>5, <2>6, <2>7, <2>8 DEF held
<1>3. CASE op.kind = "update"
  <2>1. Stored!Given(op) = given /\ op.id \in Stored!Ids /\ users[op.id] \in Stored!User
    BY <1>1, <1>3, FileOpFacts DEF Stored!Given, Stored!Refused
  <2> DEFINE u == Stored!Changed(users[op.id], op)
  <2>2. u \in Stored!User /\ u.email = users[op.id].email
    BY <1>3, <2>1, FileOpFacts DEF Stored!User, Stored!Changed
  <2>3. held = [users EXCEPT ![op.id] = u]
    BY <1>3 DEF Stored!After
  <2> HIDE DEF held, u
  <2>4. /\ held \in Stored!Accounts /\ held[op.id] = u
        /\ \A i \in Stored!Ids : i # op.id => held[i] = users[i]
    BY <1>1, <2>1, <2>2, <2>3 DEF Stored!Accounts
  <2>5. FileDistinct(held)
    BY <2>1, <2>2, <2>4 DEF FileDistinct, Stored!EmailsAreUnique
  <2>6. ASSUME NEW i \in Stored!Ids, i > given PROVE held[i] = NoUser
    BY <2>1, <2>4, <2>6 DEF FileFree
  <2> QED
    BY <1>1, <2>1, <2>4, <2>5, <2>6 DEF held
<1>4. CASE op.kind = "delete"
  <2>1. Stored!Given(op) = given /\ op.id \in Stored!Ids
    BY <1>4, FileOpFacts DEF Stored!Given
  <2>2. held = [users EXCEPT ![op.id] = NoUser]
    BY <1>4 DEF Stored!After
  <2> HIDE DEF held
  <2>3. /\ held \in Stored!Accounts /\ held[op.id] = NoUser
        /\ \A i \in Stored!Ids : i # op.id => held[i] = users[i]
    BY <1>1, <2>1, <2>2 DEF Stored!Accounts
  <2>4. FileDistinct(held)
    BY <2>3 DEF FileDistinct, Stored!EmailsAreUnique
  <2>5. ASSUME NEW i \in Stored!Ids, i > given PROVE held[i] = NoUser
    BY <2>3, <2>5 DEF FileFree
  <2> QED
    BY <1>1, <2>1, <2>3, <2>4, <2>5 DEF held
<1> QED
  BY <1>2, <1>3, <1>4, FileOpFacts

\* The call at the head of the chain has asked for something.
LEMMA FileRunning ==
    ASSUME Stored!FileUsersAssumption, FileInv, NEW c \in Signups, Stored!Runs(c)
    PROVE  asks[c] \in Stored!Ops /\ Len(queue) \in Nat \ {0} /\ queue[1] = c
<1>1. Len(queue) \in Nat \ {0} /\ queue[1] = c
  BY EmptySeq DEF FileInv, FileChain, Stored!Runs
<1>2. asks[c] # Stored!Idle
  BY <1>1 DEF FileInv, FileChain
<1> QED
  BY <1>1, <1>2 DEF FileInv, Stored!FileTypeOK, Stored!TypeOK

\* It leaves with its answer, and the chain stays what it was behind it.
LEMMA FileLeavesChain ==
    ASSUME Stored!FileUsersAssumption, FileInv, NEW c \in Signups, Stored!Runs(c),
           Stored!Leaves, asks' = [asks EXCEPT ![c] = Stored!Idle]
    PROVE  FileChain' /\ asks' \in [Signups -> Stored!Ops \union {Stored!Idle}]
<1> DEFINE q == Tail(queue)
           n == Len(queue)
<1>1. n \in Nat \ {0} /\ queue[1] = c
  BY FileRunning
<1>2. /\ q \in Seq(Signups) /\ Len(q) = n - 1
      /\ \A i \in 1..(n - 1) : q[i] = queue[i + 1]
  BY HeadTailProperties DEF FileInv, FileChain, Stored!Runs
<1>3. asks' \in [Signups -> Stored!Ops \union {Stored!Idle}]
  BY DEF FileInv, Stored!FileTypeOK, Stored!TypeOK
<1>4. \A d \in Signups : asks'[d] = IF d = c THEN Stored!Idle ELSE asks[d]
  BY DEF FileInv, Stored!FileTypeOK, Stored!TypeOK
<1>5. \A i, j \in 1..n : queue[i] = queue[j] => i = j
  BY DEF FileInv, FileChain
<1>6. \A d \in Signups : asks[d] # Stored!Idle <=> \E i \in 1..n : queue[i] = d
  BY DEF FileInv, FileChain
<1>7. queue' = q
  BY DEF Stored!Leaves
<1> HIDE DEF q, n
<1>8. \A i \in 1..(n - 1) : i + 1 \in 1..n /\ i + 1 # 1
  BY <1>1
<1>9. \A i, j \in 1..(n - 1) : q[i] = q[j] => i = j
  BY <1>1, <1>2, <1>5, <1>8
<1>10. ASSUME NEW d \in Signups
       PROVE  asks'[d] # Stored!Idle <=> \E i \in 1..(n - 1) : q[i] = d
  <2>1. ASSUME NEW i \in 1..(n - 1), q[i] = d PROVE asks'[d] # Stored!Idle
    <3>1. queue[i + 1] = d /\ i + 1 \in 1..n /\ i + 1 # 1 /\ 1 \in 1..n
      BY <1>1, <1>2, <1>8, <2>1
    <3>2. d # c
      BY <1>1, <1>5, <3>1
    <3> QED
      BY <1>4, <1>6, <3>1, <3>2
  <2>2. ASSUME asks'[d] # Stored!Idle PROVE \E i \in 1..(n - 1) : q[i] = d
    <3>1. d # c /\ asks[d] # Stored!Idle
      BY <1>4, <2>2
    <3>2. PICK j \in 1..n : queue[j] = d
      BY <1>6, <3>1
    <3>3. j # 1
      BY <1>1, <3>1, <3>2
    <3>4. j - 1 \in 1..(n - 1) /\ (j - 1) + 1 = j
      BY <1>1, <3>3
    <3>5. q[j - 1] = d
      BY <1>2, <3>2, <3>4
    <3> QED
      BY <3>4, <3>5
  <2> QED
    BY <2>1, <2>2
<1> QED
  BY <1>2, <1>3, <1>7, <1>9, <1>10 DEF FileChain

\* A call joins the end of the chain; the one that runs, if any, runs on.
LEMMA FileEnqueueStep ==
    ASSUME Stored!FileUsersAssumption, FileInv, NEW c \in Signups, NEW op \in Stored!Ops,
           Stored!Enqueue(c, op)
    PROVE  FileInv'
<1> DEFINE q == Append(queue, c)
           n == Len(queue)
<1>1. queue \in Seq(Signups) /\ n \in Nat /\ asks \in [Signups -> Stored!Ops \union {Stored!Idle}]
  BY LenProperties DEF FileInv, FileChain, Stored!FileTypeOK, Stored!TypeOK
<1>2. /\ q \in Seq(Signups) /\ Len(q) = n + 1
      /\ \A i \in 1..n : q[i] = queue[i]
      /\ q[n + 1] = c
  BY <1>1
<1>3. queue' = q /\ asks[c] = Stored!Idle /\ op # Stored!Idle
  BY FileOpFacts DEF Stored!Enqueue, Stored!Ask
<1>4. /\ asks' \in [Signups -> Stored!Ops \union {Stored!Idle}]
      /\ \A d \in Signups : asks'[d] = IF d = c THEN op ELSE asks[d]
  BY <1>1 DEF Stored!Enqueue, Stored!Ask
<1>5. \A i, j \in 1..n : queue[i] = queue[j] => i = j
  BY DEF FileInv, FileChain
<1>6. \A d \in Signups : asks[d] # Stored!Idle <=> \E i \in 1..n : queue[i] = d
  BY DEF FileInv, FileChain
<1>7. Stored!DraftIsNext'
  <2> SUFFICES ASSUME draft # NoFile PROVE Stored!DraftIsNext'
    BY DEF Stored!Enqueue, Stored!DraftIsNext
  <2> DEFINE h == Head(queue)
  <2>1. /\ queue # <<>> /\ asks[h] # Stored!Idle /\ ~Stored!Refused(users, asks[h])
        /\ Stored!Given(asks[h]) <= MaxUsers
        /\ draft = Stored!After(users, asks[h], given + 1)
    BY DEF FileInv, Stored!DraftIsNext
  <2>2. h \in Signups
    BY <1>1, <2>1, HeadTailProperties
  <2>3. Head(q) = h /\ q # <<>>
    BY <1>1, <2>1
  <2> HIDE DEF h, q
  <2>4. h # c /\ asks'[h] = asks[h]
    BY <1>3, <1>4, <2>1, <2>2
  <2>5. /\ users' = users /\ given' = given /\ draft' = draft
        /\ queue' = q
    BY DEF Stored!Enqueue, Stored!Ask, q
  <2>6. /\ Head(queue') = h /\ queue' # <<>>
        /\ asks'[Head(queue')] = asks[h]
    BY <2>3, <2>4, <2>5
  <2>7. (Stored!Given(asks[Head(queue)]) <= MaxUsers)'
    BY <2>1, <2>5, <2>6 DEF Stored!Given
  <2> QED
    BY <2>1, <2>5, <2>6, <2>7 DEF Stored!DraftIsNext
<1> HIDE DEF q, n
<1>8. \A i \in 1..(n + 1) : i \in 1..n \/ i = n + 1
  BY <1>1
<1>9. \A i \in 1..n : i \in 1..(n + 1)
  BY <1>1
<1>10. \A i, j \in 1..(n + 1) : q[i] = q[j] => i = j
  BY <1>2, <1>3, <1>5, <1>6, <1>8
<1>11. n + 1 \in 1..(n + 1)
  BY <1>1
<1>12. \A d \in Signups : asks'[d] # Stored!Idle <=> \E i \in 1..(n + 1) : q[i] = d
  BY <1>2, <1>3, <1>4, <1>6, <1>8, <1>9, <1>11
<1>13. FileChain'
  BY <1>2, <1>3, <1>10, <1>12 DEF FileChain
<1>14. Stored!FileTypeOK' /\ FileFree' /\ Stored!EmailsAreUnique'
  BY <1>2, <1>3, <1>4 DEF FileInv, Stored!FileTypeOK, Stored!TypeOK, FileFree,
     Stored!EmailsAreUnique, Stored!Enqueue, Stored!Ask
<1> QED
  BY <1>7, <1>13, <1>14 DEF FileInv

\* The answer of a call that leaves without having changed the accounts.
LEMMA FileAnswerStep ==
    ASSUME Stored!FileUsersAssumption, FileInv, NEW c \in Signups, Stored!Runs(c),
           Stored!Leaves, draft' = NoFile,
           NEW what \in {"taken", "absent", "error"}, Stored!Answers(c, what),
           UNCHANGED <<users, given>>
    PROVE  FileInv'
<1>1. FileChain' /\ asks' \in [Signups -> Stored!Ops \union {Stored!Idle}]
  BY FileLeavesChain DEF Stored!Answers
<1>2. Stored!DraftIsNext'
  BY DEF Stored!DraftIsNext
<1>3. Stored!FileTypeOK'
  BY <1>1 DEF FileInv, Stored!FileTypeOK, Stored!TypeOK, Stored!Answers, FileChain
<1>4. FileFree' /\ Stored!EmailsAreUnique'
  BY DEF FileInv, FileFree, Stored!EmailsAreUnique
<1> QED
  BY <1>1, <1>2, <1>3, <1>4 DEF FileInv

LEMMA FileWriteDraftStep ==
    ASSUME Stored!FileUsersAssumption, FileInv, NEW c \in Signups, Stored!WriteDraft(c)
    PROVE  FileInv'
<1>1. asks[c] \in Stored!Ops /\ queue # <<>> /\ Head(queue) = c
  BY FileRunning DEF Stored!WriteDraft, Stored!Runs
<1>2. draft' \in Stored!Accounts
  BY <1>1, FileAfterFacts DEF Stored!WriteDraft, FileInv
<1>3. Stored!FileTypeOK' /\ FileChain' /\ FileFree' /\ Stored!EmailsAreUnique'
  BY <1>2 DEF Stored!WriteDraft, FileInv, Stored!FileTypeOK, Stored!TypeOK, FileChain,
     FileFree, Stored!EmailsAreUnique
<1>4. asks[c] # Stored!Idle
  BY <1>1, FileOpFacts
<1>5. Stored!DraftIsNext'
  BY <1>1, <1>4 DEF Stored!DraftIsNext, Stored!WriteDraft, Stored!Given
<1> QED
  BY <1>3, <1>5 DEF FileInv

\* What Rename puts in place is what Apply would have made of the accounts.
LEMMA FileRenameApplies ==
    ASSUME Stored!FileUsersAssumption, FileInv, NEW c \in Signups, Stored!Rename(c)
    PROVE  Stored!Apply(c)
<1>1. /\ asks[c] # Stored!Idle /\ ~Stored!Refused(users, asks[c])
      /\ Stored!Given(asks[c]) <= MaxUsers
      /\ draft = Stored!After(users, asks[c], given + 1)
  BY DEF FileInv, Stored!DraftIsNext, Stored!Rename, Stored!Runs
<1> QED
  BY <1>1 DEF Stored!Rename, Stored!Apply

LEMMA FileRenameStep ==
    ASSUME Stored!FileUsersAssumption, FileInv, NEW c \in Signups, Stored!Rename(c)
    PROVE  FileInv'
<1>1. Stored!Apply(c) /\ asks[c] \in Stored!Ops
  BY FileRenameApplies, FileRunning DEF Stored!Rename
<1>2. FileChain' /\ asks' \in [Signups -> Stored!Ops \union {Stored!Idle}]
  BY FileLeavesChain DEF Stored!Rename, Stored!Answers
<1>3. /\ users' \in Stored!Accounts /\ FileDistinct(users') /\ given' \in 0..MaxUsers
      /\ \A i \in Stored!Ids : i > given' => users'[i] = NoUser
  BY <1>1, FileAfterFacts DEF Stored!Apply, FileInv
<1>4. Stored!FileTypeOK'
  BY <1>2, <1>3 DEF FileInv, Stored!FileTypeOK, Stored!TypeOK, Stored!Rename, Stored!Answers,
     FileChain
<1>5. FileFree' /\ Stored!EmailsAreUnique'
  BY <1>3 DEF FileFree, Stored!EmailsAreUnique, FileDistinct
<1>6. Stored!DraftIsNext'
  BY DEF Stored!DraftIsNext, Stored!Rename
<1> QED
  BY <1>2, <1>4, <1>5, <1>6 DEF FileInv

LEMMA FileCrashStep == ASSUME Stored!FileUsersAssumption, FileInv, Stored!Crash PROVE FileInv'
<1>1. queue' = <<>> /\ Len(queue') = 0 /\ queue' \in Seq(Signups)
  BY DEF Stored!Crash
<1>2. \A c \in Signups : asks'[c] = Stored!Idle
  BY DEF Stored!Crash, Stored!Restart
<1>3. FileChain'
  BY <1>1, <1>2 DEF FileChain
<1>4. Stored!FileTypeOK' /\ FileFree' /\ Stored!EmailsAreUnique' /\ Stored!DraftIsNext'
  BY <1>1 DEF FileInv, Stored!FileTypeOK, Stored!TypeOK, FileFree, Stored!EmailsAreUnique,
     Stored!DraftIsNext, Stored!Crash, Stored!Restart
<1> QED
  BY <1>3, <1>4 DEF FileInv

LEMMA InitFileInv == ASSUME Stored!FileUsersAssumption, Stored!FileInit PROVE FileInv
<1> MaxUsers \in Nat
  BY DEF Stored!FileUsersAssumption, Stored!UserStoreAssumption
<1>1. queue = <<>> /\ Len(queue) = 0 /\ queue \in Seq(Signups)
  BY DEF Stored!FileInit
<1>2. FileChain
  BY <1>1 DEF FileChain, Stored!FileInit, Stored!Init
<1>3. users \in Stored!Accounts /\ \A i \in Stored!Ids : users[i] = NoUser
  BY DEF Stored!FileInit, Stored!Init, Stored!Accounts
<1>4. Stored!FileTypeOK /\ FileFree /\ Stored!EmailsAreUnique /\ Stored!DraftIsNext
  BY <1>1, <1>3 DEF Stored!FileTypeOK, Stored!TypeOK, FileFree, Stored!EmailsAreUnique,
     Stored!DraftIsNext, Stored!FileInit, Stored!Init
<1> QED
  BY <1>2, <1>4 DEF FileInv

LEMMA FileTurnDownStep == ASSUME Stored!FileUsersAssumption, FileInv, NEW c \in Signups,
Stored!TurnDown(c) PROVE FileInv'
<1> DEFINE what == IF asks[c].kind = "create" THEN "taken" ELSE "absent"
<1>1. what \in {"taken", "absent", "error"}
  OBVIOUS
<1> QED
  BY <1>1, FileAnswerStep DEF Stored!TurnDown

LEMMA FileWriteFailsStep == ASSUME Stored!FileUsersAssumption, FileInv, NEW c \in Signups,
Stored!WriteFails(c) PROVE FileInv'
BY FileAnswerStep DEF Stored!WriteFails

LEMMA FileInvStep ==
    ASSUME Stored!FileUsersAssumption, FileInv, [Stored!FileNext]_(Stored!fileVars)
    PROVE  FileInv'
<1>1. CASE UNCHANGED Stored!fileVars
  BY <1>1 DEF Stored!fileVars, FileInv, Stored!FileTypeOK, Stored!TypeOK, FileChain, FileFree,
     Stored!EmailsAreUnique,
              Stored!DraftIsNext, Stored!Given
<1>2. CASE Stored!FileNext
  BY <1>2, FileEnqueueStep, FileTurnDownStep, FileWriteDraftStep, FileRenameStep,
     FileWriteFailsStep, FileCrashStep
     DEF Stored!FileNext
<1> QED
  BY <1>1, <1>2

\* FileInv is an invariant of the repository over a file.
THEOREM FileInvariance ==
    ASSUME Stored!FileUsersAssumption
    PROVE  Stored!FileSpec => []FileInv
<1>1. Stored!FileInit => FileInv
  BY InitFileInv
<1>2. FileInv /\ [Stored!FileNext]_(Stored!fileVars) => FileInv'
  BY FileInvStep
<1> QED
  BY <1>1, <1>2, PTL DEF Stored!FileSpec

\* No two accounts have the same address, however signups and crashes overlap.
THEOREM AddressesAreUnique ==
    ASSUME Stored!FileUsersAssumption
    PROVE  Stored!FileSpec => []Stored!EmailsAreUnique
<1>1. FileInv => Stored!EmailsAreUnique
  BY DEF FileInv
<1>2. Stored!FileSpec => []FileInv
  BY FileInvariance
<1> QED
  BY <1>1, <1>2, PTL

\* A step of the repository over a file is a step of UserStore or none.
LEMMA FileSteps ==
    ASSUME Stored!FileUsersAssumption, FileInv, [Stored!FileNext]_(Stored!fileVars)
    PROVE  [Stored!Next]_(Stored!vars)
<1>1. CASE UNCHANGED Stored!fileVars
  BY <1>1 DEF Stored!fileVars, Stored!vars
<1>2. ASSUME NEW c \in Signups, NEW op \in Stored!Ops, Stored!Enqueue(c, op) PROVE Stored!Next
  BY <1>2 DEF Stored!Enqueue, Stored!Next
<1>3. ASSUME NEW c \in Signups, Stored!TurnDown(c) PROVE Stored!Next
  <2>1. asks[c] # Stored!Idle
    BY <1>3, FileRunning, FileOpFacts DEF Stored!TurnDown
  <2>2. Stored!Refuse(c)
    BY <1>3, <2>1 DEF Stored!TurnDown, Stored!Refuse
  <2> QED
    BY <2>2 DEF Stored!Next
<1>4. ASSUME NEW c \in Signups, Stored!WriteDraft(c) PROVE UNCHANGED Stored!vars
  BY <1>4 DEF Stored!WriteDraft, Stored!vars
<1>5. ASSUME NEW c \in Signups, Stored!Rename(c) PROVE Stored!Next
  BY <1>5, FileRenameApplies DEF Stored!Next
<1>6. ASSUME NEW c \in Signups, Stored!WriteFails(c) PROVE Stored!Next
  <2>1. asks[c] # Stored!Idle
    BY <1>6, FileRunning, FileOpFacts DEF Stored!WriteFails
  <2>2. Stored!Fail(c)
    BY <1>6, <2>1 DEF Stored!WriteFails, Stored!Fail
  <2> QED
    BY <2>2 DEF Stored!Next
<1>7. ASSUME Stored!Crash PROVE Stored!Next
  BY <1>7 DEF Stored!Crash, Stored!Next
<1> QED
  BY <1>1, <1>2, <1>3, <1>4, <1>5, <1>6, <1>7 DEF Stored!FileNext

\* The repository over a file implements the one over MongoDB: from outside,
\* each write is one step, whatever fails and whenever the process ends.
THEOREM FileImplements ==
    ASSUME Stored!FileUsersAssumption
    PROVE  Stored!FileSpec => Stored!ImplementsStore
<1>1. Stored!FileInit => Stored!Init
  BY DEF Stored!FileInit
<1>2. Stored!FileSpec => []FileInv
  BY FileInvariance
<1>3. FileInv /\ [Stored!FileNext]_(Stored!fileVars) => [Stored!Next]_(Stored!vars)
  BY FileSteps
<1> QED
  BY <1>1, <1>2, <1>3, PTL DEF Stored!FileSpec, Stored!ImplementsStore, Stored!Spec

-----------------------------------------------------------------------------
(* All of them: what a run of the server does is a behaviour of each of its  *)
(* components, the one that runs and those that stay as they begin.          *)

(* A component takes a step of its own or stays as it is.                    *)
LEMMA EachSteps ==
    ASSUME [Step]_all
    PROVE  /\ [Next]_vars
           /\ [Settings!Next]_(Settings!vars)
           /\ [Accounts!Next]_(Accounts!vars)
           /\ [Plugins!Next]_(Plugins!vars)
           /\ [Sessions!Next]_(Sessions!vars)
           /\ [Admin!Next]_(Admin!vars)
           /\ [Mind!Next]_(Mind!vars)
           /\ [Emotion!Next]_(Emotion!vars)
           /\ [Browser!Next]_(Browser!vars)
           /\ [Stored!FileNext]_(Stored!fileVars)
  <1>1. CASE UNCHANGED all
    BY <1>1 DEF all, settingsVars, accountsVars, pluginsVars, sessionsVars, adminVars, mindVars,
                emotionVars, browserVars, usersVars, storeVars, Settings!vars, Accounts!vars,
                Accounts!server, Accounts!history, Plugins!vars, Sessions!vars, Admin!vars,
                Mind!vars, Emotion!vars, Browser!vars, Stored!fileVars
  <1>2. CASE Step
    <2>1. UNCHANGED vars \/ Next BY <1>2 DEF Step, OthersStay
    <2>2. UNCHANGED Settings!vars \/ Settings!Next
      BY <1>2 DEF Step, OthersStay, settingsVars, Settings!vars
    <2>3. UNCHANGED Accounts!vars \/ Accounts!Next
      BY <1>2 DEF Step, OthersStay, accountsVars, Accounts!vars, Accounts!server, Accounts!history
    <2>4. UNCHANGED Plugins!vars \/ Plugins!Next
      BY <1>2 DEF Step, OthersStay, pluginsVars, Plugins!vars
    <2>5. UNCHANGED Sessions!vars \/ Sessions!Next
      BY <1>2 DEF Step, OthersStay, sessionsVars, Sessions!vars
    <2>6. UNCHANGED Admin!vars \/ Admin!Next
      BY <1>2 DEF Step, OthersStay, adminVars, Admin!vars
    <2>7. UNCHANGED Mind!vars \/ Mind!Next
      BY <1>2 DEF Step, OthersStay, mindVars, Mind!vars
    <2>8. UNCHANGED Emotion!vars \/ Emotion!Next
      BY <1>2 DEF Step, OthersStay, emotionVars, Emotion!vars
    <2>9. UNCHANGED Browser!vars \/ Browser!Next
      BY <1>2 DEF Step, OthersStay, browserVars, Browser!vars
    <2>10. UNCHANGED Stored!fileVars \/ Stored!FileNext
      BY <1>2 DEF Step, OthersStay, usersVars, storeVars, Stored!fileVars
    <2> QED BY <2>1, <2>2, <2>3, <2>4, <2>5, <2>6, <2>7, <2>8, <2>9, <2>10
  <1> QED BY <1>1, <1>2

LEMMA EachRuns ==
    Server => /\ Spec /\ Settings!Spec /\ Accounts!Spec /\ Plugins!Spec /\ Sessions!Spec
              /\ Admin!Spec /\ Mind!Spec /\ Emotion!Spec /\ Browser!Spec /\ Stored!FileSpec
  <1>1. Start => /\ Init /\ Settings!Init /\ Accounts!Init /\ Plugins!Init /\ Sessions!Init
                 /\ Admin!Init /\ Mind!Init /\ Emotion!Init /\ Browser!Init /\ Stored!FileInit
    BY DEF Start
  <1>2. [Step]_all =>
           /\ [Next]_vars
           /\ [Settings!Next]_(Settings!vars)
           /\ [Accounts!Next]_(Accounts!vars)
           /\ [Plugins!Next]_(Plugins!vars)
           /\ [Sessions!Next]_(Sessions!vars)
           /\ [Admin!Next]_(Admin!vars)
           /\ [Mind!Next]_(Mind!vars)
           /\ [Emotion!Next]_(Emotion!vars)
           /\ [Browser!Next]_(Browser!vars)
           /\ [Stored!FileNext]_(Stored!fileVars)
    BY EachSteps
  <1> QED
    BY <1>1, <1>2, PTL
    DEF Server, Spec, Settings!Spec, Accounts!Spec, Plugins!Spec, Sessions!Spec, Admin!Spec,
        Mind!Spec, Emotion!Spec, Browser!Spec, Stored!FileSpec

(* The invariants of all components hold at once.                            *)
LEMMA EachHolds ==
    Server => []( /\ TypeOK /\ SettingsInv /\ AccountsInv /\ PluginsInv /\ SessionsInv
                  /\ AdminInv /\ MindInv /\ EmotionInv /\ BrowserInv /\ FileInv)
  <1>1. /\ Settings!SettingsAssumption /\ Accounts!AccountsAssumption
        /\ Plugins!PluginsAssumption /\ Sessions!SessionsAssumption /\ Admin!AdminAssumption
        /\ Mind!MindAssumption /\ Emotion!EmotionAssumption /\ Browser!BrowserAssumption
        /\ Stored!FileUsersAssumption
    BY ServerAssumption
  <1>2. Settings!Spec => []SettingsInv BY <1>1, SettingsInvariance
  <1>3. Accounts!Spec => []AccountsInv BY <1>1, AccountsInvariance
  <1>4. Plugins!Spec => []PluginsInv BY <1>1, PluginsInvariance
  <1>5. Sessions!Spec => []SessionsInv BY <1>1, SessionsInvariance
  <1>6. Admin!Spec => []AdminInv BY <1>1, AdminInvariance
  <1>7. Mind!Spec => []MindInv BY <1>1, MindInvariance
  <1>8. Emotion!Spec => []EmotionInv BY <1>1, EmotionInvariance
  <1>9. Browser!Spec => []BrowserInv BY <1>1, BrowserInvariance
  <1>10. Stored!FileSpec => []FileInv BY <1>1, FileInvariance
  <1> QED BY EachRuns, MemoryTypes, <1>2, <1>3, <1>4, <1>5, <1>6, <1>7, <1>8, <1>9, <1>10, PTL

(* What runs keeps its types, whichever of the ten components it is, for     *)
(* every size of each.                                                       *)
THEOREM ServerTypes == Server => []AllTypesOK
  <1>1. Start => part \in Parts BY DEF Start
  <1>2. part \in Parts /\ [Step]_all => (part \in Parts)' BY DEF Step, OthersStay, all
  <1>3. /\ part \in Parts
        /\ /\ TypeOK /\ SettingsInv /\ AccountsInv /\ PluginsInv /\ SessionsInv
           /\ AdminInv /\ MindInv /\ EmotionInv /\ BrowserInv /\ FileInv
        => AllTypesOK
    <2> SUFFICES ASSUME part \in Parts,
                        TypeOK, SettingsInv, AccountsInv, PluginsInv, SessionsInv,
                        AdminInv, MindInv, EmotionInv, BrowserInv, FileInv
                 PROVE  AllTypesOK
      OBVIOUS
    <2>1. /\ Settings!TypeOK /\ Accounts!TypeOK /\ Plugins!TypeOK /\ Sessions!TypeOK
          /\ Admin!TypeOK /\ Mind!TypeOK /\ Emotion!TypeOK /\ Browser!TypeOK
      BY MindTypes DEF SettingsInv, AccountsInv, AccountsKept, PluginsInv, SessionsInv, AdminInv,
                       EmotionInv, BrowserInv
    <2>2. Stored!FileTypeOK BY DEF FileInv
    <2>3. part \in {"settings", "memory", "accounts", "plugins", "sessions", "admin", "mind",
                    "emotion", "browser", "users"}
      BY ServerAssumption
    <2> QED BY <2>1, <2>2, <2>3 DEF AllTypesOK
  <1> QED BY EachHolds, <1>1, <1>2, <1>3, PTL DEF Server

(* An account is stored at once or not at all, and no two have the same      *)
(* address: every step of the repository over a file (FileUserRepository.js) *)
(* is one of the repository over MongoDB, or none.                           *)
THEOREM AccountsStayStored == Server => AccountsAreStored
  <1>1. Stored!FileUsersAssumption BY ServerAssumption
  <1>2. ASSUME FileInv, [Stored!FileNext]_(Stored!fileVars) PROVE [Stored!Next]_storeVars
    <2>1. [Stored!Next]_(Stored!vars) BY <1>1, <1>2, FileSteps
    <2> QED BY <2>1 DEF Stored!vars, storeVars
  <1>3. FileInv => Stored!EmailsAreUnique BY DEF FileInv
  <1>4. [Step]_all => [Stored!FileNext]_(Stored!fileVars) BY EachSteps
  <1>5. FileInv /\ (Stored!EmailsAreUnique)' /\ [Step]_all =>
           [part = "users" => [Stored!Next]_storeVars /\ (Stored!EmailsAreUnique)']_all
    BY <1>2, <1>4
  <1> QED BY EachHolds, <1>3, <1>5, PTL DEF Server, AccountsAreStored

(* What the run checks holds of all ten components at once: the theorems     *)
(* about each of them, carried over to what the server does.                 *)
THEOREM ServerKeeps ==
    Server => /\ [](/\ KeysAreAsChosen /\ LostOnlyMeanwhile /\ FactsAreKept /\ ActiveRuns
                    /\ ChatIsOfItsUser /\ RowIsTheAccount /\ FeelingsLast /\ TabsAreKept)
              /\ CodesAreSpent
  <1> QED
    BY EachRuns, KeysStay, Loses, Keeps, ActivePluginRuns, ChatStaysOfItsUser,
       RowsStayTheAccounts, FeelingsStay, TabsStayKept, OnceForACode, PTL
===============================================================================
