----------------------------- MODULE ChatProofs -----------------------------
(***************************************************************************)
(* Proofs about Chat, for any set of messages, any number of attempts and  *)
(* any bounds.                                                             *)
(***************************************************************************)
EXTENDS Chat, TLAPS

(* Two streams that are in flight together have both been noted as crowded. *)
Crowds == \A m, n \in InFlight : m # n => m \in crowded /\ n \in crowded

(***************************************************************************)
(* A message none of whose attempts has timed out: its one request is the  *)
(* one awaited, its chunks are those of the last attempt, and it has no    *)
(* reply before it is done.                                                *)
(***************************************************************************)
Single(m) ==
    /\ \A k \in Attempts : <<m, k>> \in open => Current(m, k)
    /\ \A k \in Attempts : chunks[m][k] > 0 => k = attempt[m] /\ at[m] \in {"stream", "done"}
    /\ replies[m] > 0 => at[m] = "done"
    /\ replies[m] <= 1

Ledger == \A m \in Messages \ timedOut : Single(m)

(* An attempt that will be repeated is not the last one. *)
Repeatable == \A m \in Messages : at[m] = "backoff" => attempt[m] + 1 \in Attempts

(* A message is on its way to the server once at most, and only when sent. *)
Queue ==
    \A i \in 1 .. Len(up) : up[i][1] = "send" =>
        /\ at[up[i][2]] = "sent"
        /\ \A j \in 1 .. Len(up) : up[j] = up[i] => j = i

CInv == TypeOK /\ Queue /\ Repeatable /\ Crowds /\ Registered /\ Ledger

(* Nothing is in flight at the start. *)
LEMMA InitCInv == Init => CInv
  <1> SUFFICES ASSUME Init PROVE CInv OBVIOUS
  <1> USE ChatAssumption DEF Init
  <1>1. TypeOK BY DEF TypeOK, Attempts, Places
  <1>2. InFlight = {} BY DEF InFlight
  <1>3. Crowds /\ Registered BY <1>2 DEF Crowds, Registered
  <1>4. Repeatable /\ Queue BY DEF Repeatable, Queue
  <1>5. Ledger
    <2> SUFFICES ASSUME NEW m \in Messages PROVE Single(m) BY DEF Ledger
    <2>1. \A k \in Attempts : ~(chunks[m][k] > 0) OBVIOUS
    <2>2. open = {} /\ replies[m] = 0 OBVIOUS
    <2> QED BY <2>1, <2>2 DEF Single
  <1> QED BY <1>1, <1>3, <1>4, <1>5 DEF CInv

(* The screen shows a message or nothing, whatever is emitted. *)
LEMMA ScreenTypes ==
    ASSUME busy \in Messages \cup {None}, text \in Messages \cup {None},
           NEW m \in Messages, NEW e, Emit(m, e) \/ UNCHANGED screen
    PROVE  busy' \in Messages \cup {None} /\ text' \in Messages \cup {None}
  BY DEF Emit, Handle, screen

(* So does it for what a cancelled stream does not emit. *)
LEMMA TellTypes ==
    ASSUME busy \in Messages \cup {None}, text \in Messages \cup {None},
           NEW m \in Messages, NEW e, Tell(m, e)
    PROVE  busy' \in Messages \cup {None} /\ text' \in Messages \cup {None}
  BY ScreenTypes DEF Tell

(* What an answer leaves. *)
LEMMA AnswerTypes ==
    ASSUME TypeOK, NEW m \in Messages, Answer(m)
    PROVE  /\ busy' \in Messages \cup {None} /\ text' \in Messages \cup {None}
           /\ at' = [at EXCEPT ![m] = "done"]
           /\ active' = None
           /\ attempt' = attempt
           /\ answered' \in SUBSET Messages
  <1>1. \E e : Emit(m, e) BY DEF Answer
  <1> QED BY <1>1, ScreenTypes DEF Answer, TypeOK

(* What a failed attempt leaves: an answer, or the wait for another attempt. *)
LEMMA AttemptFailsTypes ==
    ASSUME TypeOK, NEW m \in Messages, AttemptFails(m)
    PROVE  /\ busy' \in Messages \cup {None} /\ text' \in Messages \cup {None}
           /\ attempt' = attempt
           /\ answered' \in SUBSET Messages
           /\ \/ at' = [at EXCEPT ![m] = "done"] /\ active' = None
              \/ /\ at' = [at EXCEPT ![m] = "backoff"] /\ active' = active
                 /\ attempt[m] # maxAttempts
                 /\ \A k \in Attempts : ~(chunks[m][k] > 0)
  <1>1. CASE Answer(m) BY <1>1, AnswerTypes
  <1>2. CASE ~Answer(m)
        BY <1>2 DEF AttemptFails, screen, streamed, TypeOK
  <1> QED BY <1>1, <1>2

-----------------------------------------------------------------------------
(***************************************************************************)
(* What the actions on one message m do, seen by the rest of the invariant *)
(* apart from types: m moves to another place, and either leaves what is   *)
(* in flight, or stays in it.                                              *)
(***************************************************************************)

(* A message that ends is no longer registered, nor is any other. *)
LEMMA EndKeepsRegister ==
    ASSUME TypeOK, Crowds, Registered, NEW m \in InFlight,
           at' = [at EXCEPT ![m] = "done"], active' = None, UNCHANGED crowded
    PROVE  Crowds' /\ Registered'
  <1>1. InFlight' \subseteq InFlight \ {m} BY DEF InFlight, TypeOK
  <1>2. Crowds' BY <1>1 DEF Crowds
  <1>3. \A n \in InFlight' : n \in crowded BY <1>1 DEF Crowds
  <1> QED BY <1>2, <1>3 DEF Registered

(* A message that stays in flight changes nothing about it. *)
LEMMA StayKeepsRegister ==
    ASSUME TypeOK, Crowds, Registered, NEW m \in InFlight,
           NEW p \in {"stream", "backoff"},
           at' = [at EXCEPT ![m] = p], UNCHANGED <<active, crowded>>
    PROVE  Crowds' /\ Registered'
  <1>1. InFlight' = InFlight BY DEF InFlight, TypeOK
  <1> QED BY <1>1 DEF Crowds, Registered

(* Neither does a step that moves nothing within the server. *)
LEMMA IdleKeepsRegister ==
    ASSUME Crowds, Registered, InFlight' = InFlight, UNCHANGED <<active, crowded>>
    PROVE  Crowds' /\ Registered'
  BY DEF Crowds, Registered

(* Other messages keep their ledger when m does something. *)
LEMMA OthersKeepLedger ==
    ASSUME Ledger, NEW m \in Messages, Single(m)' \/ m \in timedOut',
           timedOut \subseteq timedOut',
           \A n \in Messages \ {m} :
              /\ at'[n] = at[n] /\ attempt'[n] = attempt[n]
              /\ chunks'[n] = chunks[n] /\ replies'[n] = replies[n]
              /\ \A k \in Attempts : <<n, k>> \in open' <=> <<n, k>> \in open
    PROVE  Ledger'
  <1> SUFFICES ASSUME NEW n \in Messages, n \notin timedOut', n # m PROVE Single(n)'
      BY DEF Ledger
  <1>1. Single(n) BY DEF Ledger
  <1> QED BY <1>1 DEF Single, Current, Attempts

-----------------------------------------------------------------------------
(* The client and the network *)

(* Sending a message puts nothing in flight. *)
LEMMA SendStep ==
    ASSUME CInv, NEW m \in Messages, send(m)
    PROVE  CInv'
  <1> USE DEF CInv, send, client, history
  <1>1. TypeOK'
    <2>1. up' \in Seq({"send", "cancel"} \X Messages) BY DEF TypeOK
    <2> QED BY <2>1 DEF TypeOK, Places
  <1>2. Repeatable' BY DEF Repeatable, TypeOK
  <1>3. InFlight' = InFlight BY DEF InFlight, TypeOK
  <1>4. Crowds' /\ Registered' BY <1>3, IdleKeepsRegister
  <1>5. Ledger'
    <2>1. m \notin timedOut => Single(m)'
          BY DEF Ledger, Single, Current, TypeOK
    <2> QED BY <2>1, OthersKeepLedger DEF TypeOK
  <1>6. Queue'
    <2>1. /\ up \in Seq({"send", "cancel"} \X Messages) /\ at \in [Messages -> Places]
          /\ up' = Append(up, <<"send", m>>) /\ at' = [at EXCEPT ![m] = "sent"]
          BY DEF TypeOK
    <2>2. \A i \in 1 .. Len(up) : up[i] # <<"send", m>> BY DEF Queue
    <2>3. /\ Len(up') = Len(up) + 1
          /\ \A i \in 1 .. Len(up) : up'[i] = up[i] /\ up[i] \in {"send", "cancel"} \X Messages
          /\ up'[Len(up) + 1] = <<"send", m>>
          BY <2>1
    <2>4. \A i \in 1 .. Len(up) : up[i][1] = "send" => up[i] = <<"send", up[i][2]>> BY <2>3
    <2>5. \A i \in 1 .. Len(up) : up'[i][1] = "send" => at'[up'[i][2]] = "sent"
          BY <2>1, <2>2, <2>3, <2>4 DEF Queue
    <2> QED BY <2>1, <2>2, <2>3, <2>5 DEF Queue
  <1> QED BY <1>1, <1>2, <1>4, <1>5, <1>6

(* Nothing on the server changes. *)
LEMMA ServerUntouched ==
    ASSUME CInv, UNCHANGED <<server, history, answered>>
    PROVE  Repeatable' /\ Crowds' /\ Registered' /\ Ledger'
  <1> USE DEF CInv, server, history
  <1>1. InFlight' = InFlight BY DEF InFlight
  <1>2. Crowds' /\ Registered' BY <1>1, IdleKeepsRegister
  <1>3. Repeatable' BY DEF Repeatable
  <1>4. Ledger' BY DEF Ledger, Single, Current
  <1> QED BY <1>2, <1>3, <1>4

(* Pressing Stop changes the client only. *)
LEMMA StopStep ==
    ASSUME CInv, stopGeneration
    PROVE  CInv'
  <1> USE DEF CInv, stopGeneration
  <1>1. up' \in Seq({"send", "cancel"} \X Messages) BY DEF TypeOK
  <1>2. TypeOK'
    <2>1. /\ UNCHANGED <<text, conn, at, sock, attempt, open, chunks, active, cancelled,
                         timedOut, crowded, replies, answered>>
          /\ busy' = None /\ stops' = stops + 1
          BY DEF server, history
    <2>2. TypeOK OBVIOUS
    <2> HIDE DEF CInv, stopGeneration
    <2> QED BY <1>1, <2>1, <2>2 DEF TypeOK
  <1>3. Queue'
    <2>1. /\ Len(up') = Len(up) + 1
          /\ \A i \in 1 .. Len(up) : up'[i] = up[i]
          /\ up'[Len(up) + 1][1] = "cancel" /\ Len(up) \in Nat
          BY DEF TypeOK
    <2>2. at' = at BY DEF server
    <2> SUFFICES ASSUME NEW i \in 1 .. Len(up'), up'[i][1] = "send"
                 PROVE  /\ at'[up'[i][2]] = "sent"
                        /\ \A j \in 1 .. Len(up') : up'[j] = up'[i] => j = i
        BY DEF Queue
    <2>3. i \in 1 .. Len(up) BY <2>1
    <2>4. \A j \in 1 .. Len(up') : up'[j] = up'[i] => j \in 1 .. Len(up) BY <2>1
    <2>5. Queue /\ up'[i] = up[i] BY <2>1, <2>3
    <2>6. /\ at[up[i][2]] = "sent"
          /\ \A j \in 1 .. Len(up) : up[j] = up[i] => j = i
          BY <2>3, <2>5 DEF Queue
    <2> HIDE DEF CInv, stopGeneration
    <2> QED BY <2>1, <2>2, <2>4, <2>5, <2>6
  <1> QED BY <1>2, <1>3, ServerUntouched

(* A broken connection loses packets, and nothing that is in flight. *)
LEMMA ReconnectStep ==
    ASSUME CInv, Reconnect
    PROVE  CInv'
  <1> USE DEF CInv
  <1>1. PICK n \in 0 .. Len(up) :
        /\ up' = SubSeq(up, 1, n)
        /\ at' = [m \in Messages |->
                    IF \E i \in n + 1 .. Len(up) : up[i] = <<"send", m>> THEN "lost" ELSE at[m]]
        BY DEF Reconnect
  <1>2. /\ UNCHANGED <<busy, text, stops, sock, attempt, open, chunks, active, cancelled,
                       timedOut, crowded, replies, answered>>
        /\ conn' \in Nat
        BY DEF Reconnect, client, history, TypeOK
  <1>3. \A m \in Messages : at'[m] = at[m] \/ (at[m] = "sent" /\ at'[m] = "lost")
    <2> TAKE m \in Messages
    <2>3. at'[m] = IF \E i \in n + 1 .. Len(up) : up[i] = <<"send", m>> THEN "lost" ELSE at[m]
          BY <1>1, Zenon
    <2>1. CASE \E i \in n + 1 .. Len(up) : up[i] = <<"send", m>>
      <3>1. PICK i \in n + 1 .. Len(up) : up[i] = <<"send", m>> BY <2>1
      <3>2. i \in 1 .. Len(up) /\ up[i][1] = "send" /\ up[i][2] = m BY <3>1 DEF TypeOK
      <3>3. at[m] = "sent" BY <3>2 DEF Queue
      <3> QED BY <2>3, <2>1, <3>3
    <2>2. CASE ~\E i \in n + 1 .. Len(up) : up[i] = <<"send", m>> BY <2>3, <2>2
    <2> QED BY <2>1, <2>2
  <1>4. /\ Len(up') = n /\ \A i \in 1 .. n : up'[i] = up[i]
        /\ up' \in Seq({"send", "cancel"} \X Messages)
    <2>1. up \in Seq({"send", "cancel"} \X Messages) /\ up' = SubSeq(up, 1, n)
          BY <1>1 DEF TypeOK
    <2> HIDE DEF CInv
    <2> QED BY <2>1
  <1>5. TypeOK'
    <2>1. at' \in [Messages -> Places]
      <3>1. \A m \in Messages : at'[m] \in Places BY <1>3 DEF TypeOK, Places
      <3>2. at' = [m \in Messages |-> at'[m]] BY <1>1
      <3> QED BY <3>1, <3>2
    <2> QED BY <1>2, <1>4, <2>1 DEF TypeOK
  <1>6. Queue'
    <2> SUFFICES ASSUME NEW i \in 1 .. n, up[i][1] = "send"
                 PROVE  /\ at'[up[i][2]] = "sent"
                        /\ \A j \in 1 .. n : up[j] = up[i] => j = i
        BY <1>4 DEF Queue
    <2>7. up \in Seq({"send", "cancel"} \X Messages) /\ n \in 0 .. Len(up) BY <1>1 DEF TypeOK
    <2>8. Len(up) \in Nat /\ i \in 1 .. Len(up) /\ i <= n BY <2>7
    <2>1. /\ Len(up) \in Nat /\ i \in 1 .. Len(up) /\ i <= n
          /\ up[i] \in {"send", "cancel"} \X Messages
          BY <2>7, <2>8
    <2>2. \A j \in n + 1 .. Len(up) : j \in 1 .. Len(up) /\ j # i BY <2>1
    <2>6. \A j \in n + 1 .. Len(up) : up[j] # up[i] BY <2>1, <2>2 DEF Queue
    <2>3. up[i] = <<"send", up[i][2]>> BY <2>1
    <2>4. at'[up[i][2]] = at[up[i][2]] BY <1>1, <2>1, <2>6, <2>3
    <2>5. \A j \in 1 .. n : j \in 1 .. Len(up) BY <2>1
    <2> QED BY <2>1, <2>4, <2>5 DEF Queue
  <1>7. InFlight' = InFlight BY <1>3 DEF InFlight
  <1>8. Crowds' /\ Registered' BY <1>2, <1>7, IdleKeepsRegister
  <1>9. Repeatable' BY <1>2, <1>3 DEF Repeatable
  <1>10. Ledger'
    <2> SUFFICES ASSUME NEW m \in Messages \ timedOut PROVE Single(m)' BY <1>2 DEF Ledger
    <2>1. Single(m) BY DEF Ledger
    <2>2. CASE at'[m] = at[m] BY <1>2, <2>1, <2>2 DEF Single, Current
    <2>3. CASE at[m] = "sent" BY <1>2, <2>1, <2>3 DEF Single, Current
    <2> QED BY <1>3, <2>2, <2>3
  <1> QED BY <1>5, <1>6, <1>8, <1>9, <1>10

-----------------------------------------------------------------------------
(* The handlers of packets *)

(* The queue without its head. *)
LEMMA HeadHandled ==
    ASSUME TypeOK, Queue, up # <<>>, up' = Tail(up),
           \A m \in Messages : at'[m] = at[m] \/ Head(up) = <<"send", m>>
    PROVE  Queue' /\ up' \in Seq({"send", "cancel"} \X Messages)
           /\ Head(up) \in {"send", "cancel"} \X Messages
  <1>1. /\ up \in Seq({"send", "cancel"} \X Messages) /\ Len(up) \in Nat \ {0}
        /\ up' \in Seq({"send", "cancel"} \X Messages)
        /\ Head(up) = up[1] /\ Len(up') = Len(up) - 1
        /\ \A i \in 1 .. Len(up') : up'[i] = up[i + 1]
        BY DEF TypeOK
  <1>2. \A i \in 1 .. Len(up) : up[i] \in {"send", "cancel"} \X Messages BY <1>1
  <1>3. ASSUME NEW i \in 1 .. Len(up'), up'[i][1] = "send"
        PROVE  /\ at'[up'[i][2]] = "sent"
               /\ \A j \in 1 .. Len(up') : up'[j] = up'[i] => j = i
    <2>1. /\ i + 1 \in 1 .. Len(up) /\ 1 \in 1 .. Len(up) /\ i + 1 # 1
          /\ up'[i] = up[i + 1]
          BY <1>1
    <2>2. \A j \in 1 .. Len(up) : up[j] = up[i + 1] => j = i + 1 BY <1>3, <2>1 DEF Queue
    <2>3. up[1] # up[i + 1] BY <2>1, <2>2
    <2>4. up[i + 1] = <<"send", up[i + 1][2]>> /\ up[i + 1][2] \in Messages
          BY <1>2, <1>3, <2>1
    <2>5. at'[up[i + 1][2]] = at[up[i + 1][2]] BY <1>1, <2>3, <2>4
    <2>6. at'[up'[i][2]] = "sent" BY <1>3, <2>1, <2>5 DEF Queue
    <2>7. ASSUME NEW j \in 1 .. Len(up'), up'[j] = up'[i] PROVE j = i
      <3>1. j + 1 \in 1 .. Len(up) /\ up'[j] = up[j + 1] BY <1>1
      <3> QED BY <1>1, <2>1, <2>2, <2>7, <3>1
    <2> QED BY <2>6, <2>7
  <1>4. Queue'
    <2> SUFFICES ASSUME NEW i \in 1 .. Len(up'), up'[i][1] = "send"
                 PROVE  /\ at'[up'[i][2]] = "sent"
                        /\ \A j \in 1 .. Len(up') : up'[j] = up'[i] => j = i
        BY DEF Queue
    <2> QED BY <1>3
  <1>5. Head(up) \in {"send", "cancel"} \X Messages
    <2>1. 1 \in 1 .. Len(up) BY <1>1
    <2> QED BY <1>1, <1>2, <2>1
  <1> QED BY <1>1, <1>4, <1>5

(* A message that arrives takes the register, and crowds who is in flight. *)
LEMMA ReceiveStep ==
    ASSUME CInv, NEW m \in Messages, receive(m)
    PROVE  CInv'
  <1> USE DEF CInv
  <1>1. /\ up # <<>> /\ Head(up) = <<"send", m>> /\ up' = Tail(up)
        /\ at' = [at EXCEPT ![m] = "prepare"] /\ active' = m
        /\ crowded' = IF InFlight = {} THEN crowded ELSE crowded \cup InFlight \cup {m}
        /\ UNCHANGED <<busy, text, stops, conn, sock, attempt, open, chunks, cancelled,
                       timedOut, replies, answered>>
        BY DEF receive, client
  <1>2. \A n \in Messages : at'[n] = at[n] \/ Head(up) = <<"send", n>> BY <1>1 DEF TypeOK
  <1>3. Queue' /\ up' \in Seq({"send", "cancel"} \X Messages) BY <1>1, <1>2, HeadHandled
  <1>4. at[m] = "sent"
    <2>1. 1 \in 1 .. Len(up) /\ up[1] = <<"send", m>>
      <3>1. up \in Seq({"send", "cancel"} \X Messages) BY DEF TypeOK
      <3>2. up # <<>> /\ Head(up) = <<"send", m>> BY <1>1
      <3> HIDE DEF CInv
      <3> QED BY <3>1, <3>2
    <2>2. up[1][1] = "send" /\ up[1][2] = m BY <2>1
    <2>3. Queue OBVIOUS
    <2> HIDE DEF CInv
    <2> QED BY <2>1, <2>2, <2>3 DEF Queue
  <1>5. TypeOK'
    <2>1. crowded' \in SUBSET Messages BY <1>1 DEF TypeOK, InFlight
    <2> QED BY <1>1, <1>3, <2>1 DEF TypeOK, Places
  <1>6. Repeatable' BY <1>1 DEF Repeatable, TypeOK
  <1>7. InFlight' = InFlight \cup {m} BY <1>1 DEF InFlight, TypeOK
  <1>8. Crowds'
    <2>1. CASE InFlight = {} BY <1>7, <2>1 DEF Crowds
    <2>2. CASE InFlight # {} BY <1>1, <1>7, <2>2 DEF Crowds
    <2> QED BY <2>1, <2>2
  <1>9. Registered'
    <2>1. CASE InFlight = {} BY <1>1, <1>7, <2>1 DEF Registered
    <2>2. CASE InFlight # {} BY <1>1, <1>7, <2>2 DEF Registered
    <2> QED BY <2>1, <2>2
  <1>10. Ledger'
    <2>1. m \notin timedOut => Single(m)'
          BY <1>1, <1>4 DEF Ledger, Single, Current, TypeOK
    <2> QED BY <1>1, <2>1, OthersKeepLedger DEF TypeOK
  <1> QED BY <1>3, <1>5, <1>6, <1>8, <1>9, <1>10

(* A cancel changes a flag. *)
LEMMA CancelStep ==
    ASSUME CInv, cancelStream
    PROVE  CInv'
  <1> USE DEF CInv
  <1>1. /\ up # <<>> /\ up' = Tail(up)
        /\ cancelled' = cancelled \cup ({active} \ {None})
        /\ UNCHANGED <<busy, text, stops, conn, at, sock, attempt, open, chunks, active,
                       timedOut, crowded, replies, answered>>
        BY DEF cancelStream, client, history
  <1>2. Queue' /\ up' \in Seq({"send", "cancel"} \X Messages) BY <1>1, HeadHandled
  <1>3. TypeOK' BY <1>1, <1>2 DEF TypeOK
  <1>4. InFlight' = InFlight BY <1>1 DEF InFlight
  <1>5. Crowds' /\ Registered' BY <1>1, <1>4, IdleKeepsRegister
  <1>6. Repeatable' BY <1>1 DEF Repeatable
  <1>7. Ledger' BY <1>1 DEF Ledger, Single, Current
  <1> QED BY <1>2, <1>3, <1>5, <1>6, <1>7

-----------------------------------------------------------------------------
(* The stream of a message *)

(* A queue is not disturbed by what happens to messages that are in flight. *)
LEMMA QueueKept ==
    ASSUME TypeOK, Queue, NEW m \in Messages, at[m] # "sent", NEW p,
           up' = up, at' = at \/ at' = [at EXCEPT ![m] = p]
    PROVE  Queue'
  <1>1. \A i \in 1 .. Len(up) : up[i] \in {"send", "cancel"} \X Messages BY DEF TypeOK
  <1>2. \A i \in 1 .. Len(up) : up[i][2] \in Messages BY <1>1
  <1>3. \A n \in Messages : at[n] = "sent" => at'[n] = "sent" BY DEF TypeOK
  <1> QED BY <1>2, <1>3 DEF Queue

(* An attempt starts for a message that has not said anything. *)
LEMMA StartStep ==
    ASSUME CInv, NEW m \in Messages, NEW k \in Attempts, at[m] \in {"prepare", "backoff"},
           Start(m, k), UNCHANGED <<stops, conn, up, sock, chunks, cancelled, history>>
    PROVE  CInv'
  <1> USE DEF CInv
  <1>1. /\ at' = [at EXCEPT ![m] = "stream"] /\ attempt' = [attempt EXCEPT ![m] = k]
        /\ open' = open \cup {<<m, k>>}
        /\ UNCHANGED <<stops, conn, up, sock, chunks, active, cancelled, timedOut, crowded,
                       replies, answered>>
        BY DEF Start, history
  <1>2. busy' \in Messages \cup {None} /\ text' \in Messages \cup {None}
        BY TellTypes DEF Start, TypeOK
  <1>3. TypeOK'
    <2>1. at' \in [Messages -> Places] BY <1>1 DEF TypeOK, Places
    <2>2. attempt' \in [Messages -> 0 .. maxAttempts]
          BY <1>1, ChatAssumption DEF TypeOK, Attempts
    <2>3. open' \in SUBSET (Messages \X Attempts)
      <3>1. <<m, k>> \in Messages \X Attempts OBVIOUS
      <3>2. open \in SUBSET (Messages \X Attempts) BY DEF TypeOK
      <3> QED BY <1>1, <3>1, <3>2
    <2>4. TypeOK OBVIOUS
    <2> HIDE DEF CInv
    <2> QED BY <1>1, <1>2, <2>1, <2>2, <2>3, <2>4 DEF TypeOK
  <1>4. Queue' BY <1>1, QueueKept
  <1>5. Repeatable' BY <1>1 DEF Repeatable, TypeOK
  <1>6. Crowds' /\ Registered' BY <1>1, StayKeepsRegister DEF InFlight
  <1>7. Ledger'
    <2>1. m \notin timedOut => Single(m)'
          BY <1>1 DEF Ledger, Single, Current, TypeOK
    <2>2. \A n \in Messages \ {m} :
             /\ at'[n] = at[n] /\ attempt'[n] = attempt[n]
             /\ chunks'[n] = chunks[n] /\ replies'[n] = replies[n]
             /\ \A j \in Attempts : <<n, j>> \in open' <=> <<n, j>> \in open
          BY <1>1 DEF TypeOK
    <2> QED BY <1>1, <2>1, <2>2, OthersKeepLedger
  <1> QED BY <1>3, <1>4, <1>5, <1>6, <1>7

(* The two ways to start one. *)
LEMMA PreparedStep ==
    ASSUME CInv, NEW m \in Messages, Prepared(m) \/ BackoffEnds(m)
    PROVE  CInv'
  <1>1. CASE Prepared(m)
    <2>1. 1 \in Attempts BY ChatAssumption DEF Attempts
    <2> QED BY <1>1, <2>1, StartStep DEF Prepared
  <1>2. CASE BackoffEnds(m)
    <2>1. attempt[m] + 1 \in Attempts BY <1>2 DEF CInv, Repeatable, BackoffEnds
    <2> QED BY <1>2, <2>1, StartStep DEF BackoffEnds
  <1> QED BY <1>1, <1>2

(* A message without a time-out comes to its end, its requests closed. *)
LEMMA AnswerStep ==
    ASSUME CInv, NEW m \in InFlight, Answer(m),
           UNCHANGED <<stops, conn, up, sock, chunks, cancelled, crowded>>,
           timedOut' \in SUBSET Messages, timedOut \subseteq timedOut',
           replies' \in [Messages -> Nat], open' \subseteq open,
           \A n \in Messages \ {m} : replies'[n] = replies[n],
           \A n \in Messages \ {m}, j \in Attempts : <<n, j>> \in open => <<n, j>> \in open',
           m \notin timedOut' =>
              /\ \A k \in Attempts : <<m, k>> \notin open'
              /\ at[m] \in {"prepare", "stream"}
              /\ replies'[m] <= replies[m] + 1
    PROVE  CInv'
  <1> USE DEF CInv
  <1>1. /\ busy' \in Messages \cup {None} /\ text' \in Messages \cup {None}
        /\ at' = [at EXCEPT ![m] = "done"] /\ active' = None /\ attempt' = attempt
        /\ answered' \in SUBSET Messages
        BY AnswerTypes DEF InFlight
  <1>2. TypeOK'
    <2>1. at' \in [Messages -> Places] BY <1>1 DEF TypeOK, Places
    <2> QED BY <1>1, <2>1 DEF TypeOK
  <1>3. Queue' BY <1>1, QueueKept DEF InFlight
  <1>4. Repeatable' BY <1>1 DEF Repeatable, TypeOK
  <1>5. Crowds' /\ Registered' BY <1>1, EndKeepsRegister
  <1>6. Ledger'
    <2>1. m \notin timedOut' => Single(m)'
      <3> SUFFICES ASSUME m \notin timedOut' PROVE Single(m)' OBVIOUS
      <3>1. m \in Messages /\ Single(m) BY DEF Ledger, InFlight
      <3>2. replies[m] \in Nat /\ replies'[m] \in Nat BY <3>1 DEF TypeOK
      <3>3. replies'[m] <= 1 BY <3>1, <3>2 DEF Single
      <3>4. at'[m] = "done" BY <1>1, <3>1 DEF TypeOK
      <3> QED BY <1>1, <3>1, <3>3, <3>4 DEF Single
    <2>2. \A n \in Messages \ {m} :
             /\ at'[n] = at[n] /\ attempt'[n] = attempt[n]
             /\ chunks'[n] = chunks[n] /\ replies'[n] = replies[n]
             /\ \A j \in Attempts : <<n, j>> \in open' <=> <<n, j>> \in open
          BY <1>1 DEF TypeOK
    <2> QED BY <2>1, <2>2, OthersKeepLedger DEF InFlight
  <1> QED BY <1>2, <1>3, <1>4, <1>5, <1>6

(* An attempt has failed that is to be repeated: nothing of it was seen. *)
LEMMA BackoffStep ==
    ASSUME CInv, NEW m \in InFlight, at[m] = "stream", AttemptFails(m), ~Answer(m),
           UNCHANGED <<stops, conn, up, sock, chunks, cancelled, crowded, replies>>,
           timedOut' \in SUBSET Messages, timedOut \subseteq timedOut',
           open' \subseteq open,
           \A n \in Messages \ {m}, j \in Attempts : <<n, j>> \in open => <<n, j>> \in open',
           m \notin timedOut' => \A k \in Attempts : <<m, k>> \notin open'
    PROVE  CInv'
  <1> USE DEF CInv
  <1>1. /\ at' = [at EXCEPT ![m] = "backoff"] /\ attempt[m] # maxAttempts
        /\ \A k \in Attempts : ~(chunks[m][k] > 0)
        /\ UNCHANGED <<attempt, active, busy, text, answered>>
        BY DEF AttemptFails, screen, streamed
  <1>2. m \in Messages BY DEF InFlight
  <1>3. TypeOK'
    <2>1. at' \in [Messages -> Places] BY <1>1 DEF TypeOK, Places
    <2> QED BY <1>1, <2>1 DEF TypeOK
  <1>4. Queue' BY <1>1, <1>2, QueueKept
  <1>5. Repeatable'
    <2>2. attempt[m] \in 0 .. maxAttempts BY <1>2 DEF TypeOK
    <2>1. attempt[m] + 1 \in Attempts BY <1>1, <2>2, ChatAssumption DEF Attempts
    <2> QED BY <1>1, <2>1 DEF Repeatable, TypeOK
  <1>6. Crowds' /\ Registered' BY <1>1, StayKeepsRegister
  <1>7. Ledger'
    <2>1. m \notin timedOut' => Single(m)'
      <3> SUFFICES ASSUME m \notin timedOut' PROVE Single(m)' OBVIOUS
      <3>1. Single(m) BY <1>2 DEF Ledger
      <3>2. replies[m] \in Nat BY <1>2 DEF TypeOK
      <3>3. ~(replies[m] > 0) BY <3>1 DEF Single
      <3> QED BY <1>1, <3>1, <3>3 DEF Single
    <2>2. \A n \in Messages \ {m} :
             /\ at'[n] = at[n] /\ attempt'[n] = attempt[n]
             /\ chunks'[n] = chunks[n] /\ replies'[n] = replies[n]
             /\ \A j \in Attempts : <<n, j>> \in open' <=> <<n, j>> \in open
          BY <1>1 DEF TypeOK
    <2> QED BY <1>2, <2>1, <2>2, OthersKeepLedger
  <1> QED BY <1>3, <1>4, <1>5, <1>6, <1>7

(* Nothing could be prepared. *)
LEMMA PrepareFailsStep ==
    ASSUME CInv, NEW m \in Messages, PrepareFails(m)
    PROVE  CInv'
  <1> USE DEF CInv
  <1>1. /\ Answer(m) /\ at[m] = "prepare"
        /\ UNCHANGED <<stops, conn, up, sock, open, chunks, cancelled,
                       timedOut, crowded, replies>>
        BY DEF PrepareFails, history
  <1>2. m \in InFlight BY <1>1 DEF InFlight
  <1>3. timedOut \in SUBSET Messages /\ replies \in [Messages -> Nat] BY DEF TypeOK
  <1>4. m \notin timedOut => \A k \in Attempts : <<m, k>> \notin open
        BY <1>1 DEF Ledger, Single, Current
  <1>5. replies' \in [Messages -> Nat] /\ replies'[m] <= replies[m] + 1 BY <1>1, <1>3
  <1> HIDE DEF CInv
  <1> QED BY <1>1, <1>2, <1>3, <1>4, <1>5, AnswerStep

(* A chunk arrives, from the request that is awaited or from an old one. *)
LEMMA ChunkStep ==
    ASSUME CInv, NEW m \in Messages, NEW k \in Attempts, Chunk(m, k)
    PROVE  CInv'
  <1> USE DEF CInv
  <1>1. /\ <<m, k>> \in open
        /\ chunks' = [chunks EXCEPT ![m][k] = @ + 1]
        /\ UNCHANGED <<stops, conn, up, at, sock, attempt, open, active, cancelled,
                       timedOut, crowded, replies, answered>>
        BY DEF Chunk, history
  <1>2. busy' \in Messages \cup {None} /\ text' \in Messages \cup {None}
        BY TellTypes DEF Chunk, TypeOK
  <1>3. TypeOK'
    <2>1. chunks' \in [Messages -> [Attempts -> Nat]] BY <1>1 DEF TypeOK
    <2> QED BY <1>1, <1>2, <2>1 DEF TypeOK
  <1>4. Queue' BY <1>1 DEF Queue
  <1>5. InFlight' = InFlight BY <1>1 DEF InFlight
  <1>6. Crowds' /\ Registered' BY <1>1, <1>5, IdleKeepsRegister
  <1>7. Repeatable' BY <1>1 DEF Repeatable
  <1>8. Ledger'
    <2>1. m \notin timedOut => Single(m)'
      <3> SUFFICES ASSUME m \notin timedOut PROVE Single(m)' OBVIOUS
      <3>1. Single(m) BY DEF Ledger
      <3>2. at[m] = "stream" /\ attempt[m] = k BY <1>1, <3>1 DEF Single, Current
      <3>3. \A j \in Attempts \ {k} : chunks'[m][j] = chunks[m][j] BY <1>1 DEF TypeOK
      <3> QED BY <1>1, <3>1, <3>2, <3>3 DEF Single, Current
    <2>2. \A n \in Messages \ {m} : chunks'[n] = chunks[n] BY <1>1 DEF TypeOK
    <2> QED BY <1>1, <2>1, <2>2, OthersKeepLedger
  <1> QED BY <1>3, <1>4, <1>6, <1>7, <1>8

(* A request has said all. *)
LEMMA CompleteStep ==
    ASSUME CInv, NEW m \in Messages, NEW k \in Attempts, Complete(m, k)
    PROVE  CInv'
  <1> USE DEF CInv
  <1>1. /\ <<m, k>> \in open /\ open' = open \ {<<m, k>>}
        /\ replies' = [replies EXCEPT ![m] = @ + 1]
        /\ UNCHANGED <<stops, conn, up, sock, chunks, cancelled, timedOut, crowded>>
        BY DEF Complete
  <1>2. /\ replies' \in [Messages -> Nat] /\ replies'[m] = replies[m] + 1
        /\ \A n \in Messages \ {m} : replies'[n] = replies[n]
        BY <1>1 DEF TypeOK
  <1>3. CASE Current(m, k) /\ Answer(m)
    <2>1. m \in InFlight BY <1>3 DEF InFlight, Current
    <2>2. m \notin timedOut => \A j \in Attempts : <<m, j>> \notin open'
          BY <1>1, <1>3 DEF Ledger, Single, Current
    <2>3. at[m] = "stream" /\ timedOut \in SUBSET Messages /\ replies[m] \in Nat
          BY <1>3 DEF Current, TypeOK
    <2>4. replies'[m] <= replies[m] + 1 BY <1>2, <2>3
    <2> HIDE DEF CInv
    <2> QED BY <1>1, <1>2, <1>3, <2>1, <2>2, <2>3, <2>4, AnswerStep
  <1>4. CASE ~Current(m, k)
    <2>1. Emit(m, "end") /\ UNCHANGED <<at, attempt, active, answered>>
          BY <1>4 DEF Complete
    <2>2. busy' \in Messages \cup {None} /\ text' \in Messages \cup {None}
          BY <2>1, ScreenTypes DEF TypeOK
    <2>3. TypeOK' BY <1>1, <1>2, <2>1, <2>2 DEF TypeOK
    <2>4. Queue' BY <1>1, <2>1 DEF Queue
    <2>5. InFlight' = InFlight BY <2>1 DEF InFlight
    <2>6. Crowds' /\ Registered' BY <1>1, <2>1, <2>5, IdleKeepsRegister
    <2>7. Repeatable' BY <2>1 DEF Repeatable
    <2>8. Ledger'
      <3>1. m \in timedOut BY <1>1, <1>4 DEF Ledger, Single
      <3> QED BY <1>1, <1>2, <2>1, <3>1, OthersKeepLedger
    <2> QED BY <2>3, <2>4, <2>6, <2>7, <2>8
  <1> QED BY <1>3, <1>4 DEF Complete

(* A request breaks off. *)
LEMMA FailStep ==
    ASSUME CInv, NEW m \in Messages, NEW k \in Attempts, Fail(m, k)
    PROVE  CInv'
  <1> USE DEF CInv
  <1>1. /\ <<m, k>> \in open /\ open' = open \ {<<m, k>>}
        /\ UNCHANGED <<stops, conn, up, sock, chunks, cancelled, timedOut, crowded, replies>>
        BY DEF Fail, history
  <1>2. timedOut \in SUBSET Messages /\ replies \in [Messages -> Nat] BY DEF TypeOK
  <1>3. CASE Current(m, k) /\ AttemptFails(m)
    <2>1. m \in InFlight /\ at[m] = "stream" BY <1>3 DEF InFlight, Current
    <2>2. m \notin timedOut => \A j \in Attempts : <<m, j>> \notin open'
          BY <1>1, <1>3 DEF Ledger, Single, Current
    <2>3. replies'[m] <= replies[m] + 1 BY <1>1, <1>2
    <2> HIDE DEF CInv
    <2>4. CASE Answer(m)
          BY <1>1, <1>2, <2>1, <2>2, <2>3, <2>4, AnswerStep
    <2>5. CASE ~Answer(m)
          BY <1>1, <1>2, <1>3, <2>1, <2>2, <2>5, BackoffStep
    <2> QED BY <2>4, <2>5
  <1>4. CASE ~Current(m, k)
    <2>1. UNCHANGED <<at, attempt, active, screen, answered>> BY <1>4 DEF Fail
    <2>2. TypeOK' BY <1>1, <2>1 DEF TypeOK, screen
    <2>3. Queue' BY <1>1, <2>1 DEF Queue
    <2>4. InFlight' = InFlight BY <2>1 DEF InFlight
    <2>5. Crowds' /\ Registered' BY <1>1, <2>1, <2>4, IdleKeepsRegister
    <2>6. Repeatable' BY <2>1 DEF Repeatable
    <2>7. Ledger'
      <3>1. m \in timedOut BY <1>1, <1>4 DEF Ledger, Single
      <3> QED BY <1>1, <2>1, <3>1, OthersKeepLedger
    <2> QED BY <2>2, <2>3, <2>5, <2>6, <2>7
  <1> QED BY <1>3, <1>4 DEF Fail

(* The awaited request takes too long, and goes on. *)
LEMMA TimesOutStep ==
    ASSUME CInv, NEW m \in Messages, TimesOut(m)
    PROVE  CInv'
  <1>1. /\ at[m] = "stream" /\ AttemptFails(m)
        /\ timedOut' = timedOut \cup {m}
        /\ UNCHANGED <<stops, conn, up, sock, open, chunks, cancelled, crowded, replies>>
        BY DEF TimesOut
  <1>2. /\ timedOut' \in SUBSET Messages /\ replies \in [Messages -> Nat]
        /\ m \in InFlight /\ m \in timedOut'
        BY <1>1 DEF CInv, TypeOK, InFlight
  <1>3. CASE Answer(m) BY <1>1, <1>2, <1>3, AnswerStep
  <1>4. CASE ~Answer(m) BY <1>1, <1>2, <1>4, BackoffStep
  <1> QED BY <1>3, <1>4

-----------------------------------------------------------------------------
(* A stutter keeps the invariant. *)
LEMMA StutterStep ==
    ASSUME CInv, UNCHANGED vars
    PROVE  CInv'
  <1>1. UNCHANGED <<busy, text, stops, conn, up, at, sock, attempt, open, chunks, active,
                    cancelled, timedOut, crowded, replies, answered>>
        BY DEF vars
  <1>2. TypeOK' BY <1>1 DEF CInv, TypeOK
  <1>3. Queue' BY <1>1 DEF CInv, Queue
  <1>4. UNCHANGED <<server, history, answered>> BY DEF vars, server, history
  <1>5. Repeatable' /\ Crowds' /\ Registered' /\ Ledger' BY <1>4, ServerUntouched
  <1> QED BY <1>2, <1>3, <1>5 DEF CInv

(* CInv is an invariant of the chat. *)
THEOREM Invariance == Spec => []CInv
  <1>1. Init => CInv BY InitCInv
  <1>2. CInv /\ [Next]_vars => CInv'
    <2> SUFFICES ASSUME CInv, [Next]_vars PROVE CInv' OBVIOUS
    <2>1. CASE stopGeneration BY <2>1, StopStep
    <2>2. CASE Reconnect BY <2>2, ReconnectStep
    <2>3. CASE cancelStream BY <2>3, CancelStep
    <2>4. ASSUME NEW m \in Messages, send(m) PROVE CInv' BY <2>4, SendStep
    <2>5. ASSUME NEW m \in Messages, receive(m) PROVE CInv' BY <2>5, ReceiveStep
    <2>6. ASSUME NEW m \in Messages, Prepared(m) \/ BackoffEnds(m) PROVE CInv'
          BY <2>6, PreparedStep
    <2>7. ASSUME NEW m \in Messages, PrepareFails(m) PROVE CInv' BY <2>7, PrepareFailsStep
    <2>8. ASSUME NEW m \in Messages, TimesOut(m) PROVE CInv' BY <2>8, TimesOutStep
    <2>9. ASSUME NEW m \in Messages, NEW k \in Attempts, Chunk(m, k) PROVE CInv'
          BY <2>9, ChunkStep
    <2>10. ASSUME NEW m \in Messages, NEW k \in Attempts, Complete(m, k) PROVE CInv'
          BY <2>10, CompleteStep
    <2>11. ASSUME NEW m \in Messages, NEW k \in Attempts, Fail(m, k) PROVE CInv'
          BY <2>11, FailStep
    <2>12. CASE UNCHANGED vars BY <2>12, StutterStep
    <2> QED BY <2>1, <2>2, <2>3, <2>4, <2>5, <2>6, <2>7, <2>8, <2>9, <2>10, <2>11, <2>12
            DEF Next
  <1> QED BY <1>1, <1>2, PTL DEF Spec

(* Every variable of the chat holds values of its kind. *)
THEOREM ChatTypes == Spec => []TypeOK
  <1>1. CInv => TypeOK BY DEF CInv
  <1> QED BY <1>1, Invariance, PTL

(***************************************************************************)
(* cancelStream() finds the stream of a user who has one at a time, and    *)
(* never one that is over.                                                 *)
(***************************************************************************)
THEOREM StreamRegistered == Spec => []Registered
  <1>1. CInv => Registered BY DEF CInv
  <1> QED BY <1>1, Invariance, PTL

(* Without a time-out in streamReply(), one request answers a message, once. *)
THEOREM OneAnswer == Spec => []AnsweredOnce
  <1>1. CInv => AnsweredOnce
    <2> SUFFICES ASSUME CInv, NEW m \in Messages \ timedOut
                 PROVE  /\ \A k \in Attempts : <<m, k>> \in open => Current(m, k)
                        /\ \A j, k \in Attempts : chunks[m][j] > 0 /\ chunks[m][k] > 0 => j = k
                        /\ replies[m] <= 1
        BY DEF AnsweredOnce
    <2>1. Single(m) BY DEF CInv, Ledger
    <2> QED BY <2>1 DEF Single
  <1> QED BY <1>1, Invariance, PTL

(***************************************************************************)
(* handleChatCancel() finds in activeStreams the stream that the user      *)
(* stops, and what is marked there emits nothing more of its text.         *)
(***************************************************************************)
THEOREM StopHeeded == Spec => StopIsHeeded
  <1> DEFINE Silent(m) == /\ text' = m => text = m
                          /\ busy' = m => busy = m
                          /\ m \in answered' => m \in answered
             Found(m)  == cancelStream /\ Head(up) = <<"cancel", m>> =>
                              cancelled' = cancelled \cup {m}
  <1>1. ASSUME NEW m \in cancelled, CInv, [Next]_vars PROVE Silent(m)
    <2> m \in Messages /\ m # None BY <1>1, ChatAssumption DEF CInv, TypeOK
    <2>1. ASSUME NEW n, NEW e, Tell(n, e) PROVE (text' = m => text = m) /\ (busy' = m => busy = m)
          BY <1>1, <2>1 DEF Tell, Emit, Handle, screen
    <2>2. ASSUME NEW n, NEW e, e \in {"end", "answer"}, Emit(n, e)
          PROVE  (text' = m => text = m) /\ (busy' = m => busy = m)
          BY <1>1, <2>2 DEF Emit, Handle, screen
    <2>3. ASSUME NEW n, Answer(n) PROVE Silent(m)
          BY <1>1, <2>2, <2>3 DEF Answer
    <2>4. ASSUME NEW n, AttemptFails(n) PROVE Silent(m)
          BY <1>1, <2>3, <2>4 DEF AttemptFails, screen
    <2>5. ASSUME NEW n, NEW k, Start(n, k) PROVE Silent(m)
          BY <1>1, <2>1, <2>5 DEF Start
    <2>6. CASE stopGeneration \/ Reconnect \/ cancelStream
          BY <2>6 DEF stopGeneration, Reconnect, cancelStream, client
    <2>7. ASSUME NEW n \in Messages, send(n) \/ receive(n) PROVE Silent(m)
          BY <2>7 DEF send, receive, client
    <2>8. ASSUME NEW n \in Messages, Prepared(n) \/ BackoffEnds(n) PROVE Silent(m)
          BY <2>5, <2>8 DEF Prepared, BackoffEnds
    <2>9. ASSUME NEW n \in Messages, PrepareFails(n) \/ TimesOut(n) PROVE Silent(m)
          BY <2>3, <2>4, <2>9 DEF PrepareFails, TimesOut
    <2>10. ASSUME NEW n \in Messages, NEW k \in Attempts, Chunk(n, k) PROVE Silent(m)
          BY <2>1, <2>10 DEF Chunk
    <2>11. ASSUME NEW n \in Messages, NEW k \in Attempts, Complete(n, k) PROVE Silent(m)
          BY <2>2, <2>3, <2>11 DEF Complete
    <2>12. ASSUME NEW n \in Messages, NEW k \in Attempts, Fail(n, k) PROVE Silent(m)
          BY <2>4, <2>12 DEF Fail, screen
    <2>13. CASE UNCHANGED vars BY <2>13 DEF vars
    <2> QED BY <1>1, <2>6, <2>7, <2>8, <2>9, <2>10, <2>11, <2>12, <2>13 DEF Next
  <1>2. ASSUME CInv, NEW m \in InFlight \ crowded PROVE Found(m)
    <2>1. active = m BY <1>2 DEF CInv, Registered
    <2>2. m # None BY ChatAssumption DEF InFlight
    <2> QED BY <2>1, <2>2 DEF cancelStream
  <1>3. CInv /\ [Next]_vars =>
            [/\ \A m \in InFlight \ crowded :
                    cancelStream /\ Head(up) = <<"cancel", m>> => cancelled' = cancelled \cup {m}
             /\ \A m \in cancelled : /\ text' = m => text = m
                                     /\ busy' = m => busy = m
                                     /\ m \in answered' => m \in answered]_vars
        BY <1>1, <1>2
  <1> QED BY <1>3, Invariance, PTL DEF Spec, StopIsHeeded

(***************************************************************************)
(* The end of message m is still to come, or was sent on a connection that *)
(* is no more.  Where the client shows m, one of the two is so: the end of *)
(* whatever stream clears the screen, and a new start replaces what it     *)
(* shows.                                                                  *)
(***************************************************************************)
Awaited(m) ==
    /\ at[m] # "unsent"
    /\ at[m] \in {"stream", "backoff"} \/ sock[m] # conn

Shown ==
    /\ \A m \in Messages : sock[m] <= conn
    /\ busy # None => Awaited(busy)
    /\ text # None => Awaited(text) \/ text \in timedOut

(* Steps after which the client shows what it did, or less. *)
LEMMA LessShown ==
    ASSUME Shown, UNCHANGED conn, \A m \in Messages : sock'[m] <= conn,
           busy' \in {busy, None}, text' \in {text, None}, timedOut \subseteq timedOut',
           busy # None => Awaited(busy)', text # None /\ Awaited(text) => Awaited(text)'
    PROVE  Shown'
  BY DEF Shown

(* The end of m leaves an empty screen, if it arrives. *)
LEMMA EndShown ==
    ASSUME CInv, Shown, NEW m \in InFlight, NEW e \in {"end", "answer"}, Emit(m, e),
           at' = [at EXCEPT ![m] = "done"], UNCHANGED <<conn, sock>>, timedOut \subseteq timedOut'
    PROVE  Shown'
  <1>1. CASE sock[m] = conn BY <1>1 DEF Shown, Emit, Handle
  <1>2. CASE sock[m] # conn
    <2>1. UNCHANGED <<busy, text>> BY <1>2 DEF Emit, screen
    <2>2. \A n \in Messages : Awaited(n) => Awaited(n)'
          BY <1>2 DEF Awaited, CInv, TypeOK
    <2> QED BY <2>1, <2>2 DEF Shown, CInv, TypeOK
  <1> QED BY <1>1, <1>2

LEMMA AnswerShown ==
    ASSUME CInv, Shown, NEW m \in InFlight, Answer(m), UNCHANGED <<conn, sock>>,
           timedOut \subseteq timedOut'
    PROVE  Shown'
  BY EndShown DEF Answer

LEMMA AttemptFailsShown ==
    ASSUME CInv, Shown, NEW m \in InFlight, AttemptFails(m), UNCHANGED <<conn, sock>>,
           timedOut \subseteq timedOut'
    PROVE  Shown'
  <1>1. CASE Answer(m) BY <1>1, AnswerShown
  <1>2. CASE ~Answer(m)
    <2>1. at' = [at EXCEPT ![m] = "backoff"] /\ UNCHANGED <<busy, text>>
          BY <1>2 DEF AttemptFails, screen
    <2>2. \A n \in Messages : Awaited(n) => Awaited(n)'
          BY <2>1 DEF Awaited, CInv, TypeOK
    <2> QED BY <2>1, <2>2 DEF Shown, CInv, TypeOK
  <1> QED BY <1>1, <1>2

LEMMA StartShown ==
    ASSUME CInv, Shown, NEW m \in InFlight, NEW k, Start(m, k),
           UNCHANGED <<conn, sock, timedOut>>
    PROVE  Shown'
  <1>1. m \in Messages /\ at' = [at EXCEPT ![m] = "stream"] BY DEF InFlight, Start
  <1>2. \A n \in Messages : Awaited(n) => Awaited(n)'
        BY <1>1 DEF Awaited, CInv, TypeOK
  <1>3. Awaited(m)' BY <1>1 DEF Awaited, CInv, TypeOK
  <1>4. \/ busy' = m /\ text' = None
        \/ UNCHANGED <<busy, text>>
        BY DEF Start, Tell, Emit, Handle, screen
  <1> QED BY <1>2, <1>3, <1>4 DEF Shown, CInv, TypeOK

(* Only a request of a message in flight speaks, unless an attempt timed out. *)
LEMMA ChunkShown ==
    ASSUME CInv, Shown, NEW m \in Messages, NEW k \in Attempts, Chunk(m, k)
    PROVE  Shown'
  <1>1. /\ <<m, k>> \in open /\ UNCHANGED <<conn, sock, timedOut, at, busy>>
        /\ text' \in {m, text}
        BY DEF Chunk, Tell, Emit, Handle, screen, history
  <1>2. Awaited(m) \/ m \in timedOut
        BY <1>1 DEF CInv, Ledger, Single, Current, Awaited
  <1> QED BY <1>1, <1>2 DEF Shown, Awaited

LEMMA ShownStep ==
    ASSUME CInv, Shown, [Next]_vars
    PROVE  Shown'
  <1>1. CASE stopGeneration
        BY <1>1, LessShown DEF stopGeneration, server, history, Shown, Awaited
  <1>2. CASE Reconnect
    <2>1. /\ conn' = conn + 1 /\ UNCHANGED <<busy, text, sock, timedOut>>
          /\ \A m \in Messages : at[m] # "unsent" => at'[m] # "unsent"
          BY <1>2 DEF Reconnect, client, history
    <2>2. \A m \in Messages : sock'[m] # conn' /\ sock'[m] <= conn'
          BY <2>1 DEF Shown, CInv, TypeOK
    <2> QED BY <2>1, <2>2 DEF Shown, Awaited, CInv, TypeOK
  <1>3. CASE cancelStream
        BY <1>3, LessShown DEF cancelStream, client, history, Shown, Awaited
  <1>4. ASSUME NEW m \in Messages, send(m) PROVE Shown'
    <2>1. /\ at[m] = "unsent" /\ at' = [at EXCEPT ![m] = "sent"]
          /\ sock' = [sock EXCEPT ![m] = conn] /\ UNCHANGED <<busy, text, conn, timedOut>>
          BY <1>4 DEF send, client, history
    <2>2. \A n \in Messages : Awaited(n) => Awaited(n)'
          BY <2>1 DEF Awaited, CInv, TypeOK
    <2>3. \A n \in Messages : sock'[n] <= conn BY <2>1 DEF Shown, CInv, TypeOK
    <2> QED BY <2>1, <2>2, <2>3 DEF Shown, CInv, TypeOK
  <1>5. ASSUME NEW m \in Messages, receive(m) PROVE Shown'
    <2>1. /\ at' = [at EXCEPT ![m] = "prepare"]
          /\ UNCHANGED <<busy, text, conn, sock, timedOut>>
          BY <1>5 DEF receive, client
    <2>2. at[m] = "sent" BY <1>5 DEF receive, CInv, Queue
    <2>3. \A n \in Messages : Awaited(n) => Awaited(n)'
          BY <2>1, <2>2 DEF Awaited, CInv, TypeOK
    <2> QED BY <2>1, <2>3 DEF Shown, CInv, TypeOK
  <1>6. ASSUME NEW m \in Messages, Prepared(m) \/ BackoffEnds(m) PROVE Shown'
    <2>1. m \in InFlight BY <1>6 DEF InFlight, Prepared, BackoffEnds
    <2> QED BY <1>6, <2>1, StartShown DEF Prepared, BackoffEnds, history
  <1>7. ASSUME NEW m \in Messages, PrepareFails(m) PROVE Shown'
    <2>1. m \in InFlight BY <1>7 DEF InFlight, PrepareFails
    <2> QED BY <1>7, <2>1, AnswerShown DEF PrepareFails, history
  <1>8. ASSUME NEW m \in Messages, TimesOut(m) PROVE Shown'
    <2>1. m \in InFlight BY <1>8 DEF InFlight, TimesOut
    <2> QED BY <1>8, <2>1, AttemptFailsShown DEF TimesOut
  <1>9. ASSUME NEW m \in Messages, NEW k \in Attempts, Complete(m, k) PROVE Shown'
    <2>1. CASE Current(m, k) /\ Answer(m)
      <3>1. m \in InFlight BY <2>1 DEF InFlight, Current
      <3> QED BY <1>9, <2>1, <3>1, AnswerShown DEF Complete
    <2>2. CASE Emit(m, "end") /\ UNCHANGED at
          BY <1>9, <2>2 DEF Complete, Emit, Handle, screen, Shown, Awaited
    <2> QED BY <1>9, <2>1, <2>2 DEF Complete
  <1>10. ASSUME NEW m \in Messages, NEW k \in Attempts, Fail(m, k) PROVE Shown'
    <2>1. CASE Current(m, k) /\ AttemptFails(m)
      <3>1. m \in InFlight BY <2>1 DEF InFlight, Current
      <3> QED BY <1>10, <2>1, <3>1, AttemptFailsShown DEF Fail, history
    <2>2. CASE ~Current(m, k)
          BY <1>10, <2>2 DEF Fail, history, screen, Shown, Awaited
    <2> QED BY <1>10, <2>1, <2>2 DEF Fail
  <1>11. CASE UNCHANGED vars BY <1>11 DEF vars, Shown, Awaited
  <1> QED BY <1>1, <1>2, <1>3, <1>4, <1>5, <1>6, <1>7, <1>8, <1>9, <1>10, <1>11, ChunkShown
          DEF Next

(* The client is released, whatever was stopped, overlapped or given up. *)
THEOREM Settles == Spec => []ClientSettles
  <1>1. Init => Shown BY DEF Init, Shown
  <1>2. CInv /\ Shown /\ [Next]_vars => Shown' BY ShownStep
  <1>3. Shown => ClientSettles BY DEF Shown, Awaited, ClientSettles
  <1> QED BY <1>1, <1>2, <1>3, Invariance, PTL DEF Spec
=============================================================================
