-------------------------- MODULE ClientSocketProofs --------------------------
(***************************************************************************)
(* What is proved of the components of the client that are about what is   *)
(* under way between it and the server, when connections drop and answers  *)
(* overtake each other; and then what holds of all components together,    *)
(* those of ClientProofs included.                                         *)
(***************************************************************************)
EXTENDS ClientProofs, WellFoundedInduction

(* Some numbers have a least one.                                           *)
Less == OpToRel(<, Nat)

LEMMA LessIs == Less = {p \in Nat \X Nat : p[1] < p[2]}
  BY DEF Less, OpToRel

LEMMA LeastNumber ==
    ASSUME NEW S \in SUBSET Nat, S # {}
    PROVE  \E m \in S : \A n \in S : m =< n
  <1>1. IsWellFoundedOn(Less, Nat) BY NatLessThanWellFounded DEF Less
  <1>2. PICK m \in S : \A y \in S : ~(<<y, m>> \in Less)
    BY <1>1, WFMin
  <1>3. \A y \in S : ~(y < m) BY <1>2, LessIs
  <1> QED BY <1>3

(***************************************************************************)
(* Connection.tla                                                          *)
(***************************************************************************)

(* What the sign-in is at says which socket there is, as long as no token    *)
(* has gone and left its own.                                               *)
ConnectionSocketIsOfAuth ==
    /\ auth = "out" => token = Connection!None /\ sock = Connection!None
    /\ auth = "me" => token # Connection!None /\ sock \in {Connection!None, token}
    /\ auth = "in" => token # Connection!None /\ sock = token
    /\ auth = "leaving" => token # Connection!None /\ wired = token /\ sock = Connection!None

(* What the window says is what its handlers have been told.                 *)
ConnectionHandlersTold ==
    /\ connects => up /\ wired # Connection!None
    /\ up /\ wired = token /\ token # Connection!None => connects

(* Where a call may be, by what it was told.                                 *)
ConnectionOnceOnly(c) ==
    /\ place[c] \in {"wire", "buffer"} => told[c] \in {"waits", "timeout"} /\ done[c] = 0
    /\ place[c] \in {"server", "left", "back"} => told[c] \in {"waits", "timeout"} /\ done[c] = 1
    /\ told[c] \in {"nothing", "refused"} => place[c] = "nowhere" /\ done[c] = 0
    /\ told[c] = "result" => place[c] = "nowhere" /\ done[c] = 1
    /\ done[c] \in {0, 1}

ConnectionSigned ==
    /\ given \in 0..MaxTokens
    /\ token \in 0..given /\ wired \in 0..given /\ sock \in 0..given
    /\ auth \in {"out", "me", "in", "leaving"}
ConnectionSockets == up \in BOOLEAN /\ downs \in 0..MaxDowns /\ connects \in BOOLEAN /\ orphaned \in BOOLEAN
ConnectionPlaces == {"nowhere", "buffer", "wire", "server", "left", "back"}
ConnectionAnswers == {"nothing", "waits", "result", "refused", "timeout"}
ConnectionAcks ==
    /\ told \in [Emits -> ConnectionAnswers]
    /\ place \in [Emits -> ConnectionPlaces]
    /\ done \in [Emits -> 0..2]

ConnectionInv ==
    /\ ConnectionSigned /\ ConnectionSockets /\ ConnectionAcks
    /\ sock = Connection!None => ~up
    /\ ~orphaned => ConnectionSocketIsOfAuth /\ ConnectionHandlersTold
    /\ \A c \in Emits : ConnectionOnceOnly(c)

LEMMA ConnectionTypes == ASSUME ConnectionInv PROVE Connection!TypeOK
  <1>1. {connects, orphaned} \subseteq BOOLEAN BY DEF ConnectionInv, ConnectionSockets
  <1> QED BY <1>1
      DEF ConnectionInv, ConnectionSigned, ConnectionSockets, ConnectionAcks,
          ConnectionAnswers, ConnectionPlaces, Connection!TypeOK

LEMMA ConnectionShows ==
    ASSUME ConnectionInv
    PROVE  Connection!SaysWhatIs /\ Connection!ToldIsDone
  <1>1. Connection!SaysWhatIs
    BY DEF ConnectionInv, ConnectionSockets, ConnectionHandlersTold, Connection!SaysWhatIs
  <1>2. Connection!ToldIsDone BY DEF ConnectionInv, ConnectionOnceOnly, Connection!ToldIsDone
  <1> QED BY <1>1, <1>2

LEMMA ConnectionStarts ==
    ASSUME Connection!ConnectionAssumption, Connection!Init
    PROVE  ConnectionInv
  <1>1. ConnectionSigned
    <2>1. given \in {0, 1} /\ token = 0 /\ wired = 0 /\ sock = 0 /\ auth = "out"
      BY DEF Connection!Init, Connection!None
    <2>2. MaxTokens \in Nat /\ MaxTokens # 0 BY DEF Connection!ConnectionAssumption
    <2>3. given \in 0..MaxTokens /\ 0 \in 0..given BY <2>1, <2>2
    <2>4. token \in 0..given /\ wired \in 0..given /\ sock \in 0..given BY <2>1, <2>3, Zenon
    <2>5. auth \in {"out", "me", "in", "leaving"} BY <2>1
    <2> QED BY <2>3, <2>4, <2>5 DEF ConnectionSigned
  <1>2. ConnectionSockets
    <2>1. up = FALSE /\ connects = FALSE /\ orphaned = FALSE BY DEF Connection!Init
    <2>2. downs \in 0..MaxDowns BY DEF Connection!Init, Connection!ConnectionAssumption
    <2> QED BY <2>1, <2>2 DEF ConnectionSockets
  <1>3. ConnectionAcks
    BY DEF Connection!Init, ConnectionAcks, ConnectionAnswers, ConnectionPlaces
  <1>4. \A c \in Emits : ConnectionOnceOnly(c) BY DEF Connection!Init, ConnectionOnceOnly
  <1> QED BY <1>1, <1>2, <1>3, <1>4
      DEF Connection!Init, ConnectionInv, ConnectionSocketIsOfAuth, ConnectionHandlersTold

(* Calls that lose what they had under way.                                  *)
LEMMA ConnectionCallsLose ==
    ASSUME ConnectionAcks, \A c \in Emits : ConnectionOnceOnly(c), UNCHANGED <<told, done>>,
           \/ UNCHANGED place
           \/ place' = [c \in Emits |-> Connection!Discarded(place[c])]
           \/ place' = [c \in Emits |-> Connection!Lost(place[c])]
           \/ place' = [c \in Emits |-> IF place[c] = "buffer" THEN "wire" ELSE place[c]]
    PROVE  ConnectionAcks' /\ \A c \in Emits : ConnectionOnceOnly(c)'
  <1>1. ASSUME NEW p \in ConnectionPlaces
      PROVE Connection!Lost(p) \in ConnectionPlaces /\ Connection!Discarded(p) \in ConnectionPlaces
    BY DEF ConnectionPlaces, Connection!Lost, Connection!Discarded
  <1>2. ConnectionAcks' BY <1>1 DEF ConnectionAcks, ConnectionPlaces
  <1>3. ASSUME NEW c \in Emits PROVE ConnectionOnceOnly(c)'
    <2>1. ConnectionOnceOnly(c) /\ place[c] \in ConnectionPlaces BY DEF ConnectionAcks
    <2>2. CASE place' = [d \in Emits |-> Connection!Discarded(place[d])]
      BY <2>1, <2>2
         DEF ConnectionOnceOnly, Connection!Discarded, Connection!Lost, ConnectionPlaces
    <2>3. CASE place' = [d \in Emits |-> Connection!Lost(place[d])]
      BY <2>1, <2>3 DEF ConnectionOnceOnly, Connection!Lost, ConnectionPlaces
    <2>4. CASE place' = [d \in Emits |-> IF place[d] = "buffer" THEN "wire" ELSE place[d]]
      BY <2>1, <2>4 DEF ConnectionOnceOnly, ConnectionPlaces
    <2>5. CASE UNCHANGED place BY <2>1, <2>5 DEF ConnectionOnceOnly
    <2> QED BY <2>2, <2>3, <2>4, <2>5
  <1> QED BY <1>2, <1>3

(* What a call does to itself leaves the others alone.                       *)
LEMMA ConnectionCallSteps ==
    ASSUME ConnectionInv, NEW c \in Emits,
           Connection!Call(c) \/ Connection!Execute(c) \/ Connection!Respond(c)
             \/ Connection!Answered(c) \/ Connection!TimesOut(c)
    PROVE  ConnectionInv'
  <1>1. UNCHANGED <<given, token, auth, wired, sock, up, downs, connects, orphaned>>
    BY
       DEF Connection!Call, Connection!Execute, Connection!Respond, Connection!Answered,
           Connection!TimesOut, Connection!auths, Connection!sockets
  <1>2. /\ ConnectionSigned'
        /\ ConnectionSockets'
        /\ (sock = Connection!None => ~up)'
        /\ (~orphaned => ConnectionSocketIsOfAuth /\ ConnectionHandlersTold)'
    BY <1>1
       DEF ConnectionInv, ConnectionSigned, ConnectionSockets, ConnectionSocketIsOfAuth,
           ConnectionHandlersTold
  <1>3. /\ told \in [Emits -> ConnectionAnswers]
        /\ place \in [Emits -> ConnectionPlaces]
        /\ done \in [Emits -> 0..2]
        /\ ConnectionOnceOnly(c)
    BY DEF ConnectionInv, ConnectionAcks
  <1>4. \A d \in Emits : d # c => told'[d] = told[d] /\ place'[d] = place[d] /\ done'[d] = done[d]
    BY <1>3
       DEF Connection!Call, Connection!Execute, Connection!Respond, Connection!Answered,
           Connection!TimesOut
  <1>5. told' \in [Emits -> ConnectionAnswers]
    BY <1>3
       DEF Connection!Call, Connection!Execute, Connection!Respond, Connection!Answered,
           Connection!TimesOut, ConnectionAnswers
  <1>6. place' \in [Emits -> ConnectionPlaces]
    BY <1>3
       DEF Connection!Call, Connection!Execute, Connection!Respond, Connection!Answered,
           Connection!TimesOut, ConnectionPlaces
  <1>7. done' \in [Emits -> 0..2]
    BY <1>3
       DEF Connection!Call, Connection!Execute, Connection!Respond, Connection!Answered,
           Connection!TimesOut, ConnectionOnceOnly
  <1>8. ConnectionOnceOnly(c)'
    <2>1. CASE Connection!Call(c)
      BY <1>3, <2>1 DEF Connection!Call, ConnectionOnceOnly, ConnectionInv
    <2>2. CASE Connection!Execute(c) BY <1>3, <2>2 DEF Connection!Execute, ConnectionOnceOnly
    <2>3. CASE Connection!Respond(c) BY <1>3, <2>3 DEF Connection!Respond, ConnectionOnceOnly
    <2>4. CASE Connection!Answered(c) BY <1>3, <2>4 DEF Connection!Answered, ConnectionOnceOnly
    <2>5. CASE Connection!TimesOut(c) BY <1>3, <2>5 DEF Connection!TimesOut, ConnectionOnceOnly
    <2> QED BY <2>1, <2>2, <2>3, <2>4, <2>5
  <1>9. \A d \in Emits : ConnectionOnceOnly(d)'
    BY <1>4, <1>8 DEF ConnectionInv, ConnectionOnceOnly
  <1> QED BY <1>2, <1>5, <1>6, <1>7, <1>9 DEF ConnectionInv, ConnectionAcks

(* The other steps only lose calls, or send what was kept.                   *)
LEMMA ConnectionStep ==
    ASSUME Connection!ConnectionAssumption, ConnectionInv, [Connection!Next]_(Connection!vars)
    PROVE  ConnectionInv'
  <1>a. MaxTokens \in Nat \ {0} /\ MaxDowns \in Nat BY DEF Connection!ConnectionAssumption
  <1>i. /\ given \in 0..MaxTokens
        /\ token \in 0..given
        /\ wired \in 0..given
        /\ sock \in 0..given
        /\ auth \in {"out", "me", "in", "leaving"}
    BY DEF ConnectionInv, ConnectionSigned
  <1>j. up \in BOOLEAN /\ downs \in 0..MaxDowns /\ connects \in BOOLEAN /\ orphaned \in BOOLEAN
    BY DEF ConnectionInv, ConnectionSockets
  <1>k. /\ sock = Connection!None => ~up
        /\ ~orphaned => ConnectionSocketIsOfAuth /\ ConnectionHandlersTold
    BY DEF ConnectionInv
  <1>c. ASSUME UNCHANGED <<told, done>>,
               \/ UNCHANGED place
               \/ place' = [c \in Emits |-> Connection!Discarded(place[c])]
               \/ place' = [c \in Emits |-> Connection!Lost(place[c])]
               \/ place' = [c \in Emits |-> IF place[c] = "buffer" THEN "wire" ELSE place[c]],
               ConnectionSigned', ConnectionSockets', (sock = Connection!None => ~up)',
               (~orphaned => ConnectionSocketIsOfAuth /\ ConnectionHandlersTold)'
        PROVE  ConnectionInv'
    BY <1>c, ConnectionCallsLose DEF ConnectionInv
  <1>1. CASE Connection!Restore
    <2>1. UNCHANGED <<given, wired, sock, up, downs, connects, orphaned, told, place, done>>
          /\ auth = "out"
          /\ token = Connection!None
          /\ given = 1
          /\ sock = Connection!None
          /\ wired = Connection!None
          /\ token' = given /\ auth' = "me"
      BY <1>1 DEF Connection!Restore, Connection!sockets, Connection!acks
    <2>2. ConnectionSigned' BY <1>i, <2>1 DEF ConnectionSigned
    <2>3. ConnectionSockets' BY <1>j, <2>1 DEF ConnectionSockets
    <2>4. (~orphaned => ConnectionSocketIsOfAuth /\ ConnectionHandlersTold)'
      BY <1>k, <2>1 DEF ConnectionSocketIsOfAuth, ConnectionHandlersTold, Connection!None
    <2> QED BY <1>c, <1>k, <2>1, <2>2, <2>3, <2>4
  <1>2. CASE Connection!Restored
    <2>1. auth = "me" /\ auth' = "in" /\ Connection!Connect(token)
          /\ UNCHANGED <<given, token, wired, downs, orphaned, told, done>>
      BY <1>2 DEF Connection!Restored
    <2>2. CASE sock = token
      <3>1. UNCHANGED <<sock, up, connects, place>> BY <2>1, <2>2 DEF Connection!Connect
      <3>2. ConnectionSigned' BY <1>i, <2>1, <3>1 DEF ConnectionSigned
      <3>3. ConnectionSockets' BY <1>j, <2>1, <3>1 DEF ConnectionSockets
      <3>4. (~orphaned => ConnectionSocketIsOfAuth /\ ConnectionHandlersTold)'
        BY <1>k, <2>1, <2>2, <3>1 DEF ConnectionSocketIsOfAuth, ConnectionHandlersTold
      <3> QED BY <1>c, <1>k, <2>1, <3>1, <3>2, <3>3, <3>4
    <2>3. CASE sock # token
      <3>1. /\ connects' = (connects /\ ~(up /\ wired # Connection!None))
            /\ sock' = token
            /\ up' = FALSE
            /\ place' = [c \in Emits |-> Connection!Discarded(place[c])]
        BY <2>1, <2>3 DEF Connection!Connect, Connection!Disconnected
      <3>2. ConnectionSigned' BY <1>i, <2>1, <3>1 DEF ConnectionSigned
      <3>3. ConnectionSockets'
        <4>1. connects' \in BOOLEAN BY <3>1
        <4> QED BY <1>j, <2>1, <3>1, <4>1 DEF ConnectionSockets
      <3>4. (~orphaned => ConnectionSocketIsOfAuth /\ ConnectionHandlersTold)'
        BY <1>k, <2>1, <2>3, <3>1 DEF ConnectionSocketIsOfAuth, ConnectionHandlersTold
      <3> QED BY <1>c, <2>1, <3>1, <3>2, <3>3, <3>4
    <2> QED BY <2>2, <2>3
  <1>3. CASE Connection!RestoreFails
    <2>1. /\ auth = "me"
          /\ auth' = "out"
          /\ token' = Connection!None
          /\ orphaned' = (orphaned \/ sock # Connection!None)
          /\ UNCHANGED <<given, wired, sock, up, downs, connects, told, place, done>>
      BY <1>3 DEF Connection!RestoreFails, Connection!sockets, Connection!acks
    <2>2. ConnectionSigned' BY <1>i, <2>1 DEF ConnectionSigned, Connection!None
    <2>3. ConnectionSockets'
      <3>1. orphaned' \in BOOLEAN BY <2>1
      <3> QED BY <1>j, <2>1, <3>1 DEF ConnectionSockets
    <2>4. (~orphaned => ConnectionSocketIsOfAuth /\ ConnectionHandlersTold)'
      BY <1>k, <2>1 DEF ConnectionSocketIsOfAuth, ConnectionHandlersTold
    <2> QED BY <1>c, <1>k, <2>1, <2>2, <2>3, <2>4
  <1>4. CASE Connection!Enters
    <2>1. /\ auth = "out"
          /\ given < MaxTokens
          /\ given' = given + 1
          /\ token' = given'
          /\ auth' = "in"
          /\ Connection!Connect(given') /\ UNCHANGED <<wired, downs, orphaned, told, done>>
      BY <1>4 DEF Connection!Enters
    <2>2. sock # given' BY <1>i, <2>1
    <2>3. PICK n : n = given' OBVIOUS
    <2>4. /\ connects' = (connects /\ ~(up /\ wired # Connection!None))
          /\ sock' = given'
          /\ up' = FALSE
          /\ place' = [c \in Emits |-> Connection!Discarded(place[c])]
      BY <2>1, <2>2, <2>3 DEF Connection!Connect, Connection!Disconnected
    <2>5. ConnectionSigned' BY <1>a, <1>i, <2>1, <2>4 DEF ConnectionSigned
    <2>6. ConnectionSockets'
      <3>1. connects' \in BOOLEAN BY <2>4
      <3> QED BY <1>j, <2>1, <2>4, <3>1 DEF ConnectionSockets
    <2>7. given' # Connection!None BY <1>i, <2>1 DEF Connection!None
    <2>8. (~orphaned => ConnectionSocketIsOfAuth /\ ConnectionHandlersTold)'
      BY <1>k, <2>1, <2>4, <2>7 DEF ConnectionSocketIsOfAuth, ConnectionHandlersTold
    <2> QED BY <1>c, <2>1, <2>4, <2>5, <2>6, <2>7, <2>8
  <1>5. CASE Connection!Logout
    <2>1. /\ auth = "in" /\ wired = token /\ auth' = "leaving"
          /\ connects' = (connects /\ ~(up /\ wired # Connection!None))
          /\ sock' = Connection!None
          /\ up' = FALSE
          /\ place' = [c \in Emits |-> Connection!Discarded(place[c])]
          /\ UNCHANGED <<given, token, wired, downs, orphaned, told, done>>
      BY <1>5 DEF Connection!Logout, Connection!Disconnect, Connection!Disconnected
    <2>2. ConnectionSigned' BY <1>i, <2>1 DEF ConnectionSigned, Connection!None
    <2>3. ConnectionSockets'
      <3>1. connects' \in BOOLEAN BY <2>1
      <3> QED BY <1>j, <2>1, <3>1 DEF ConnectionSockets
    <2>4. (~orphaned => ConnectionSocketIsOfAuth /\ ConnectionHandlersTold)'
      BY <1>k, <2>1 DEF ConnectionSocketIsOfAuth, ConnectionHandlersTold
    <2> QED BY <1>c, <2>1, <2>2, <2>3, <2>4
  <1>6. CASE Connection!LoggedOut
    <2>1. /\ auth = "leaving" /\ auth' = "out" /\ token' = Connection!None
          /\ UNCHANGED <<given, wired, sock, up, downs, connects, orphaned, told, place, done>>
      BY <1>6 DEF Connection!LoggedOut, Connection!sockets, Connection!acks
    <2>2. ConnectionSigned' BY <1>i, <2>1 DEF ConnectionSigned, Connection!None
    <2>3. ConnectionSockets' BY <1>j, <2>1 DEF ConnectionSockets
    <2>4. (~orphaned => ConnectionSocketIsOfAuth /\ ConnectionHandlersTold)'
      BY <1>k, <2>1 DEF ConnectionSocketIsOfAuth, ConnectionHandlersTold
    <2> QED BY <1>c, <1>k, <2>1, <2>2, <2>3, <2>4
  <1>7. CASE Connection!Wire
    <2>1. /\ wired # token
          /\ wired' = token
          /\ Connection!Rewired
          /\ connects' = (connects \/ (token # Connection!None /\ up'))
          /\ UNCHANGED <<given, token, auth, downs, orphaned, told, done>>
      BY <1>7 DEF Connection!Wire, Connection!auths
    <2>2. connects' \in BOOLEAN BY <2>1
    <2>3. CASE token \in {Connection!None, sock}
      <3>1. UNCHANGED <<sock, up, place>> BY <2>1, <2>3 DEF Connection!Rewired
      <3>2. ConnectionSigned' BY <1>i, <2>1, <3>1 DEF ConnectionSigned
      <3>3. ConnectionSockets' BY <1>j, <2>1, <2>2, <3>1 DEF ConnectionSockets
      <3>4. (~orphaned => ConnectionSocketIsOfAuth /\ ConnectionHandlersTold)'
        <4> SUFFICES ASSUME ~orphaned
            PROVE (ConnectionSocketIsOfAuth /\ ConnectionHandlersTold)'
              BY <2>1
        <4>1. ConnectionSocketIsOfAuth' BY <1>k, <2>1, <3>1 DEF ConnectionSocketIsOfAuth
        <4>2. token = Connection!None => ~up BY <1>i, <1>k DEF ConnectionSocketIsOfAuth
        <4>3. ConnectionHandlersTold' BY <1>k, <2>1, <3>1, <4>2 DEF ConnectionHandlersTold
        <4> QED BY <4>1, <4>3
      <3> QED BY <1>c, <1>k, <2>1, <3>1, <3>2, <3>3, <3>4
    <2>4. CASE token \notin {Connection!None, sock}
      <3>1. /\ sock' = token
            /\ up' = FALSE
            /\ place' = [c \in Emits |-> Connection!Discarded(place[c])]
        BY <2>1, <2>4 DEF Connection!Rewired
      <3>2. ConnectionSigned' BY <1>i, <2>1, <3>1 DEF ConnectionSigned
      <3>3. ConnectionSockets' BY <1>j, <2>1, <2>2, <3>1 DEF ConnectionSockets
      <3>4. (~orphaned => ConnectionSocketIsOfAuth /\ ConnectionHandlersTold)'
        <4> SUFFICES ASSUME ~orphaned
            PROVE (ConnectionSocketIsOfAuth /\ ConnectionHandlersTold)'
              BY <2>1
        <4>1. auth = "me" /\ sock = Connection!None
          BY <1>i, <1>k, <2>1, <2>4 DEF ConnectionSocketIsOfAuth
        <4>2. ConnectionSocketIsOfAuth' BY <1>k, <2>1, <3>1, <4>1 DEF ConnectionSocketIsOfAuth
        <4>3. ConnectionHandlersTold' BY <1>k, <2>1, <3>1, <4>1 DEF ConnectionHandlersTold
        <4> QED BY <4>2, <4>3
      <3> QED BY <1>c, <2>1, <2>4, <3>1, <3>2, <3>3, <3>4
    <2> QED BY <2>3, <2>4
  <1>8. CASE Connection!Up
    <2>1. /\ sock # Connection!None
          /\ ~up
          /\ up' = TRUE
          /\ connects' = (connects \/ wired # Connection!None)
          /\ place' = [c \in Emits |-> IF place[c] = "buffer" THEN "wire" ELSE place[c]]
          /\ UNCHANGED <<given, token, auth, wired, sock, downs, orphaned, told, done>>
      BY <1>8 DEF Connection!Up, Connection!auths
    <2>2. ConnectionSigned' BY <1>i, <2>1 DEF ConnectionSigned
    <2>3. ConnectionSockets'
      <3>1. connects' \in BOOLEAN BY <2>1
      <3> QED BY <1>j, <2>1, <3>1 DEF ConnectionSockets
    <2>4. (~orphaned => ConnectionSocketIsOfAuth /\ ConnectionHandlersTold)'
      BY <1>k, <2>1 DEF ConnectionSocketIsOfAuth, ConnectionHandlersTold
    <2> QED BY <1>c, <2>1, <2>2, <2>3, <2>4
  <1>9. CASE Connection!Down
    <2>1. /\ up /\ downs < MaxDowns /\ downs' = downs + 1 /\ up' = FALSE
          /\ connects' = (connects /\ ~(up /\ wired # Connection!None))
          /\ place' = [c \in Emits |-> Connection!Lost(place[c])]
          /\ UNCHANGED <<given, token, auth, wired, sock, orphaned, told, done>>
      BY <1>9 DEF Connection!Down, Connection!auths, Connection!Disconnected
    <2>2. ConnectionSigned' BY <1>i, <2>1 DEF ConnectionSigned
    <2>3. ConnectionSockets'
      <3>1. connects' \in BOOLEAN BY <2>1
      <3>2. downs' \in 0..MaxDowns BY <1>a, <1>j, <2>1
      <3> QED BY <1>j, <2>1, <3>1, <3>2 DEF ConnectionSockets
    <2>4. (~orphaned => ConnectionSocketIsOfAuth /\ ConnectionHandlersTold)'
      BY <1>k, <2>1 DEF ConnectionSocketIsOfAuth, ConnectionHandlersTold
    <2> QED BY <1>c, <2>1, <2>2, <2>3, <2>4
  <1>10. CASE UNCHANGED Connection!vars
    <2>1. UNCHANGED <<given, token, auth, wired, sock, up, downs, connects, orphaned, told, place, done>>
      BY <1>10 DEF Connection!vars, Connection!auths, Connection!sockets, Connection!acks
    <2>2. ConnectionSigned' /\ ConnectionSockets'
      BY <1>i, <1>j, <2>1 DEF ConnectionSigned, ConnectionSockets
    <2>3. (~orphaned => ConnectionSocketIsOfAuth /\ ConnectionHandlersTold)'
      BY <1>k, <2>1 DEF ConnectionSocketIsOfAuth, ConnectionHandlersTold
    <2> QED BY <1>c, <1>k, <2>1, <2>2, <2>3
  <1> QED BY <1>1, <1>2, <1>3, <1>4, <1>5, <1>6, <1>7, <1>8, <1>9, <1>10, ConnectionCallSteps
      DEF Connection!Next

LEMMA ConnectionInvariance ==
    ASSUME Connection!ConnectionAssumption
    PROVE  Connection!Spec => []ConnectionInv
  <1>1. Connection!Init => ConnectionInv BY ConnectionStarts
  <1>2. ConnectionInv /\ [Connection!Next]_(Connection!vars) => ConnectionInv' BY ConnectionStep
  <1> QED BY <1>1, <1>2, PTL DEF Connection!Spec

(***************************************************************************)
(* Images.tla                                                              *)
(***************************************************************************)

(* Of some positions, there is a last one.                                   *)
LEMMA LastPosition ==
    ASSUME NEW n \in Nat, NEW S \in SUBSET (1 .. n), S # {}
    PROVE  Images!Max(S) \in S
  <1>0. \A x \in S : x \in Nat /\ 1 =< x /\ x =< n OBVIOUS
  <1>1. PICK B : B = {m \in Nat : \A x \in S : x =< m} OBVIOUS
  <1>2. n \in B BY <1>0, <1>1
  <1>3. PICK m \in B : \A k \in B : m =< k
    <2>1. B \in SUBSET Nat /\ B # {} BY <1>1, <1>2
    <2> QED BY <2>1, LeastNumber
  <1>4. m \in Nat /\ \A x \in S : x =< m BY <1>1
  <1>5. m \in S
    <2> SUFFICES ASSUME m \notin S PROVE FALSE OBVIOUS
    <2>1. PICK x \in S : TRUE OBVIOUS
    <2>2. m > 0 BY <1>0, <1>4, <2>1
    <2>3. PICK l \in Nat : l = m - 1 BY <1>4, <2>2
    <2>4. \A y \in S : y =< l BY <1>0, <1>4, <2>3
    <2>5. l \in B BY <1>1, <2>4
    <2> QED BY <1>3, <1>4, <2>3, <2>5
  <1>6. \E x \in S : \A y \in S : x >= y BY <1>0, <1>4, <1>5
  <1> QED BY <1>6 DEF Images!Max

(* The cards that load, and the events that end the loading of a card.       *)
LoadingOf(cs) == {i \in DOMAIN cs : cs[i].status = "loading"}
ImagesClosing(es) == {i \in DOMAIN es : es[i].kind # "start"}

LEMMA LoadingIs ==
    ASSUME NEW w \in Windows, cards[w] \in Seq(Images!Card)
    PROVE  /\ LoadingOf(cards[w]) = {} => Images!Loading(w) = 0
           /\ LoadingOf(cards[w]) # {} => Images!Loading(w) \in LoadingOf(cards[w])
  <1>1. PICK n \in Nat : n = Len(cards[w]) BY LenProperties
  <1>2. DOMAIN cards[w] = 1..n BY <1>1, LenProperties
  <1>3. PICK S : S = LoadingOf(cards[w]) OBVIOUS
  <1>4. S = {i \in 1..n : cards[w][i].status = "loading"} BY <1>2, <1>3 DEF LoadingOf
  <1>5. Images!Loading(w) = IF S # {} THEN Images!Max(S) ELSE 0
    BY <1>1, <1>4, Zenon DEF Images!Loading, Images!SelectLastInSeq
  <1>6. S # {} => Images!Max(S) \in S BY <1>4, LastPosition
  <1> QED BY <1>3, <1>5, <1>6

(* What is told to a window: only an error may be of no request.             *)
ImagesTold == [kind : {"start", "result"}, of : Images!Requests] \union [kind : {"error"},
                of : 0..MaxPictures]

LEMMA PositionsAreFinite ==
    ASSUME NEW n \in Nat, NEW S \in SUBSET (1 .. n)
    PROVE  IsFiniteSet(S) /\ Cardinality(S) \in Nat
  <1>1. IsFiniteSet(1 .. n) BY FS_Interval
  <1>2. IsFiniteSet(S) BY <1>1, FS_Subset
  <1> QED BY <1>2, FS_CardinalityType

LEMMA CardsCounted ==
    ASSUME NEW cs \in Seq(Images!Card)
    PROVE  IsFiniteSet(LoadingOf(cs)) /\ Cardinality(LoadingOf(cs)) \in Nat
  <1>1. PICK n \in Nat : n = Len(cs) BY LenProperties
  <1>2. DOMAIN cs = 1..n BY <1>1, LenProperties
  <1>3. LoadingOf(cs) \in SUBSET (1..n) BY <1>2 DEF LoadingOf
  <1> QED BY <1>3, PositionsAreFinite

LEMMA EventsCounted ==
    ASSUME NEW es \in Seq(ImagesTold)
    PROVE  IsFiniteSet(ImagesClosing(es)) /\ Cardinality(ImagesClosing(es)) \in Nat
  <1>1. PICK n \in Nat : n = Len(es) BY LenProperties
  <1>2. DOMAIN es = 1..n BY <1>1, LenProperties
  <1>3. ImagesClosing(es) \in SUBSET (1..n) BY <1>2 DEF ImagesClosing
  <1> QED BY <1>3, PositionsAreFinite

(* One card more loads.                                                      *)
LEMMA OneMoreLoads ==
    ASSUME NEW cs \in Seq(Images!Card), NEW c \in Images!Card, c.status = "loading"
    PROVE  /\ Append(cs, c) \in Seq(Images!Card)
           /\ Cardinality(LoadingOf(Append(cs, c))) = Cardinality(LoadingOf(cs)) + 1
  <1>1. PICK n \in Nat : n = Len(cs) BY LenProperties
  <1>2. PICK ds : ds = Append(cs, c) OBVIOUS
  <1>3. /\ ds \in Seq(Images!Card) /\ Len(ds) = n + 1
        /\ \A i \in 1..n : ds[i] = cs[i]
        /\ ds[n + 1] = c
    BY <1>1, <1>2, AppendProperties
  <1>4. DOMAIN cs = 1..n /\ DOMAIN ds = 1..(n + 1) BY <1>1, <1>3, LenProperties
  <1>5. 1..(n + 1) = (1..n) \union {n + 1} /\ n + 1 \notin 1..n BY <1>1
  <1>6. LoadingOf(ds) = LoadingOf(cs) \union {n + 1} BY <1>3, <1>4, <1>5, Zenon DEF LoadingOf
  <1>7. n + 1 \notin LoadingOf(cs) BY <1>4, <1>5 DEF LoadingOf
  <1>8. PICK S : S = LoadingOf(cs) OBVIOUS
  <1>9. IsFiniteSet(S) BY <1>8, CardsCounted
  <1>10. Cardinality(S \union {n + 1}) = Cardinality(S) + 1 BY <1>7, <1>8, <1>9, FS_AddElement
  <1> QED BY <1>2, <1>3, <1>6, <1>8, <1>10

(* A card is put in the place of another one.                                *)
LEMMA CardReplaced ==
    ASSUME NEW cs \in Seq(Images!Card), NEW i \in DOMAIN cs, NEW c \in Images!Card
    PROVE  /\ [cs EXCEPT ![i] = c] \in Seq(Images!Card)
           /\ cs[i].status # "loading" /\ c.status = "loading" =>
                 Cardinality(LoadingOf([cs EXCEPT ![i] = c])) = Cardinality(LoadingOf(cs)) + 1
           /\ cs[i].status = "loading" /\ c.status # "loading" =>
                 Cardinality(LoadingOf([cs EXCEPT ![i] = c])) = Cardinality(LoadingOf(cs)) - 1
  <1>1. PICK n \in Nat : n = Len(cs) BY LenProperties
  <1>2. DOMAIN cs = 1..n BY <1>1, LenProperties
  <1>3. PICK ds : ds = [cs EXCEPT ![i] = c] OBVIOUS
  <1>4. ds \in Seq(Images!Card) /\ Len(ds) = n BY <1>1, <1>2, <1>3, ExceptSeq
  <1>5. DOMAIN ds = DOMAIN cs /\ ds[i] = c /\ \A j \in DOMAIN cs : j # i => ds[j] = cs[j]
    BY <1>3
  <1>6. PICK S : S = LoadingOf(cs) OBVIOUS
  <1>7. IsFiniteSet(S) BY <1>6, CardsCounted
  <1>8. ASSUME cs[i].status # "loading", c.status = "loading"
        PROVE  Cardinality(LoadingOf(ds)) = Cardinality(S) + 1
    <2>1. LoadingOf(ds) = S \union {i} BY <1>5, <1>6, <1>8, Zenon DEF LoadingOf
    <2>2. i \notin S BY <1>6, <1>8 DEF LoadingOf
    <2> QED BY <1>7, <2>1, <2>2, FS_AddElement
  <1>9. ASSUME cs[i].status = "loading", c.status # "loading"
        PROVE  Cardinality(LoadingOf(ds)) = Cardinality(S) - 1
    <2>1. LoadingOf(ds) = S \ {i} BY <1>5, <1>6, <1>9, Zenon DEF LoadingOf
    <2>2. i \in S BY <1>6, <1>9 DEF LoadingOf
    <2> QED BY <1>7, <2>1, <2>2, FS_RemoveElement
  <1> QED BY <1>3, <1>4, <1>6, <1>8, <1>9

(* An event is sent.                                                         *)
LEMMA EventSent ==
    ASSUME NEW es \in Seq(ImagesTold), NEW e \in ImagesTold
    PROVE  /\ Append(es, e) \in Seq(ImagesTold)
           /\ e.kind = "start" =>
                 Cardinality(ImagesClosing(Append(es, e))) = Cardinality(ImagesClosing(es))
           /\ e.kind # "start" =>
                 Cardinality(ImagesClosing(Append(es, e))) = Cardinality(ImagesClosing(es)) + 1
  <1>1. PICK n \in Nat : n = Len(es) BY LenProperties
  <1>2. PICK fs : fs = Append(es, e) OBVIOUS
  <1>3. /\ fs \in Seq(ImagesTold) /\ Len(fs) = n + 1
        /\ \A i \in 1..n : fs[i] = es[i]
        /\ fs[n + 1] = e
    BY <1>1, <1>2, AppendProperties
  <1>4. DOMAIN es = 1..n /\ DOMAIN fs = 1..(n + 1) BY <1>1, <1>3, LenProperties
  <1>5. 1..(n + 1) = (1..n) \union {n + 1} /\ n + 1 \notin 1..n BY <1>1
  <1>6. PICK S : S = ImagesClosing(es) OBVIOUS
  <1>7. IsFiniteSet(S) BY <1>6, EventsCounted
  <1>8. ASSUME e.kind = "start" PROVE Cardinality(ImagesClosing(fs)) = Cardinality(S)
    <2>1. ImagesClosing(fs) = S BY <1>3, <1>4, <1>5, <1>6, <1>8, Zenon DEF ImagesClosing
    <2> QED BY <2>1
  <1>9. ASSUME e.kind # "start" PROVE Cardinality(ImagesClosing(fs)) = Cardinality(S) + 1
    <2>1. ImagesClosing(fs) = S \union {n + 1}
      BY <1>3, <1>4, <1>5, <1>6, <1>9, Zenon DEF ImagesClosing
    <2>2. n + 1 \notin S BY <1>4, <1>5, <1>6 DEF ImagesClosing
    <2> QED BY <1>7, <2>1, <2>2, FS_AddElement
  <1> QED BY <1>2, <1>3, <1>6, <1>8, <1>9

(* An event arrives: the others move up.                                     *)
LEMMA EventTaken ==
    ASSUME NEW es \in Seq(ImagesTold), es # <<>>
    PROVE  /\ Tail(es) \in Seq(ImagesTold)
           /\ Head(es).kind = "start" =>
                 Cardinality(ImagesClosing(es)) =< Cardinality(ImagesClosing(Tail(es)))
           /\ Head(es).kind # "start" =>
                 Cardinality(ImagesClosing(es)) =< Cardinality(ImagesClosing(Tail(es))) + 1
  <1>1. PICK n \in Nat : n = Len(es) BY LenProperties
  <1>2. PICK fs : fs = Tail(es) OBVIOUS
  <1>3. fs \in Seq(ImagesTold) /\ Len(fs) = n - 1 /\ n # 0
    BY <1>1, <1>2, HeadTailProperties, EmptySeq
  <1>4. \A i \in 1 .. (n - 1) : fs[i] = es[i + 1] BY <1>1, <1>2, <1>3, HeadTailProperties
  <1>5. DOMAIN es = 1..n /\ DOMAIN fs = 1 .. (n - 1) BY <1>1, <1>3, LenProperties
  <1>6. Head(es) = es[1] OBVIOUS
  <1>7. PICK S : S = ImagesClosing(es) OBVIOUS
  <1>8. PICK T : T = ImagesClosing(fs) OBVIOUS
  <1>9. PICK U : U = S \ {1} OBVIOUS
  <1>10. IsFiniteSet(S) /\ IsFiniteSet(T) BY <1>3, <1>7, <1>8, EventsCounted
  <1>11. Cardinality(U) =< Cardinality(T)
    <2>1. PICK f : f = [i \in T |-> i + 1] OBVIOUS
    <2>2. \A i \in T : i \in 1 .. (n - 1) /\ fs[i].kind # "start"
      BY <1>5, <1>8 DEF ImagesClosing
    <2>3. ASSUME NEW i \in T PROVE i + 1 \in U
      <3>1. i + 1 \in 1..n /\ i + 1 # 1 BY <1>1, <2>2
      <3>2. es[i + 1].kind # "start" BY <1>4, <2>2
      <3> QED BY <1>5, <1>7, <1>9, <3>1, <3>2 DEF ImagesClosing
    <2>4. ASSUME NEW k \in U PROVE \E i \in T : f[i] = k
      <3>1. k \in 1..n /\ k # 1 /\ es[k].kind # "start" BY <1>5, <1>7, <1>9 DEF ImagesClosing
      <3>2. PICK i \in Nat : i = k - 1 BY <3>1
      <3>3. i \in 1 .. (n - 1) /\ i + 1 = k BY <1>1, <3>1, <3>2
      <3>4. fs[i].kind # "start" BY <1>4, <3>1, <3>3
      <3>5. i \in T BY <1>5, <1>8, <3>3, <3>4 DEF ImagesClosing
      <3> QED BY <2>1, <3>3, <3>5
    <2>5. f \in [T -> U] BY <2>1, <2>3
    <2>6. f \in Surjection(T, U) BY <2>4, <2>5 DEF Surjection
    <2> QED BY <1>10, <2>6, FS_Surjection
  <1>12. Cardinality(U) = IF 1 \in S THEN Cardinality(S) - 1 ELSE Cardinality(S)
    BY <1>9, <1>10, FS_RemoveElement
  <1>13. 1 \in S <=> es[1].kind # "start" BY <1>1, <1>3, <1>5, <1>7 DEF ImagesClosing
  <1>14. Cardinality(S) \in Nat /\ Cardinality(T) \in Nat BY <1>10, FS_CardinalityType
  <1>15. PICK s \in Nat : s = Cardinality(S) BY <1>14
  <1>16. PICK t \in Nat : t = Cardinality(T) BY <1>14
  <1>17. (es[1].kind = "start" => s =< t) /\ (es[1].kind # "start" => s =< t + 1)
    BY <1>11, <1>12, <1>13, <1>15, <1>16
  <1> QED BY <1>2, <1>3, <1>6, <1>7, <1>8, <1>15, <1>16, <1>17

(* What a window that stays connected waits for is enough for the cards that *)
(* load: a request that was sent, an event that ends a loading, or the       *)
(* picture that is being made; and a picture that is announced follows.      *)
Making(r) == IF r = Images!Nobody THEN 0 ELSE 1
Followed(es, r) ==
    \A i \in DOMAIN es : es[i].kind = "start" /\ r = Images!Nobody
                            => \E j \in DOMAIN es : i < j /\ es[j].kind # "start"
Enough(cs, ss, es, r) ==
    /\ Cardinality(LoadingOf(cs)) =< Len(ss) + Cardinality(ImagesClosing(es)) + Making(r)
    /\ Followed(es, r)

LEMMA MakingIs == \A r : Making(r) \in {0, 1} /\ (Making(r) = 0 <=> r = Images!Nobody)
  BY DEF Making

(* A card loads for a request that is sent.                                  *)
LEMMA EnoughAsked ==
    ASSUME NEW cs \in Seq(Images!Card), NEW ds \in Seq(Images!Card),
           Cardinality(LoadingOf(ds)) = Cardinality(LoadingOf(cs)) + 1,
           NEW ss \in Seq(Images!Requests), NEW q \in Images!Requests,
           NEW es \in Seq(ImagesTold), NEW r,
           Enough(cs, ss, es, r)
    PROVE  Enough(ds, Append(ss, q), es, r)
  <1>1. PICK a \in Nat : a = Cardinality(LoadingOf(cs)) BY CardsCounted
  <1>2. PICK b \in Nat : b = Cardinality(ImagesClosing(es)) BY EventsCounted
  <1>3. PICK m \in {0, 1} : m = Making(r) BY MakingIs
  <1>4. PICK n \in Nat : n = Len(ss) BY LenProperties
  <1>5. Len(Append(ss, q)) = n + 1 BY <1>4, AppendProperties
  <1>6. a =< n + b + m BY <1>1, <1>2, <1>3, <1>4 DEF Enough
  <1>7. a + 1 =< (n + 1) + b + m BY <1>6
  <1> QED BY <1>1, <1>2, <1>3, <1>5, <1>7 DEF Enough

(* The server begins to make a picture, and announces it.                    *)
LEMMA FollowedStarted ==
    ASSUME NEW es, NEW r, r # Images!Nobody PROVE Followed(es, r)
  BY DEF Followed

LEMMA EnoughStarted ==
    ASSUME NEW cs \in Seq(Images!Card), NEW ss \in Seq(Images!Requests),
           NEW es \in Seq(ImagesTold),
           NEW e \in ImagesTold, e.kind = "start", NEW r, r # Images!Nobody, Enough(cs, ss, es, Images!Nobody)
    PROVE  /\ Enough(cs, ss, Append(es, e), r)
           /\ ss # <<>> => Enough(cs, Tail(ss), Append(es, e), r)
  <1>1. PICK a \in Nat : a = Cardinality(LoadingOf(cs)) BY CardsCounted
  <1>2. PICK b \in Nat : b = Cardinality(ImagesClosing(es)) BY EventsCounted
  <1>3. Cardinality(ImagesClosing(Append(es, e))) = b BY <1>2, EventSent
  <1>4. PICK n \in Nat : n = Len(ss) BY LenProperties
  <1>5. Making(Images!Nobody) = 0 /\ Making(r) = 1 BY MakingIs
  <1>6. a =< n + b BY <1>1, <1>2, <1>4, <1>5 DEF Enough
  <1>7. Followed(Append(es, e), r) BY FollowedStarted
  <1>8. a =< n + b + 1 /\ a =< (n - 1) + b + 1 BY <1>6
  <1>9. ss # <<>> => Len(Tail(ss)) = n - 1 BY <1>4, HeadTailProperties
  <1> QED BY <1>1, <1>3, <1>4, <1>5, <1>7, <1>8, <1>9 DEF Enough

(* The server ends something, or refuses it.                                 *)
LEMMA FollowedEnded ==
    ASSUME NEW es \in Seq(ImagesTold), NEW e \in ImagesTold, e.kind # "start", NEW r
    PROVE  Followed(Append(es, e), r)
  <1>1. PICK n \in Nat : n = Len(es) BY LenProperties
  <1>2. PICK fs : fs = Append(es, e) OBVIOUS
  <1>3. fs \in Seq(ImagesTold) /\ Len(fs) = n + 1 /\ fs[n + 1] = e
    BY <1>1, <1>2, AppendProperties
  <1>4. DOMAIN fs = 1..(n + 1) BY <1>3, LenProperties
  <1>5. ASSUME NEW i \in DOMAIN fs, fs[i].kind = "start"
        PROVE  \E j \in DOMAIN fs : i < j /\ fs[j].kind # "start"
    <2>1. i # n + 1 BY <1>3, <1>5
    <2>2. i < n + 1 BY <1>1, <1>4, <2>1
    <2>3. n + 1 \in DOMAIN fs BY <1>1, <1>4
    <2> QED BY <1>3, <2>2, <2>3
  <1> QED BY <1>2, <1>5 DEF Followed

LEMMA EnoughEnded ==
    ASSUME NEW cs \in Seq(Images!Card), NEW ss \in Seq(Images!Requests),
           NEW es \in Seq(ImagesTold),
           NEW e \in ImagesTold, e.kind # "start", NEW r, Enough(cs, ss, es, r)
    PROVE  /\ Enough(cs, ss, Append(es, e), Images!Nobody)
           /\ ss # <<>> => Enough(cs, Tail(ss), Append(es, e), r)
  <1>1. PICK a \in Nat : a = Cardinality(LoadingOf(cs)) BY CardsCounted
  <1>2. PICK b \in Nat : b = Cardinality(ImagesClosing(es)) BY EventsCounted
  <1>3. Cardinality(ImagesClosing(Append(es, e))) = b + 1 BY <1>2, EventSent
  <1>4. PICK n \in Nat : n = Len(ss) BY LenProperties
  <1>5. PICK m \in {0, 1} : m = Making(r) BY MakingIs
  <1>6. a =< n + b + m BY <1>1, <1>2, <1>4, <1>5 DEF Enough
  <1>7. Followed(Append(es, e), r) /\ Followed(Append(es, e), Images!Nobody) BY FollowedEnded
  <1>8. a =< n + (b + 1) + 0 /\ a =< (n - 1) + (b + 1) + m BY <1>6
  <1>9. ss # <<>> => Len(Tail(ss)) = n - 1 BY <1>4, HeadTailProperties
  <1>10. Making(Images!Nobody) = 0 BY MakingIs
  <1> QED BY <1>1, <1>3, <1>4, <1>5, <1>7, <1>8, <1>9, <1>10 DEF Enough

(* An event arrives at the window.                                           *)
LEMMA FollowedTaken ==
    ASSUME NEW es \in Seq(ImagesTold), es # <<>>, NEW r, Followed(es, r)
    PROVE  Followed(Tail(es), r)
  <1>1. PICK n \in Nat : n = Len(es) BY LenProperties
  <1>2. PICK fs : fs = Tail(es) OBVIOUS
  <1>3. fs \in Seq(ImagesTold) /\ Len(fs) = n - 1 /\ n # 0
    BY <1>1, <1>2, HeadTailProperties, EmptySeq
  <1>4. \A i \in 1 .. (n - 1) : fs[i] = es[i + 1] BY <1>1, <1>2, <1>3, HeadTailProperties
  <1>5. DOMAIN es = 1..n /\ DOMAIN fs = 1 .. (n - 1) BY <1>1, <1>3, LenProperties
  <1>6. ASSUME NEW i \in DOMAIN fs, fs[i].kind = "start", r = Images!Nobody
        PROVE  \E j \in DOMAIN fs : i < j /\ fs[j].kind # "start"
    <2>1. i + 1 \in DOMAIN es /\ es[i + 1].kind = "start" BY <1>1, <1>4, <1>5, <1>6
    <2>2. PICK k \in DOMAIN es : i + 1 < k /\ es[k].kind # "start"
      BY <1>6, <2>1 DEF Followed
    <2>3. PICK j \in Nat : j = k - 1 BY <1>1, <1>5
    <2>4. j \in 1 .. (n - 1) /\ j + 1 = k /\ i < j BY <1>1, <1>5, <2>2, <2>3
    <2>5. fs[j].kind # "start" BY <1>4, <2>2, <2>4
    <2> QED BY <1>5, <2>4, <2>5
  <1> QED BY <1>2, <1>6 DEF Followed

(* One that announces a picture of another window gives it a card.           *)
LEMMA EnoughAnnounced ==
    ASSUME NEW cs \in Seq(Images!Card), NEW ss \in Seq(Images!Requests),
           NEW es \in Seq(ImagesTold), es # <<>>,
           Head(es).kind = "start", NEW r, Enough(cs, ss, es, r)
    PROVE  /\ Enough(cs, ss, Tail(es), r)
           /\ \A ds \in Seq(Images!Card) :
                 LoadingOf(cs) = {} /\ Cardinality(LoadingOf(ds)) = Cardinality(LoadingOf(cs)) + 1
                    => Enough(ds, ss, Tail(es), r)
  <1>0. Tail(es) \in Seq(ImagesTold) BY EventTaken
  <1>1. PICK a \in Nat : a = Cardinality(LoadingOf(cs)) BY CardsCounted
  <1>2. PICK b \in Nat : b = Cardinality(ImagesClosing(es)) BY EventsCounted
  <1>3. PICK c \in Nat : c = Cardinality(ImagesClosing(Tail(es))) BY <1>0, EventsCounted
  <1>4. PICK n \in Nat : n = Len(ss) BY LenProperties
  <1>5. PICK m \in {0, 1} : m = Making(r) BY MakingIs
  <1>6. a =< n + b + m BY <1>1, <1>2, <1>4, <1>5 DEF Enough
  <1>7. b =< c BY <1>2, <1>3, EventTaken
  <1>8. Followed(Tail(es), r) BY FollowedTaken DEF Enough
  <1>9. Enough(cs, ss, Tail(es), r)
    <2>1. a =< n + c + m BY <1>6, <1>7
    <2> QED BY <1>1, <1>3, <1>4, <1>5, <1>8, <2>1 DEF Enough
  <1>10. 1 =< n + c + m
    <2>1. CASE r # Images!Nobody
      <3>1. m = 1 BY <1>5, <2>1, MakingIs
      <3> QED BY <3>1
    <2>2. CASE r = Images!Nobody
      <3>1. PICK k \in Nat : k = Len(es) BY LenProperties
      <3>2. k # 0 /\ DOMAIN es = 1..k BY <3>1, LenProperties, EmptySeq
      <3>3. 1 \in DOMAIN es /\ es[1].kind = "start" BY <3>1, <3>2
      <3>4. PICK j \in DOMAIN es : 1 < j /\ es[j].kind # "start"
        BY <2>2, <3>3 DEF Enough, Followed
      <3>5. j \in ImagesClosing(es) BY <3>4 DEF ImagesClosing
      <3>6. b # 0
        <4>1. IsFiniteSet(ImagesClosing(es)) BY EventsCounted
        <4> QED BY <1>2, <3>5, <4>1, FS_EmptySet
      <3> QED BY <1>7, <3>6
    <2> QED BY <2>1, <2>2
  <1>11. ASSUME NEW ds \in Seq(Images!Card), LoadingOf(cs) = {},
                Cardinality(LoadingOf(ds)) = Cardinality(LoadingOf(cs)) + 1
         PROVE  Enough(ds, ss, Tail(es), r)
    <2>1. a = 0 BY <1>1, <1>11, FS_EmptySet
    <2>2. Cardinality(LoadingOf(ds)) = 1 BY <1>1, <1>11, <2>1
    <2> QED BY <1>3, <1>4, <1>5, <1>8, <1>10, <2>2 DEF Enough
  <1> QED BY <1>9, <1>11

(* One that ends a loading ends it for one card, if a card loads.            *)
LEMMA EnoughAnswered ==
    ASSUME NEW cs \in Seq(Images!Card), NEW ss \in Seq(Images!Requests),
           NEW es \in Seq(ImagesTold), es # <<>>,
           Head(es).kind # "start", NEW r, Enough(cs, ss, es, r)
    PROVE  /\ LoadingOf(cs) = {} => Enough(cs, ss, Tail(es), r)
           /\ \A ds \in Seq(Images!Card) :
                 Cardinality(LoadingOf(ds)) = Cardinality(LoadingOf(cs)) - 1
                    => Enough(ds, ss, Tail(es), r)
  <1>0. Tail(es) \in Seq(ImagesTold) BY EventTaken
  <1>1. PICK a \in Nat : a = Cardinality(LoadingOf(cs)) BY CardsCounted
  <1>2. PICK b \in Nat : b = Cardinality(ImagesClosing(es)) BY EventsCounted
  <1>3. PICK c \in Nat : c = Cardinality(ImagesClosing(Tail(es))) BY <1>0, EventsCounted
  <1>4. PICK n \in Nat : n = Len(ss) BY LenProperties
  <1>5. PICK m \in {0, 1} : m = Making(r) BY MakingIs
  <1>6. a =< n + b + m BY <1>1, <1>2, <1>4, <1>5 DEF Enough
  <1>7. b =< c + 1 BY <1>2, <1>3, EventTaken
  <1>8. Followed(Tail(es), r) BY FollowedTaken DEF Enough
  <1>9. ASSUME LoadingOf(cs) = {} PROVE Enough(cs, ss, Tail(es), r)
    <2>1. a = 0 BY <1>1, <1>9, FS_EmptySet
    <2>2. a =< n + c + m BY <2>1
    <2> QED BY <1>1, <1>3, <1>4, <1>5, <1>8, <2>2 DEF Enough
  <1>10. ASSUME NEW ds \in Seq(Images!Card), Cardinality(LoadingOf(ds)) = Cardinality(LoadingOf(cs)) - 1
         PROVE  Enough(ds, ss, Tail(es), r)
    <2>1. a - 1 =< n + c + m BY <1>6, <1>7
    <2> QED BY <1>1, <1>3, <1>4, <1>5, <1>8, <1>10, <2>1 DEF Enough
  <1> QED BY <1>9, <1>10

(* What a window has sent are requests of its own.                           *)
Mine(ss, as, w) == \A k \in DOMAIN ss : ss[k] \in DOMAIN as /\ as[ss[k]] = w

LEMMA MineAsked ==
    ASSUME NEW ss \in Seq(Images!Requests), NEW as \in Seq(Windows), NEW w \in Windows,
           NEW v \in Windows,
           NEW q \in Images!Requests
    PROVE  Mine(ss, as, v) =>
              /\ Mine(ss, Append(as, w), v)
              /\ v = w /\ q = Len(as) + 1 => Mine(Append(ss, q), Append(as, w), v)
  <1>1. PICK n \in Nat : n = Len(ss) BY LenProperties
  <1>2. PICK l \in Nat : l = Len(as) BY LenProperties
  <1>3. PICK bs : bs = Append(as, w) OBVIOUS
  <1>c. bs \in Seq(Windows) BY <1>3, AppendProperties
  <1>d. Len(bs) = l + 1 BY <1>2, <1>3, AppendProperties
  <1>e. \A i \in 1..l : bs[i] = as[i] BY <1>2, <1>3, AppendProperties
  <1>f. bs[l + 1] = w BY <1>2, <1>3, AppendProperties
  <1>4. DOMAIN as = 1..l /\ DOMAIN bs = 1..(l + 1) BY <1>2, <1>c, <1>d, LenProperties
  <1>5. PICK ts : ts = Append(ss, q) OBVIOUS
  <1>b. /\ ts \in Seq(Images!Requests) /\ Len(ts) = n + 1
        /\ \A i \in 1..n : ts[i] = ss[i]
        /\ ts[n + 1] = q
    BY <1>1, <1>5, AppendProperties
  <1>6. DOMAIN ss = 1..n /\ DOMAIN ts = 1..(n + 1) BY <1>1, <1>b, LenProperties
  <1>7. 1..l \subseteq 1..(l + 1) /\ l + 1 \in 1..(l + 1) OBVIOUS
  <1>8. ASSUME Mine(ss, as, v), NEW k \in 1..n PROVE ss[k] \in DOMAIN bs /\ bs[ss[k]] = v
    <2>1. ss[k] \in DOMAIN as /\ as[ss[k]] = v BY <1>6, <1>8, Zenon DEF Mine
    <2> QED BY <1>4, <1>7, <1>e, <2>1, Zenon
  <1>9. ASSUME Mine(ss, as, v), v = w, q = Len(as) + 1, NEW k \in 1..(n + 1)
      PROVE ts[k] \in DOMAIN bs /\ bs[ts[k]] = v
    <2>1. CASE k \in 1..n BY <1>b, <1>8, <1>9, <2>1
    <2>2. CASE k = n + 1
      <3>1. ts[k] = l + 1 BY <1>2, <1>9, <1>b, <2>2
      <3> QED BY <1>4, <1>7, <1>9, <1>f, <3>1
    <2>3. k \in 1..n \/ k = n + 1 BY <1>1
    <2> QED BY <2>1, <2>2, <2>3
  <1> QED BY <1>3, <1>5, <1>6, <1>8, <1>9 DEF Mine

LEMMA MineTaken ==
    ASSUME NEW ss \in Seq(Images!Requests), ss # <<>>, NEW as, NEW w, Mine(ss, as, w)
    PROVE  /\ Mine(Tail(ss), as, w)
           /\ Head(ss) \in DOMAIN as /\ as[Head(ss)] = w
  <1>1. PICK n \in Nat : n = Len(ss) BY LenProperties
  <1>2. PICK ts : ts = Tail(ss) OBVIOUS
  <1>3. ts \in Seq(Images!Requests) /\ Len(ts) = n - 1 /\ n # 0
    BY <1>1, <1>2, HeadTailProperties, EmptySeq
  <1>4. \A i \in 1 .. (n - 1) : ts[i] = ss[i + 1] BY <1>1, <1>2, <1>3, HeadTailProperties
  <1>5. DOMAIN ss = 1..n /\ DOMAIN ts = 1 .. (n - 1) BY <1>1, <1>3, LenProperties
  <1>6. ASSUME NEW k \in DOMAIN ts PROVE ts[k] \in DOMAIN as /\ as[ts[k]] = w
    <2>1. k + 1 \in DOMAIN ss /\ ts[k] = ss[k + 1] BY <1>1, <1>4, <1>5
    <2> QED BY <2>1 DEF Mine
  <1>7. 1 \in DOMAIN ss /\ Head(ss) = ss[1] BY <1>1, <1>3, <1>5
  <1> QED BY <1>2, <1>6, <1>7 DEF Mine

(* The inductive invariant.                                                  *)
ImagesAsking == pictures \in Seq(Windows) /\ Len(pictures) <= MaxPictures /\ blank \subseteq Images!Requests

Boxes ==
    /\ cards \in [Windows -> Seq(Images!Card)]
    /\ sent \in [Windows -> Seq(Images!Requests)]
    /\ arriving \in [Windows -> Seq(ImagesTold)]

Counts ==
    /\ online \subseteq Windows /\ drops \in 0..MaxDrops
    /\ inFlight \in 0..MaxPictures /\ recent \in 0..MaxPerWindow

Ghosts == missing \subseteq Images!Requests /\ away \subseteq Images!Requests

Sure(w) == Mine(sent[w], pictures, w) /\ Enough(cards[w], sent[w], arriving[w], inFlight)

AllSure == online = Windows /\ away = {} /\ \A w \in Windows : Sure(w)

Whole == drops = 0 => AllSure

ImagesInv == ImagesAsking /\ Boxes /\ Counts /\ Ghosts /\ Whole

LEMMA ToldAreEvents == ImagesTold \subseteq Images!Event
  BY DEF ImagesTold, Images!Event, Images!Requests

LEMMA WiderSeqs == ASSUME NEW S, NEW T, S \subseteq T PROVE Seq(S) \subseteq Seq(T)
  OBVIOUS

LEMMA ImagesTypes == ASSUME Images!ImagesAssumption, ImagesInv PROVE Images!TypeOK
  <1>1. Seq(ImagesTold) \subseteq Seq(Images!Event) BY ToldAreEvents, WiderSeqs, Zenon
  <1>2. arriving \in [Windows -> Seq(Images!Event)]
    <2>1. arriving \in [Windows -> Seq(ImagesTold)] BY DEF ImagesInv, Boxes
    <2> QED BY <1>1, <2>1
  <1> QED BY <1>2 DEF ImagesInv, ImagesAsking, Boxes, Counts, Ghosts, Images!TypeOK

LEMMA ImagesShow == ASSUME ImagesInv PROVE Images!LoadingIsAwaited
  <1> SUFFICES ASSUME NEW w \in Windows, Images!Loading(w) # 0, drops = 0,
                      sent[w] = <<>>, arriving[w] = <<>>, inFlight = Images!Nobody
               PROVE  FALSE
    BY DEF Images!LoadingIsAwaited
  <1>1. cards[w] \in Seq(Images!Card) /\ Enough(cards[w], <<>>, <<>>, Images!Nobody)
    BY DEF ImagesInv, Boxes, Whole, AllSure, Sure
  <1>2. LoadingOf(cards[w]) # {} BY <1>1, LoadingIs
  <1>3. ImagesClosing(<<>>) = {} BY DEF ImagesClosing
  <1>4. Cardinality(ImagesClosing(<<>>)) = 0 BY <1>3, FS_EmptySet
  <1>5. Len(<<>>) = 0 OBVIOUS
  <1>6. PICK a \in Nat : a = Cardinality(LoadingOf(cards[w])) BY <1>1, CardsCounted
  <1>7. a # 0 BY <1>1, <1>2, <1>6, CardsCounted, FS_EmptySet
  <1>8. Making(Images!Nobody) = 0 BY MakingIs
  <1>9. a =< 0 + 0 + 0 BY <1>1, <1>4, <1>5, <1>6, <1>8 DEF Enough
  <1> QED BY <1>7, <1>9

LEMMA ImagesStart == ASSUME Images!ImagesAssumption, Images!Init PROVE ImagesInv
  <1>1. ImagesAsking
    <2>1. Len(<<>>) = 0 /\ MaxPictures \in Nat BY DEF Images!ImagesAssumption
    <2>2. pictures = <<>> /\ blank = {} BY DEF Images!Init
    <2>3. <<>> \in Seq(Windows) OBVIOUS
    <2> QED BY <2>1, <2>2, <2>3 DEF ImagesAsking
  <1>2. Boxes BY DEF Images!Init, Boxes
  <1>3. Counts
    <2>1. 0 \in 0..MaxDrops /\ 0 \in 0..MaxPictures /\ 0 \in 0..MaxPerWindow
      BY DEF Images!ImagesAssumption
    <2> QED BY <2>1 DEF Images!Init, Counts, Images!Nobody
  <1>4. ASSUME NEW w \in Windows PROVE Sure(w)
    <2>1. cards[w] = <<>> /\ sent[w] = <<>> /\ arriving[w] = <<>> /\ inFlight = Images!Nobody
      BY DEF Images!Init
    <2>2. LoadingOf(<<>>) = {} /\ ImagesClosing(<<>>) = {} BY DEF LoadingOf, ImagesClosing
    <2>3. Cardinality(LoadingOf(<<>>)) = 0 /\ Cardinality(ImagesClosing(<<>>)) = 0
      BY <2>2, FS_EmptySet
    <2>4. Len(<<>>) = 0 OBVIOUS
    <2>5. Making(Images!Nobody) = 0 BY MakingIs
    <2>6. Followed(<<>>, Images!Nobody) /\ Mine(<<>>, pictures, w) BY DEF Followed, Mine
    <2>7. 0 =< 0 + 0 + 0 OBVIOUS
    <2>8. Enough(<<>>, <<>>, <<>>, Images!Nobody) BY <2>3, <2>4, <2>5, <2>6, <2>7 DEF Enough
    <2> QED BY <2>1, <2>6, <2>8 DEF Sure
  <1>5. Ghosts /\ Whole BY <1>4 DEF Images!Init, Ghosts, Whole, AllSure
  <1> QED BY <1>1, <1>2, <1>3, <1>5 DEF ImagesInv

(* A window asks: one of its cards more loads, for the request it sends.     *)
LEMMA ImagesAskStep ==
    ASSUME Images!ImagesAssumption, ImagesInv, NEW w \in Windows, Images!Ask(w),
           NEW ds \in Seq(Images!Card),
           cards' = [cards EXCEPT ![w] = ds],
           Cardinality(LoadingOf(ds)) = Cardinality(LoadingOf(cards[w])) + 1,
           blank' \subseteq Images!Requests
    PROVE  ImagesInv'
  <1>1. UNCHANGED <<online, drops, arriving, inFlight, recent, missing, away>> BY DEF Images!Ask
  <1>2. PICK l \in Nat : l = Len(pictures) BY LenProperties DEF ImagesInv, ImagesAsking
  <1>3. PICK q : q = l + 1 OBVIOUS
  <1>4. pictures \in Seq(Windows) /\ pictures' = Append(pictures, w)
    BY DEF Images!Ask, ImagesInv, ImagesAsking
  <1>5. pictures' \in Seq(Windows) /\ Len(pictures') = q BY <1>2, <1>3, <1>4, AppendProperties
  <1>6. q \in Images!Requests /\ q =< MaxPictures
    <2>1. l < MaxPictures /\ MaxPictures \in Nat BY <1>2 DEF Images!Ask, Images!ImagesAssumption
    <2> QED BY <1>2, <1>3, <2>1 DEF Images!Requests
  <1>7. sent' = [sent EXCEPT ![w] = Append(sent[w], q)] BY <1>5 DEF Images!Ask
  <1>8. \A v \in Windows : sent[v] \in Seq(Images!Requests) /\ cards[v] \in Seq(Images!Card)
          /\ arriving[v] \in Seq(ImagesTold)
    BY DEF ImagesInv, Boxes
  <1>9. Append(sent[w], q) \in Seq(Images!Requests) BY <1>6, <1>8, AppendProperties
  <1>10. sent \in [Windows -> Seq(Images!Requests)] /\ cards \in [Windows -> Seq(Images!Card)]
    BY DEF ImagesInv, Boxes
  <1>11. ImagesAsking' BY <1>5, <1>6 DEF ImagesAsking
  <1>12. Boxes'
    <2>1. sent' \in [Windows -> Seq(Images!Requests)] BY <1>7, <1>9, <1>10
    <2>2. cards' \in [Windows -> Seq(Images!Card)] BY <1>10
    <2>3. arriving' \in [Windows -> Seq(ImagesTold)] BY <1>1 DEF ImagesInv, Boxes
    <2> QED BY <2>1, <2>2, <2>3 DEF Boxes
  <1>13. Counts' /\ Ghosts' BY <1>1 DEF ImagesInv, Counts, Ghosts
  <1>14. ASSUME drops' = 0 PROVE AllSure'
    <2>1. AllSure
      BY <1>1, <1>14 DEF ImagesInv, Whole, AllSure
    <2>2. ASSUME NEW v \in Windows PROVE Sure(v)'
      <3>0. Mine(sent[v], pictures, v) /\ Enough(cards[v], sent[v], arriving[v], inFlight)
        BY <2>1 DEF AllSure, Sure
      <3>1. CASE v = w
        <4>1. sent'[v] = Append(sent[w], q) /\ cards'[v] = ds BY <1>7, <1>10, <3>1
        <4>2. Mine(Append(sent[w], q), Append(pictures, w), w)
          BY <1>2, <1>3, <1>4, <1>6, <1>8, <3>0, <3>1, MineAsked
        <4>3. Enough(ds, Append(sent[w], q), arriving[w], inFlight)
          BY <1>6, <1>8, <3>0, <3>1, EnoughAsked
        <4> QED BY <1>1, <1>4, <3>1, <4>1, <4>2, <4>3 DEF Sure
      <3>2. CASE v # w
        <4>1. sent'[v] = sent[v] /\ cards'[v] = cards[v] BY <1>7, <1>10, <3>2
        <4>2. Mine(sent[v], Append(pictures, w), v) BY <1>4, <1>6, <1>8, <3>0, MineAsked
        <4> QED BY <1>1, <1>4, <3>0, <4>1, <4>2 DEF Sure
      <3> QED BY <3>1, <3>2
    <2> QED BY <1>1, <2>1, <2>2 DEF AllSure
  <1> QED BY <1>11, <1>12, <1>13, <1>14 DEF ImagesInv, Whole, AllSure

LEMMA GenerateStep ==
    ASSUME Images!ImagesAssumption, ImagesInv, NEW w \in Windows, Images!GenerateImage(w)
    PROVE  ImagesInv'
  <1>1. Images!Ask(w) /\ blank' = blank BY DEF Images!GenerateImage
  <1>2. PICK c : c = [status |-> "loading", prompt |-> Len(pictures')] OBVIOUS
  <1>3. c \in Images!Card /\ c.status = "loading"
    <2>1. pictures \in Seq(Windows) BY DEF ImagesInv, ImagesAsking
    <2>2. PICK l \in Nat : l = Len(pictures) BY <2>1, LenProperties
    <2>3. Len(pictures') = l + 1 BY <1>1, <2>1, <2>2, AppendProperties DEF Images!Ask
    <2>4. l < MaxPictures /\ MaxPictures \in Nat
      BY <1>1, <2>2 DEF Images!Ask, Images!ImagesAssumption
    <2>5. Len(pictures') \in 0..MaxPictures BY <2>2, <2>3, <2>4
    <2> QED BY <1>2, <2>5 DEF Images!Card
  <1>4. cards[w] \in Seq(Images!Card) BY DEF ImagesInv, Boxes
  <1>5. PICK ds : ds = Append(cards[w], c) OBVIOUS
  <1>6. /\ ds \in Seq(Images!Card)
        /\ Cardinality(LoadingOf(ds)) = Cardinality(LoadingOf(cards[w])) + 1
    BY <1>3, <1>4, <1>5, OneMoreLoads
  <1>7. cards' = [cards EXCEPT ![w] = ds] BY <1>2, <1>5 DEF Images!GenerateImage
  <1>8. blank' \subseteq Images!Requests BY <1>1 DEF ImagesInv, ImagesAsking
  <1> QED BY <1>1, <1>6, <1>7, <1>8, ImagesAskStep

LEMMA RetryStep ==
    ASSUME Images!ImagesAssumption, ImagesInv, NEW w \in Windows, NEW i, Images!Retry(w, i)
    PROVE  ImagesInv'
  <1>1. /\ Images!Ask(w) /\ i \in DOMAIN cards[w] /\ cards[w][i].status = "error"
        /\ cards' = [cards EXCEPT ![w][i].status = "loading"]
    BY DEF Images!Retry
  <1>2. cards[w] \in Seq(Images!Card) /\ cards \in [Windows -> Seq(Images!Card)]
    BY DEF ImagesInv, Boxes
  <1>3. PICK b : b = cards[w][i] OBVIOUS
  <1>4. b \in Images!Card
    <2>1. \E n \in Nat : n = Len(cards[w]) /\ DOMAIN cards[w] = 1..n BY <1>2, LenProperties
    <2> QED BY <1>1, <1>2, <1>3, <2>1, ElementOfSeq
  <1>5. PICK c : c = [b EXCEPT !.status = "loading"] OBVIOUS
  <1>6. c \in Images!Card /\ c.status = "loading" BY <1>4, <1>5 DEF Images!Card
  <1>7. PICK ds : ds = [cards[w] EXCEPT ![i] = c] OBVIOUS
  <1>8. /\ ds \in Seq(Images!Card)
        /\ Cardinality(LoadingOf(ds)) = Cardinality(LoadingOf(cards[w])) + 1
    BY <1>1, <1>2, <1>6, <1>7, CardReplaced
  <1>9. cards' = [cards EXCEPT ![w] = ds]
    BY <1>1, <1>3, <1>5, <1>7
  <1>10. blank' \subseteq Images!Requests
    <2>1. pictures \in Seq(Windows) BY DEF ImagesInv, ImagesAsking
    <2>2. PICK l \in Nat : l = Len(pictures) BY <2>1, LenProperties
    <2>3. Len(pictures') = l + 1 BY <1>1, <2>1, <2>2, AppendProperties DEF Images!Ask
    <2>4. l < MaxPictures /\ MaxPictures \in Nat
      BY <1>1, <2>2 DEF Images!Ask, Images!ImagesAssumption
    <2>5. Len(pictures') \in Images!Requests BY <2>2, <2>3, <2>4 DEF Images!Requests
    <2>6. blank' = blank \/ blank' = blank \union {Len(pictures')} BY DEF Images!Retry
    <2> QED BY <2>5, <2>6 DEF ImagesInv, ImagesAsking
  <1> QED BY <1>1, <1>8, <1>9, <1>10, ImagesAskStep

(* An event arrives and leaves other cards.                                  *)
LEMMA TakeStep ==
    ASSUME ImagesInv, NEW w \in Windows, arriving[w] # <<>>,
           arriving' = [arriving EXCEPT ![w] = Tail(@)],
           UNCHANGED <<pictures, blank, online, drops, sent, inFlight, recent, away>>,
           NEW ds \in Seq(Images!Card), cards' = [cards EXCEPT ![w] = ds],
           \A r : Enough(cards[w], sent[w], arriving[w], r) => Enough(ds, sent[w], Tail(arriving[w]), r),
           missing' \subseteq Images!Requests
    PROVE  ImagesInv'
  <1>1. \A v \in Windows : sent[v] \in Seq(Images!Requests) /\ cards[v] \in Seq(Images!Card)
          /\ arriving[v] \in Seq(ImagesTold)
    BY DEF ImagesInv, Boxes
  <1>2. Tail(arriving[w]) \in Seq(ImagesTold) BY <1>1, EventTaken
  <1>3. arriving \in [Windows -> Seq(ImagesTold)] /\ cards \in [Windows -> Seq(Images!Card)]
    BY DEF ImagesInv, Boxes
  <1>4. arriving' = [arriving EXCEPT ![w] = Tail(arriving[w])] OBVIOUS
  <1>5. ImagesAsking' /\ Counts' BY DEF ImagesInv, ImagesAsking, Counts
  <1>6. Ghosts' BY DEF ImagesInv, Ghosts
  <1>7. Boxes'
    <2>1. arriving' \in [Windows -> Seq(ImagesTold)] BY <1>2, <1>3, <1>4
    <2>2. cards' \in [Windows -> Seq(Images!Card)] BY <1>3
    <2>3. sent' \in [Windows -> Seq(Images!Requests)] BY DEF ImagesInv, Boxes
    <2> QED BY <2>1, <2>2, <2>3 DEF Boxes
  <1>8. ASSUME drops' = 0 PROVE AllSure'
    <2>1. AllSure
      BY <1>8 DEF ImagesInv, Whole, AllSure
    <2>2. ASSUME NEW v \in Windows PROVE Sure(v)'
      <3>0. Mine(sent[v], pictures, v) /\ Enough(cards[v], sent[v], arriving[v], inFlight)
        BY <2>1 DEF AllSure, Sure
      <3>1. CASE v = w
        <4>1. arriving'[v] = Tail(arriving[w]) /\ cards'[v] = ds BY <1>3, <1>4, <3>1
        <4>2. Enough(ds, sent[w], Tail(arriving[w]), inFlight) BY <3>0, <3>1
        <4> QED BY <3>0, <3>1, <4>1, <4>2 DEF Sure
      <3>2. CASE v # w
        <4>1. arriving'[v] = arriving[v] /\ cards'[v] = cards[v] BY <1>3, <1>4, <3>2
        <4> QED BY <3>0, <4>1 DEF Sure
      <3> QED BY <3>1, <3>2
    <2> QED BY <2>1, <2>2 DEF AllSure
  <1> QED BY <1>5, <1>6, <1>7, <1>8 DEF ImagesInv, Whole, AllSure

LEMMA ArrivesStep ==
    ASSUME Images!ImagesAssumption, ImagesInv, NEW w \in Windows, Images!Arrives(w)
    PROVE  ImagesInv'
  <1>1. /\ arriving[w] # <<>> /\ arriving' = [arriving EXCEPT ![w] = Tail(@)]
        /\ UNCHANGED <<pictures, blank, online, drops, sent, inFlight, recent, away>>
    BY DEF Images!Arrives
  <1>2. /\ sent[w] \in Seq(Images!Requests)
        /\ cards[w] \in Seq(Images!Card)
        /\ arriving[w] \in Seq(ImagesTold)
    BY DEF ImagesInv, Boxes
  <1>3. PICK e : e = Head(arriving[w]) OBVIOUS
  <1>4. e \in ImagesTold BY <1>1, <1>2, <1>3, HeadTailProperties
  <1>5. PICK k : k = Images!Loading(w) OBVIOUS
  <1>6. /\ LoadingOf(cards[w]) = {} => k = 0
        /\ LoadingOf(cards[w]) # {} => k \in LoadingOf(cards[w])
    BY <1>2, <1>5, LoadingIs
  <1>7. k # 0 => k \in DOMAIN cards[w] /\ cards[w][k].status = "loading"
    BY <1>6 DEF LoadingOf
  <1>8. k = 0 => LoadingOf(cards[w]) = {}
    <2>1. \E n \in Nat : n = Len(cards[w]) /\ DOMAIN cards[w] = 1..n BY <1>2, LenProperties
    <2>2. 0 \notin LoadingOf(cards[w]) BY <2>1 DEF LoadingOf
    <2> QED BY <1>6, <2>2
  <1>9. cards = [cards EXCEPT ![w] = cards[w]] BY DEF ImagesInv, Boxes
  <1>10. missing \subseteq Images!Requests BY DEF ImagesInv, Ghosts
  <1>11. \/ e.kind = "start" /\ Images!Started(w, e) /\ UNCHANGED missing
         \/ e.kind = "result" /\ Images!Result(w, e)
         \/ e.kind = "error" /\ Images!Failed(w, e) /\ UNCHANGED missing
    BY <1>3 DEF Images!Arrives
  <1>12. CASE e.kind = "start" /\ Images!Started(w, e) /\ UNCHANGED missing
    <2>1. CASE k # 0
      <3>1. cards' = [cards EXCEPT ![w] = cards[w]]
        BY <1>5, <1>9, <1>12, <2>1 DEF Images!Started
      <3>2. \A r : Enough(cards[w], sent[w], arriving[w], r)
              => Enough(cards[w], sent[w], Tail(arriving[w]), r)
        BY <1>1, <1>2, <1>3, <1>12, EnoughAnnounced
      <3> QED BY <1>1, <1>2, <1>10, <1>12, <3>1, <3>2, TakeStep
    <2>2. CASE k = 0
      <3>1. PICK c : c = [status |-> "loading", prompt |-> e.of] OBVIOUS
      <3>2. c \in Images!Card /\ c.status = "loading"
        <4>1. e.of \in 0..MaxPictures
          BY <1>4 DEF ImagesTold, Images!Requests, Images!ImagesAssumption
        <4> QED BY <3>1, <4>1 DEF Images!Card
      <3>3. PICK ds : ds = Append(cards[w], c) OBVIOUS
      <3>4. /\ ds \in Seq(Images!Card)
            /\ Cardinality(LoadingOf(ds)) = Cardinality(LoadingOf(cards[w])) + 1
        BY <1>2, <3>2, <3>3, OneMoreLoads
      <3>5. cards' = [cards EXCEPT ![w] = ds]
        BY <1>5, <1>12, <2>2, <3>1, <3>3 DEF Images!Started
      <3>6. \A r : Enough(cards[w], sent[w], arriving[w], r) => Enough(ds, sent[w], Tail(arriving[w]), r)
        BY <1>1, <1>2, <1>3, <1>8, <1>12, <2>2, <3>4, EnoughAnnounced
      <3> QED BY <1>1, <1>10, <1>12, <3>4, <3>5, <3>6, TakeStep
    <2> QED BY <2>1, <2>2
  <1>13. ASSUME e.kind # "start", NEW st \in {"done", "error"},
  missing' \subseteq Images!Requests,
                cards' = IF k = 0 THEN cards
                         ELSE [cards EXCEPT ![w][k] = [status |-> st, prompt |-> e.of]]
         PROVE  ImagesInv'
    <2>1. CASE k = 0
      <3>1. cards' = [cards EXCEPT ![w] = cards[w]] BY <1>9, <1>13, <2>1
      <3>2. \A r : Enough(cards[w], sent[w], arriving[w], r)
              => Enough(cards[w], sent[w], Tail(arriving[w]), r)
        BY <1>1, <1>2, <1>3, <1>8, <1>13, <2>1, EnoughAnswered
      <3> QED BY <1>1, <1>2, <1>13, <3>1, <3>2, TakeStep
    <2>2. CASE k # 0
      <3>1. PICK c : c = [status |-> st, prompt |-> e.of] OBVIOUS
      <3>2. c \in Images!Card /\ c.status # "loading"
        <4>1. e.of \in 0..MaxPictures
          BY <1>4 DEF ImagesTold, Images!Requests, Images!ImagesAssumption
        <4> QED BY <3>1, <4>1 DEF Images!Card
      <3>3. PICK ds : ds = [cards[w] EXCEPT ![k] = c] OBVIOUS
      <3>4. /\ ds \in Seq(Images!Card)
            /\ Cardinality(LoadingOf(ds)) = Cardinality(LoadingOf(cards[w])) - 1
        BY <1>2, <1>7, <2>2, <3>2, <3>3, CardReplaced
      <3>5. cards' = [cards EXCEPT ![w] = ds] BY <1>13, <2>2, <3>1, <3>3
      <3>6. \A r : Enough(cards[w], sent[w], arriving[w], r) => Enough(ds, sent[w], Tail(arriving[w]), r)
        BY <1>1, <1>2, <1>3, <1>13, <3>4, EnoughAnswered
      <3> QED BY <1>1, <1>13, <3>4, <3>5, <3>6, TakeStep
    <2> QED BY <2>1, <2>2
  <1>14. CASE e.kind = "result" /\ Images!Result(w, e)
    <2>1. cards' = IF k = 0 THEN cards
                   ELSE [cards EXCEPT ![w][k] = [status |-> "done", prompt |-> e.of]]
      BY <1>5, <1>14 DEF Images!Result
    <2>2. e.of \in Images!Requests BY <1>4, <1>14 DEF ImagesTold
    <2>3. missing' = missing \/ missing' = missing \union {e.of} BY <1>14 DEF Images!Result
    <2>4. missing' \subseteq Images!Requests BY <1>10, <2>2, <2>3
    <2> QED BY <1>13, <1>14, <2>1, <2>4
  <1>15. CASE e.kind = "error" /\ Images!Failed(w, e) /\ UNCHANGED missing
    <2>1. cards' = IF k = 0 THEN cards
                   ELSE [cards EXCEPT ![w][k] = [status |-> "error", prompt |-> e.of]]
      BY <1>5, <1>15 DEF Images!Failed
    <2> QED BY <1>10, <1>13, <1>15, <2>1
  <1> QED BY <1>11, <1>12, <1>14, <1>15

(* The answer of the handler is an error for the window that asked.          *)
LEMMA RefusalIs ==
    ASSUME Images!ImagesAssumption, NEW r, NEW boxes \in [Windows -> Seq(ImagesTold)]
    PROVE  /\ Images!Refusal(r, boxes) \in [Windows -> Seq(ImagesTold)]
           /\ \A v \in Windows :
                 Images!Refusal(r, boxes)[v] = IF r \notin away /\ pictures[r] = v
                                               THEN Append(boxes[v], [kind |-> "error", of |-> Images!Nobody])
                                               ELSE boxes[v]
  <1>1. PICK e : e = [kind |-> "error", of |-> Images!Nobody] OBVIOUS
  <1>2. e \in ImagesTold BY <1>1 DEF ImagesTold, Images!Nobody, Images!ImagesAssumption
  <1>3. Images!Refusal(r, boxes) = IF r \in away THEN boxes
                                   ELSE [boxes EXCEPT ![pictures[r]] = Append(boxes[pictures[r]], e)]
    BY <1>1 DEF Images!Refusal
  <1>4. PICK f : f = Images!Refusal(r, boxes) OBVIOUS
  <1>5. ASSUME NEW v \in Windows
        PROVE  /\ f[v] = IF r \notin away /\ pictures[r] = v THEN Append(boxes[v], e) ELSE boxes[v]
               /\ f[v] \in Seq(ImagesTold)
    <2>1. f[v] = IF r \notin away /\ pictures[r] = v THEN Append(boxes[v], e) ELSE boxes[v]
      BY <1>3, <1>4
    <2>2. Append(boxes[v], e) \in Seq(ImagesTold) BY <1>2, AppendProperties
    <2> QED BY <2>1, <2>2
  <1>6. f = [v \in Windows |-> f[v]] BY <1>3, <1>4
  <1>7. f \in [Windows -> Seq(ImagesTold)] BY <1>5, <1>6
  <1> QED BY <1>1, <1>4, <1>5, <1>7

LEMMA RoutedIs ==
    ASSUME ImagesInv, NEW e \in ImagesTold
    PROVE  /\ Images!Routed(e) \in [Windows -> Seq(ImagesTold)]
           /\ online = Windows => \A v \in Windows : Images!Routed(e)[v] = Append(arriving[v], e)
  <1>1. \A v \in Windows : arriving[v] \in Seq(ImagesTold) BY DEF ImagesInv, Boxes
  <1>2. \A v \in Windows : Append(arriving[v], e) \in Seq(ImagesTold) BY <1>1, AppendProperties
  <1> QED BY <1>1, <1>2 DEF Images!Routed

LEMMA ImagesReceiveStep ==
    ASSUME Images!ImagesAssumption, ImagesInv, NEW w \in Windows, Images!Receive(w)
    PROVE  ImagesInv'
  <1>1. /\ sent[w] # <<>> /\ sent' = [sent EXCEPT ![w] = Tail(sent[w])]
        /\ UNCHANGED <<pictures, blank, cards, online, drops, missing, away>>
    BY DEF Images!Receive
  <1>2. \A v \in Windows : sent[v] \in Seq(Images!Requests) /\ cards[v] \in Seq(Images!Card)
          /\ arriving[v] \in Seq(ImagesTold)
    BY DEF ImagesInv, Boxes
  <1>3. PICK r : r = Head(sent[w]) OBVIOUS
  <1>4. r \in Images!Requests /\ Tail(sent[w]) \in Seq(Images!Requests)
    BY <1>1, <1>2, <1>3, HeadTailProperties
  <1>5. sent \in [Windows -> Seq(Images!Requests)] /\ arriving \in [Windows -> Seq(ImagesTold)]
    BY DEF ImagesInv, Boxes
  <1>6. r \in 1..MaxPictures /\ r \in Nat /\ r # Images!Nobody /\ r \in 0..MaxPictures
    BY <1>4 DEF Images!Requests, Images!Nobody, Images!ImagesAssumption
  <1>7. ImagesAsking' /\ Ghosts' BY <1>1 DEF ImagesInv, ImagesAsking, Ghosts
  <1>8. sent' \in [Windows -> Seq(Images!Requests)] BY <1>1, <1>4, <1>5
  <1>9. ASSUME arriving' \in [Windows -> Seq(ImagesTold)], inFlight' \in 0..MaxPictures,
  recent' \in 0..MaxPerWindow,
               drops = 0 /\ AllSure
                  => \A v \in Windows : Enough(cards[v], sent'[v], arriving'[v], inFlight')
        PROVE  ImagesInv'
    <2>1. Boxes' BY <1>1, <1>8, <1>9 DEF ImagesInv, Boxes
    <2>2. Counts' BY <1>1, <1>9 DEF ImagesInv, Counts
    <2>3. ASSUME drops' = 0 PROVE AllSure'
      <3>1. drops = 0 /\ AllSure
        BY <1>1, <2>3 DEF ImagesInv, Whole, AllSure
      <3>2. ASSUME NEW v \in Windows PROVE Sure(v)'
        <4>1. Mine(sent[v], pictures, v) BY <3>1 DEF Sure, AllSure
        <4>2. Mine(sent'[v], pictures, v)
          <5>1. CASE v = w
            <6>1. sent'[v] = Tail(sent[v]) BY <1>1, <1>5, <5>1
            <6> QED BY <1>1, <1>2, <4>1, <5>1, <6>1, MineTaken
          <5>2. CASE v # w
            <6>1. sent'[v] = sent[v] BY <1>1, <1>5, <5>2
            <6> QED BY <4>1, <6>1
          <5> QED BY <5>1, <5>2
        <4>3. Enough(cards[v], sent'[v], arriving'[v], inFlight') BY <1>9, <3>1
        <4> QED BY <1>1, <4>2, <4>3 DEF Sure
      <3> QED BY <1>1, <3>1, <3>2 DEF AllSure
    <2> QED BY <1>7, <2>1, <2>2, <2>3 DEF ImagesInv, Whole, AllSure
  <1>10. CASE Images!MayStart(r)
    <2>1. /\ inFlight' = r
          /\ recent' = recent + 1
          /\ arriving' = Images!Routed([kind |-> "start", of |-> r])
      BY <1>3, <1>10 DEF Images!Receive
    <2>2. PICK e : e = [kind |-> "start", of |-> r] OBVIOUS
    <2>3. e \in ImagesTold /\ e.kind = "start" BY <1>4, <2>2 DEF ImagesTold
    <2>4. arriving' \in [Windows -> Seq(ImagesTold)] BY <2>1, <2>2, <2>3, RoutedIs
    <2>5. recent' \in 0..MaxPerWindow
      BY <1>10, <2>1 DEF Images!MayStart, ImagesInv, Counts, Images!ImagesAssumption
    <2>6. inFlight = Images!Nobody BY <1>10 DEF Images!MayStart
    <2>7. ASSUME drops = 0 /\ AllSure,
                 NEW v \in Windows
          PROVE  Enough(cards[v], sent'[v], arriving'[v], inFlight')
      <3>1. arriving'[v] = Append(arriving[v], e)
        BY <2>1, <2>2, <2>3, <2>7, RoutedIs DEF AllSure
      <3>2. Enough(cards[v], sent[v], arriving[v], Images!Nobody)
        BY <2>6, <2>7 DEF Sure, AllSure
      <3>3. /\ Enough(cards[v], sent[v], Append(arriving[v], e), r)
            /\ sent[v] # <<>> => Enough(cards[v], Tail(sent[v]), Append(arriving[v], e), r)
        BY <1>2, <1>6, <2>3, <3>2, EnoughStarted
      <3>4. sent'[v] = IF v = w THEN Tail(sent[v]) ELSE sent[v] BY <1>1, <1>5
      <3> QED BY <1>1, <2>1, <3>1, <3>3, <3>4
    <2> QED BY <1>6, <1>9, <2>1, <2>4, <2>5, <2>7
  <1>11. CASE ~Images!MayStart(r)
    <2>1. arriving' = Images!Refusal(r, arriving) /\ UNCHANGED <<inFlight, recent>>
      BY <1>3, <1>11 DEF Images!Receive
    <2>2. arriving' \in [Windows -> Seq(ImagesTold)] BY <1>5, <2>1, RefusalIs
    <2>3. inFlight' \in 0..MaxPictures /\ recent' \in 0..MaxPerWindow
      BY <2>1 DEF ImagesInv, Counts
    <2>4. ASSUME drops = 0 /\ AllSure,
                 NEW v \in Windows
          PROVE  Enough(cards[v], sent'[v], arriving'[v], inFlight')
      <3>1. PICK e : e = [kind |-> "error", of |-> Images!Nobody] OBVIOUS
      <3>2. e \in ImagesTold /\ e.kind # "start"
        BY <3>1 DEF ImagesTold, Images!Nobody, Images!ImagesAssumption
      <3>3. Mine(sent[w], pictures, w) /\ Enough(cards[v], sent[v], arriving[v], inFlight)
        BY <2>4 DEF Sure, AllSure
      <3>4. pictures[r] = w BY <1>1, <1>2, <1>3, <3>3, MineTaken
      <3>5. arriving'[v] = IF w = v THEN Append(arriving[v], e) ELSE arriving[v]
        <4>1. PICK g : g = Images!Refusal(r, arriving) OBVIOUS
        <4>2. g[v] = IF r \notin away /\ pictures[r] = v THEN Append(arriving[v], e) ELSE arriving[v]
          BY <1>5, <3>1, <4>1, RefusalIs
        <4>3. r \notin away BY <2>4 DEF AllSure
        <4> QED BY <2>1, <3>4, <4>1, <4>2, <4>3
      <3>6. sent'[v] = IF v = w THEN Tail(sent[v]) ELSE sent[v] BY <1>1, <1>5
      <3>7. CASE v = w
        <4>1. Enough(cards[v], Tail(sent[v]), Append(arriving[v], e), inFlight)
          BY <1>1, <1>2, <3>2, <3>3, <3>7, EnoughEnded
        <4> QED BY <2>1, <3>5, <3>6, <3>7, <4>1
      <3>8. CASE v # w BY <2>1, <3>3, <3>5, <3>6, <3>8
      <3> QED BY <3>7, <3>8
    <2> QED BY <1>9, <2>2, <2>3, <2>4
  <1> QED BY <1>10, <1>11

(* A picture is made, or is not: that ends one loading of a window, or two.   *)
ImagesEnds(es, fs) ==
    \E e \in ImagesTold, f \in ImagesTold :
       /\ e.kind # "start" /\ f.kind # "start"
       /\ fs = Append(es, e) \/ fs = Append(Append(es, e), f)

LEMMA EndStep ==
    ASSUME Images!ImagesAssumption, ImagesInv, inFlight' = Images!Nobody,
           UNCHANGED <<pictures, blank, cards, online, drops, sent, recent, missing, away>>,
           arriving' \in [Windows -> Seq(ImagesTold)],
           \A v \in Windows : online = Windows =>
              ImagesEnds(arriving[v], arriving'[v])
    PROVE  ImagesInv'
  <1>1. \A v \in Windows : sent[v] \in Seq(Images!Requests) /\ cards[v] \in Seq(Images!Card)
          /\ arriving[v] \in Seq(ImagesTold)
    BY DEF ImagesInv, Boxes
  <1>2. ImagesAsking' /\ Ghosts' BY DEF ImagesInv, ImagesAsking, Ghosts
  <1>3. Boxes' BY DEF ImagesInv, Boxes
  <1>4. Counts'
    <2>1. Images!Nobody \in 0..MaxPictures BY DEF Images!Nobody, Images!ImagesAssumption
    <2> QED BY <2>1 DEF ImagesInv, Counts
  <1>5. ASSUME drops' = 0 PROVE AllSure'
    <2>1. AllSure
      BY <1>5 DEF ImagesInv, Whole, AllSure
    <2>2. ASSUME NEW v \in Windows PROVE Sure(v)'
      <3>1. Mine(sent[v], pictures, v) /\ Enough(cards[v], sent[v], arriving[v], inFlight)
        BY <2>1 DEF AllSure, Sure
      <3>2. PICK e \in ImagesTold, f \in ImagesTold : /\ e.kind # "start" /\ f.kind # "start"
                                                     /\ \/ arriving'[v] = Append(arriving[v], e)
                                                        \/ arriving'[v] = Append(Append(arriving[v], e), f)
        BY <2>1 DEF AllSure, ImagesEnds
      <3>3. Enough(cards[v], sent[v], Append(arriving[v], e), Images!Nobody)
        BY <1>1, <3>1, <3>2, EnoughEnded
      <3>4. Append(arriving[v], e) \in Seq(ImagesTold) BY <1>1, <3>2, AppendProperties
      <3>5. Enough(cards[v], sent[v], arriving'[v], Images!Nobody)
        <4>1. CASE arriving'[v] = Append(arriving[v], e) BY <3>3, <4>1
        <4>2. CASE arriving'[v] = Append(Append(arriving[v], e), f)
          BY <1>1, <3>2, <3>3, <3>4, <4>2, EnoughEnded
        <4> QED BY <3>2, <4>1, <4>2
      <3> QED BY <3>1, <3>5 DEF Sure
    <2> QED BY <2>1, <2>2 DEF AllSure
  <1> QED BY <1>2, <1>3, <1>4, <1>5 DEF ImagesInv, Whole, AllSure

(* Of one window, it adds the refusal to what is under way, or nothing.      *)
LEMMA RefusalAdds ==
    ASSUME Images!ImagesAssumption, NEW r, NEW boxes \in [Windows -> Seq(ImagesTold)],
           NEW f, f = [kind |-> "error", of |-> Images!Nobody], NEW v \in Windows
    PROVE  Images!Refusal(r, boxes)[v] = boxes[v] \/ Images!Refusal(r, boxes)[v] = Append(boxes[v], f)
  <1>1. PICK g : g = Images!Refusal(r, boxes) OBVIOUS
  <1>2. g[v] = IF r \notin away /\ pictures[r] = v THEN Append(boxes[v], f) ELSE boxes[v]
    BY <1>1, RefusalIs
  <1>3. g[v] = boxes[v] \/ g[v] = Append(boxes[v], f) BY <1>2
  <1> QED BY <1>1, <1>3

LEMMA GeneratedStep ==
    ASSUME Images!ImagesAssumption, ImagesInv, Images!Generated \/ Images!GenerationFails
    PROVE  ImagesInv'
  <1>1. /\ inFlight # Images!Nobody /\ inFlight' = Images!Nobody
        /\ UNCHANGED <<pictures, blank, cards, online, drops, sent, recent, missing, away>>
    BY DEF Images!Generated, Images!GenerationFails
  <1>2. inFlight \in Images!Requests
    BY <1>1 DEF ImagesInv, Counts, Images!Requests, Images!Nobody, Images!ImagesAssumption
  <1>3. inFlight \in 0..MaxPictures BY DEF ImagesInv, Counts
  <1>4. CASE Images!Generated
    <2>1. PICK e : e = [kind |-> "result", of |-> inFlight] OBVIOUS
    <2>2. e \in ImagesTold /\ e.kind # "start" BY <1>2, <2>1 DEF ImagesTold
    <2>3. arriving' = Images!Routed(e) BY <1>4, <2>1 DEF Images!Generated
    <2>4. arriving' \in [Windows -> Seq(ImagesTold)] BY <2>2, <2>3, RoutedIs
    <2>5. ASSUME NEW v \in Windows, online = Windows PROVE arriving'[v] = Append(arriving[v], e)
      BY <2>2, <2>3, <2>5, RoutedIs
    <2>6. \A v \in Windows : online = Windows => ImagesEnds(arriving[v], arriving'[v])
      BY <2>2, <2>5 DEF ImagesEnds
    <2> QED BY <1>1, <2>4, <2>6, EndStep
  <1>5. CASE Images!GenerationFails
    <2>1. PICK e : e = [kind |-> "error", of |-> inFlight] OBVIOUS
    <2>2. e \in ImagesTold /\ e.kind # "start" BY <1>3, <2>1 DEF ImagesTold
    <2>3. PICK f : f = [kind |-> "error", of |-> Images!Nobody] OBVIOUS
    <2>4. f \in ImagesTold /\ f.kind # "start"
      BY <2>3 DEF ImagesTold, Images!Nobody, Images!ImagesAssumption
    <2>5. PICK b : b = Images!Routed(e) OBVIOUS
    <2>6. arriving' = Images!Refusal(inFlight, b) BY <1>5, <2>1, <2>5 DEF Images!GenerationFails
    <2>7. b \in [Windows -> Seq(ImagesTold)] BY <2>2, <2>5, RoutedIs
    <2>8. arriving' \in [Windows -> Seq(ImagesTold)] BY <2>6, <2>7, RefusalIs
    <2>9. ASSUME NEW v \in Windows, online = Windows
          PROVE  \/ arriving'[v] = Append(arriving[v], e)
                 \/ arriving'[v] = Append(Append(arriving[v], e), f)
      <3>1. b[v] = Append(arriving[v], e) BY <2>2, <2>5, <2>9, RoutedIs
      <3>2. Images!Refusal(inFlight, b)[v] = b[v] \/ Images!Refusal(inFlight, b)[v] = Append(b[v], f)
        BY <2>3, <2>7, RefusalAdds
      <3>3. arriving'[v] = b[v] \/ arriving'[v] = Append(b[v], f) BY <2>6, <3>2
      <3> QED BY <3>1, <3>3
    <2>10. \A v \in Windows : online = Windows => ImagesEnds(arriving[v], arriving'[v])
      BY <2>2, <2>4, <2>9 DEF ImagesEnds
    <2> QED BY <1>1, <2>8, <2>10, EndStep
  <1> QED BY <1>4, <1>5

LEMMA DropStep ==
    ASSUME Images!ImagesAssumption, ImagesInv, NEW w \in Windows, Images!Drop(w)
    PROVE  ImagesInv'
  <1>1. UNCHANGED <<pictures, blank, cards, sent, inFlight, recent, missing>> BY DEF Images!Drop
  <1>2. ImagesAsking' BY <1>1 DEF ImagesInv, ImagesAsking
  <1>3. Boxes'
    <2>1. arriving' \in [Windows -> Seq(ImagesTold)] BY DEF Images!Drop, ImagesInv, Boxes
    <2> QED BY <1>1, <2>1 DEF ImagesInv, Boxes
  <1>4. drops' \in 0..MaxDrops /\ drops' # 0
    BY DEF Images!Drop, ImagesInv, Counts, Images!ImagesAssumption
  <1>5. Counts'
    <2>1. online' \subseteq Windows BY DEF Images!Drop, ImagesInv, Counts
    <2> QED BY <1>1, <1>4, <2>1 DEF ImagesInv, Counts
  <1>6. Ghosts'
    <2>1. pictures \in Seq(Windows) /\ Len(pictures) =< MaxPictures
      BY DEF ImagesInv, ImagesAsking
    <2>2. PICK l \in Nat : l = Len(pictures) /\ DOMAIN pictures = 1..l BY <2>1, LenProperties
    <2>3. 1..l \subseteq 1..MaxPictures BY <2>1, <2>2 DEF Images!ImagesAssumption
    <2>4. DOMAIN pictures \subseteq Images!Requests BY <2>2, <2>3 DEF Images!Requests
    <2>5. away' = away \union {r \in DOMAIN pictures : pictures[r] = w} BY DEF Images!Drop
    <2>6. away' \subseteq Images!Requests BY <2>4, <2>5 DEF ImagesInv, Ghosts
    <2> QED BY <1>1, <2>6 DEF ImagesInv, Ghosts
  <1> QED BY <1>2, <1>3, <1>4, <1>5, <1>6 DEF ImagesInv, Whole, AllSure

LEMMA ReconnectStep ==
    ASSUME ImagesInv, NEW w \in Windows, Images!Reconnect(w)
    PROVE  ImagesInv'
  <1>1. UNCHANGED <<pictures, blank, cards, drops, sent, arriving, inFlight, recent, missing, away>>
    BY DEF Images!Reconnect
  <1>2. drops # 0 BY DEF Images!Reconnect, ImagesInv, Whole, AllSure
  <1>3. Counts' BY <1>1 DEF Images!Reconnect, ImagesInv, Counts
  <1>4. ImagesAsking' /\ Boxes' /\ Ghosts' BY <1>1 DEF ImagesInv, ImagesAsking, Boxes, Ghosts
  <1> QED BY <1>1, <1>2, <1>3, <1>4 DEF ImagesInv, Whole, AllSure

LEMMA MinuteStep ==
    ASSUME Images!ImagesAssumption, ImagesInv, Images!MinutePasses
    PROVE  ImagesInv'
  <1>1. UNCHANGED <<pictures, blank, cards, online, drops, sent, arriving, inFlight, missing, away>>
    BY DEF Images!MinutePasses
  <1>2. recent' \in 0..MaxPerWindow
    BY DEF Images!MinutePasses, ImagesInv, Counts, Images!ImagesAssumption
  <1>3. ImagesAsking' /\ Boxes' /\ Ghosts' BY <1>1 DEF ImagesInv, ImagesAsking, Boxes, Ghosts
  <1>4. Counts' BY <1>1, <1>2 DEF ImagesInv, Counts
  <1>5. Whole' BY <1>1 DEF ImagesInv, Whole, AllSure, Sure
  <1> QED BY <1>3, <1>4, <1>5 DEF ImagesInv

LEMMA ImagesStay ==
    ASSUME ImagesInv, UNCHANGED Images!vars PROVE ImagesInv'
  BY DEF ImagesInv, ImagesAsking, Boxes, Counts, Ghosts, Whole, AllSure, Sure, Images!vars

LEMMA ImagesInvariance ==
    ASSUME Images!ImagesAssumption PROVE Images!Spec => []ImagesInv
  <1>1. Images!Init => ImagesInv BY ImagesStart
  <1>2. ImagesInv /\ [Images!Next]_(Images!vars) => ImagesInv'
    BY GenerateStep, RetryStep, ArrivesStep, DropStep, ReconnectStep, ImagesReceiveStep,
       GeneratedStep,
       MinuteStep, ImagesStay DEF Images!Next
  <1> QED BY <1>1, <1>2, PTL DEF Images!Spec

(***************************************************************************)
(* WakeChat.tla                                                            *)
(***************************************************************************)

WakeChatStages == {"unsent", "asked", "thinking", "streaming", "done"}

(* The turns are sent in their order.                                       *)
WakeChatInTheirOrder == \A t, u \in WakeChat!Turns : u < t /\ by[t] # "nobody" => by[u] # "nobody"

(* Of the texts that the reply shows all but one are still being written,   *)
(* or their turn was cancelled.                                             *)
WakeChatOneIsOver ==
    /\ \A t \in reply : by[t] = "popup"
    /\ unheard \/ \E x \in 0 .. MaxAsked :
                     \A t \in reply : t = x \/ stage[t] = "streaming" \/ t \in cancelled

WakeChatPopupPage ==
    /\ WakeChat!TypeOK
    /\ ~linked => conn < MaxBreaks
    /\ WakeChatInTheirOrder
    /\ WakeChatOneIsOver
    /\ WakeChat!SendingIsAwaited
    /\ WakeChat!ComingIsAwaited

LEMMA WakeChatTyped ==
    ASSUME WakeChat!TypeOK
    PROVE  /\ phase \in {"idle", "sending", "error"} /\ reply \subseteq WakeChat!Turns
           /\ streaming \in BOOLEAN /\ image \in {"none", "loading", "done", "error"}
           /\ voice \in {"off", "free", "sending"}
           /\ by \in [WakeChat!Turns -> WakeChat!Senders \union {"nobody"}]
           /\ stage \in [WakeChat!Turns -> WakeChatStages]
           /\ origin \in [WakeChat!Turns -> 0..MaxBreaks]
           /\ drawing \subseteq WakeChat!Turns /\ cancelled \subseteq WakeChat!Turns
           /\ streams \in WakeChat!Turns \union {WakeChat!None}
           /\ linked \in BOOLEAN /\ conn \in 0..MaxBreaks /\ unheard \in BOOLEAN
  BY DEF WakeChat!TypeOK, WakeChatStages

LEMMA WakeChatTypes ==
    ASSUME phase' \in {"idle", "sending", "error"}, reply' \subseteq WakeChat!Turns,
           streaming' \in BOOLEAN, image' \in {"none", "loading", "done", "error"},
           voice' \in {"off", "free", "sending"},
           by' \in [WakeChat!Turns -> WakeChat!Senders \union {"nobody"}],
           stage' \in [WakeChat!Turns -> WakeChatStages],
           origin' \in [WakeChat!Turns -> 0..MaxBreaks],
           drawing' \subseteq WakeChat!Turns, cancelled' \subseteq WakeChat!Turns,
           streams' \in WakeChat!Turns \union {WakeChat!None},
           linked' \in BOOLEAN, conn' \in 0..MaxBreaks, unheard' \in BOOLEAN
    PROVE  WakeChat!TypeOK'
  BY DEF WakeChat!TypeOK, WakeChatStages

(* What a packet makes of the page.                                         *)
LEMMA WakeChatHandled ==
    ASSUME WakeChat!TypeOK, NEW t \in WakeChat!Turns, NEW e, WakeChat!Handle(t, e)
    PROVE  /\ phase' \in {"idle", "sending", "error"} /\ reply' \subseteq WakeChat!Turns
           /\ streaming' \in BOOLEAN /\ image' \in {"none", "loading", "done", "error"}
           /\ reply' \subseteq reply \union {t}
           /\ phase' = "sending" => phase = "sending"
           /\ streaming' => streaming \/ e = "start"
           /\ image' = "loading" => image = "loading" \/ e = "loading"
           /\ e \in {"end", "answer"} => ~streaming'
           /\ e \in {"answer", "error"} => phase' # "sending"
           /\ e = "answer" => reply' = {t}
           /\ e \in {"done", "failed"} => image' # "loading"
           /\ e \notin {"chunk", "answer"} => reply' \subseteq reply
  <1>1. /\ phase \in {"idle", "sending", "error"} /\ reply \subseteq WakeChat!Turns
        /\ streaming \in BOOLEAN /\ image \in {"none", "loading", "done", "error"}
    BY WakeChatTyped
  <1>2. \/ e = "start" /\ streaming' = TRUE /\ reply' = {} /\ UNCHANGED <<phase, image>>
        \/ e = "chunk" /\ reply' = reply \union {t} /\ UNCHANGED <<phase, streaming, image>>
        \/ e = "end" /\ streaming' = FALSE /\ UNCHANGED <<phase, reply, image>>
        \/ e = "answer" /\ streaming' = FALSE /\ phase' = "idle" /\ reply' = {t} /\ UNCHANGED image
        \/ e = "error" /\ phase' = "error" /\ UNCHANGED <<reply, streaming, image>>
        \/ /\ e \in {"loading", "done", "failed"}
           /\ image' = (IF e = "failed" THEN "error" ELSE e)
           /\ UNCHANGED <<phase, reply, streaming>>
    BY DEF WakeChat!Handle
  <1>3. phase' \in {"idle", "sending", "error"} BY <1>1, <1>2
  <1>4. reply' \subseteq WakeChat!Turns /\ reply' \subseteq reply \union {t} BY <1>1, <1>2
  <1>5. streaming' \in BOOLEAN BY <1>1, <1>2
  <1>6. image' \in {"none", "loading", "done", "error"} BY <1>1, <1>2
  <1>7. /\ phase' = "sending" => phase = "sending"
        /\ image' = "loading" => image = "loading" \/ e = "loading"
        /\ e \in {"answer", "error"} => phase' # "sending"
        /\ e \in {"done", "failed"} => image' # "loading"
    BY <1>1, <1>2
  <1>8. /\ streaming' => streaming \/ e = "start"
        /\ e \in {"end", "answer"} => ~streaming'
    BY <1>1, <1>2
  <1>9. /\ e = "answer" => reply' = {t}
        /\ e \notin {"chunk", "answer"} => reply' \subseteq reply
    BY <1>1, <1>2
  <1> QED BY <1>3, <1>4, <1>5, <1>6, <1>7, <1>8, <1>9

(* What a step leaves alone: who sent what.                                 *)
WakeChatSameSenders == by' = by /\ origin' = origin

LEMMA WakeChatOrderStays == ASSUME WakeChatInTheirOrder, by' = by PROVE WakeChatInTheirOrder'
  BY DEF WakeChatInTheirOrder

LEMMA WakeChatOverStays ==
    ASSUME WakeChatOneIsOver, by' = by, reply' \subseteq reply, unheard => unheard',
           cancelled \subseteq cancelled',
           \A t \in reply : stage[t] = "streaming" => stage'[t] = "streaming" \/ t \in cancelled' \/ unheard'
    PROVE  WakeChatOneIsOver'
  BY DEF WakeChatOneIsOver

LEMMA WakeChatWaitStays ==
    ASSUME WakeChat!SendingIsAwaited, by' = by, unheard => unheard',
           phase' = "sending" => phase = "sending",
           cancelled \subseteq cancelled',
           \A t \in WakeChat!Turns : by[t] = "popup" /\ WakeChat!Running(t) =>
              unheard' \/ t \in cancelled' \/ phase' # "sending"
              \/ stage'[t] \in {"asked", "thinking", "streaming"}
    PROVE  WakeChat!SendingIsAwaited'
  <1> SUFFICES ASSUME phase' = "sending", ~unheard'
               PROVE  \E t \in WakeChat!Of("popup") : (\A u \in WakeChat!Of("popup") : u <= t)
                        /\ (WakeChat!Running(t)' \/ t \in cancelled')
    BY DEF WakeChat!SendingIsAwaited, WakeChat!Of
  <1>1. PICK t \in WakeChat!Of("popup") : (\A u \in WakeChat!Of("popup") : u <= t)
               /\ (WakeChat!Running(t) \/ t \in cancelled)
    BY DEF WakeChat!SendingIsAwaited
  <1>2. t \in WakeChat!Turns /\ by[t] = "popup" BY DEF WakeChat!Of
  <1> QED BY <1>1, <1>2 DEF WakeChat!Running

LEMMA WakeChatComingStays ==
    ASSUME WakeChat!ComingIsAwaited, by' = by, unheard => unheard',
           streaming' => streaming, image' = "loading" => image = "loading",
           streaming' => \A t \in WakeChat!Turns : by[t] = "popup" /\ stage[t] = "streaming" =>
                            unheard' \/ stage'[t] = "streaming",
           image' = "loading" => unheard' \/ drawing \subseteq drawing'
    PROVE  WakeChat!ComingIsAwaited'
  BY DEF WakeChat!ComingIsAwaited, WakeChat!Of

(* A turn that is sent is the newest of its window, and asks.               *)
LEMMA WakeChatSends ==
    ASSUME WakeChatPopupPage, NEW t \in WakeChat!Turns, NEW w \in WakeChat!Senders,
           WakeChat!Asks(t, w)
    PROVE  /\ by' \in [WakeChat!Turns -> WakeChat!Senders \union {"nobody"}]
           /\ stage' \in [WakeChat!Turns -> WakeChatStages]
           /\ origin' \in [WakeChat!Turns -> 0..MaxBreaks]
           /\ by'[t] = w /\ stage'[t] = "asked"
           /\ \A u \in WakeChat!Turns : u # t => by'[u] = by[u] /\ stage'[u] = stage[u]
           /\ \A u \in WakeChat!Turns : by'[u] # "nobody" => u <= t
           /\ by[t] = "nobody"
           /\ WakeChatInTheirOrder'
           /\ UNCHANGED <<drawing, streams, cancelled, linked, conn, unheard>>
  <1>t. WakeChat!TypeOK BY DEF WakeChatPopupPage
  <1>1. /\ by[t] = "nobody" /\ \A u \in WakeChat!Turns : u < t => by[u] # "nobody"
        /\ by' = [by EXCEPT ![t] = w] /\ stage' = [stage EXCEPT ![t] = "asked"]
        /\ origin' = [origin EXCEPT ![t] = conn]
        /\ UNCHANGED <<drawing, streams, cancelled, linked, conn, unheard>>
    BY DEF WakeChat!Asks, WakeChat!net
  <1>2. /\ by \in [WakeChat!Turns -> WakeChat!Senders \union {"nobody"}]
        /\ stage \in [WakeChat!Turns -> WakeChatStages]
        /\ origin \in [WakeChat!Turns -> 0..MaxBreaks] /\ conn \in 0..MaxBreaks
    BY <1>t, WakeChatTyped
  <1>3. /\ by'[t] = w /\ stage'[t] = "asked"
        /\ \A u \in WakeChat!Turns : u # t => by'[u] = by[u] /\ stage'[u] = stage[u]
    BY <1>1, <1>2
  <1>4. by' \in [WakeChat!Turns -> WakeChat!Senders \union {"nobody"}] BY <1>1, <1>2
  <1>5. stage' \in [WakeChat!Turns -> WakeChatStages] BY <1>1, <1>2 DEF WakeChatStages
  <1>6. origin' \in [WakeChat!Turns -> 0..MaxBreaks] BY <1>1, <1>2
  <1>7. w # "nobody" BY DEF WakeChat!Senders
  <1>8. \A u \in WakeChat!Turns : by'[u] # "nobody" => u <= t
    <2> SUFFICES ASSUME NEW u \in WakeChat!Turns, by'[u] # "nobody", u > t
        PROVE FALSE
          BY DEF WakeChat!Turns
    <2>1. by[u] # "nobody" /\ t < u BY <1>3 DEF WakeChat!Turns
    <2> QED BY <1>1, <2>1 DEF WakeChatPopupPage, WakeChatInTheirOrder
  <1>9. WakeChatInTheirOrder'
    <2> SUFFICES ASSUME NEW v \in WakeChat!Turns, NEW u \in WakeChat!Turns, u < v, by'[v] # "nobody"
                 PROVE  by'[u] # "nobody"
      BY DEF WakeChatInTheirOrder
    <2>1. CASE u = t BY <1>3, <1>7, <2>1
    <2>2. CASE u # t
      <3>1. v <= t BY <1>8
      <3>2. u < t BY <2>2, <3>1 DEF WakeChat!Turns
      <3> QED BY <1>1, <1>3, <2>2, <3>2
    <2> QED BY <2>1, <2>2
  <1> QED BY <1>1, <1>3, <1>4, <1>5, <1>6, <1>8, <1>9

LEMMA WakeChatSendInStep ==
    ASSUME WakeChatPopupPage, NEW t \in WakeChat!Turns, NEW known, WakeChat!SendIn(known, t),
           voice' \in {"off", "free", "sending"}
    PROVE  WakeChatPopupPage'
  <1>t. WakeChat!TypeOK BY DEF WakeChatPopupPage
  <1>1. /\ WakeChat!Asks(t, "popup")
        /\ phase' = "sending"
        /\ reply' = {}
        /\ image' = "none"
        /\ streaming' = streaming
    BY DEF WakeChat!SendIn
  <1>2. "popup" \in WakeChat!Senders BY DEF WakeChat!Senders
  <1>3. /\ by' \in [WakeChat!Turns -> WakeChat!Senders \union {"nobody"}]
        /\ stage' \in [WakeChat!Turns -> WakeChatStages]
        /\ origin' \in [WakeChat!Turns -> 0..MaxBreaks]
        /\ by'[t] = "popup" /\ stage'[t] = "asked"
        /\ \A u \in WakeChat!Turns : u # t => by'[u] = by[u] /\ stage'[u] = stage[u]
        /\ \A u \in WakeChat!Turns : by'[u] # "nobody" => u <= t
        /\ by[t] = "nobody" /\ WakeChatInTheirOrder'
        /\ UNCHANGED <<drawing, streams, cancelled, linked, conn, unheard>>
    BY <1>1, <1>2, WakeChatSends
  <1>4. WakeChat!TypeOK'
    <2>1. reply' \subseteq WakeChat!Turns /\ phase' \in {"idle", "sending", "error"}
          /\ image' \in {"none", "loading", "done", "error"}
      BY <1>1
    <2>2. /\ streaming' \in BOOLEAN
          /\ drawing' \subseteq WakeChat!Turns
          /\ cancelled' \subseteq WakeChat!Turns
          /\ streams' \in WakeChat!Turns \union {WakeChat!None}
          /\ linked' \in BOOLEAN
          /\ conn' \in 0..MaxBreaks
          /\ unheard' \in BOOLEAN
      BY <1>t, <1>1, <1>3, WakeChatTyped
    <2> QED BY <1>3, <2>1, <2>2, WakeChatTypes
  <1>5. WakeChatOneIsOver'
    <2>1. t \in 0 .. MaxAsked BY DEF WakeChat!Turns
    <2> QED BY <1>1, <2>1 DEF WakeChatOneIsOver
  <1>6. WakeChat!SendingIsAwaited'
    BY <1>3 DEF WakeChat!SendingIsAwaited, WakeChat!Of, WakeChat!Running
  <1>7. WakeChat!ComingIsAwaited'
    BY <1>1, <1>3 DEF WakeChatPopupPage, WakeChat!ComingIsAwaited, WakeChat!Of
  <1> QED BY <1>3, <1>4, <1>5, <1>6, <1>7 DEF WakeChatPopupPage

(* A packet to the popup is handled or lost; one to the other window is not *)
(* its concern.                                                             *)
LEMMA WakeChatEmitted ==
    ASSUME WakeChat!TypeOK, NEW t \in WakeChat!Turns, NEW e,
           WakeChat!Emit(t, e) \/ (UNCHANGED <<WakeChat!page, unheard>> /\ t \in cancelled)
    PROVE  /\ phase' \in {"idle", "sending", "error"} /\ reply' \subseteq WakeChat!Turns
           /\ streaming' \in BOOLEAN /\ image' \in {"none", "loading", "done", "error"}
           /\ unheard' \in BOOLEAN /\ (unheard => unheard')
           /\ \/ by[t] = "popup" /\ WakeChat!Handle(t, e)
              \/ UNCHANGED WakeChat!page /\ (by[t] = "popup" => unheard' \/ t \in cancelled)
  <1>1. CASE by[t] = "popup" /\ linked /\ origin[t] = conn /\ WakeChat!Emit(t, e)
    <2>1. WakeChat!Handle(t, e) /\ UNCHANGED unheard BY <1>1 DEF WakeChat!Emit
    <2> QED BY <1>1, <2>1, WakeChatHandled, WakeChatTyped
  <1>2. CASE ~(by[t] = "popup" /\ linked /\ origin[t] = conn) /\ WakeChat!Emit(t, e)
    <2>1. UNCHANGED WakeChat!page /\ unheard' = (unheard \/ by[t] = "popup")
      BY <1>2 DEF WakeChat!Emit
    <2>2. unheard' \in BOOLEAN BY <2>1
    <2>3. unheard => unheard' BY <2>1
    <2>4. by[t] = "popup" => unheard' BY <2>1
    <2> QED BY <2>1, <2>2, <2>3, <2>4, WakeChatTyped DEF WakeChat!page
  <1>3. CASE UNCHANGED <<WakeChat!page, unheard>> /\ t \in cancelled
    BY <1>3, WakeChatTyped DEF WakeChat!page
  <1> QED BY <1>1, <1>2, <1>3

LEMMA WakeChatStep ==
    ASSUME WakeChat!WakeChatAssumption, WakeChatPopupPage, WakeChat!Next
    PROVE  WakeChatPopupPage'
  <1>m. MaxAsked \in Nat /\ MaxBreaks \in Nat BY DEF WakeChat!WakeChatAssumption
  <1>t. WakeChat!TypeOK BY DEF WakeChatPopupPage
  <1>v. WakeChatInTheirOrder /\ WakeChatOneIsOver /\ WakeChat!SendingIsAwaited /\ WakeChat!ComingIsAwaited
    BY DEF WakeChatPopupPage
  <1>p. \A t \in WakeChat!Turns, s \in WakeChatStages : [stage EXCEPT ![t] = s] \in [WakeChat!Turns -> WakeChatStages]
            /\ [stage EXCEPT ![t] = s][t] = s
            /\ \A u \in WakeChat!Turns : u # t => [stage EXCEPT ![t] = s][u] = stage[u]
    BY <1>t, WakeChatTyped
  <1>s. {"asked", "thinking", "streaming", "done"} \subseteq WakeChatStages
    BY DEF WakeChatStages
  <1>1. CASE WakeChat!Phrase
    <2>1. /\ reply' = {} /\ image' = "none" /\ phase' = "idle"
          /\ UNCHANGED <<streaming, voice, by, origin, stage, drawing, streams, cancelled, linked,
               conn, unheard>>
      BY <1>1 DEF WakeChat!Phrase, WakeChat!server, WakeChat!net
    <2>2. reply' \subseteq WakeChat!Turns /\ phase' \in {"idle", "sending", "error"}
          /\ image' \in {"none", "loading", "done", "error"}
      BY <2>1
    <2>3. WakeChat!TypeOK' BY <1>t, <2>1, <2>2, WakeChatTyped, WakeChatTypes
    <2>4. WakeChatOneIsOver'
      <3>1. 0 \in 0 .. MaxAsked BY <1>m
      <3> QED BY <2>1, <3>1 DEF WakeChatOneIsOver
    <2>5. WakeChat!SendingIsAwaited' BY <2>1 DEF WakeChat!SendingIsAwaited
    <2>6. WakeChat!ComingIsAwaited' BY <1>v, <2>1, WakeChatComingStays
    <2> QED BY <1>v, <2>1, <2>3, <2>4, <2>5, <2>6, WakeChatOrderStays DEF WakeChatPopupPage
  <1>2. CASE WakeChat!ToggleMic
    <2>1. voice' \in {"off", "free", "sending"}
          /\ UNCHANGED <<phase, reply, streaming, image, by, origin, stage, drawing, streams,
               cancelled, linked, conn, unheard>>
      BY <1>2, <1>t, WakeChatTyped
         DEF WakeChat!ToggleMic, WakeChat!page, WakeChat!server, WakeChat!net
    <2>2. WakeChat!TypeOK' BY <1>t, <2>1, WakeChatTyped, WakeChatTypes
    <2> QED BY <1>v, <2>1, <2>2, WakeChatOrderStays, WakeChatOverStays, WakeChatWaitStays,
        WakeChatComingStays
        DEF WakeChatPopupPage, WakeChat!Running
  <1>3. CASE WakeChat!CancelStream
    <2>1. /\ cancelled' = cancelled \union ({streams} \ {WakeChat!None})
          /\ UNCHANGED <<phase, reply, streaming, image, voice, by, origin, stage, drawing, streams,
               linked, conn, unheard>>
      BY <1>3 DEF WakeChat!CancelStream, WakeChat!page, WakeChat!net
    <2>2. cancelled' \subseteq WakeChat!Turns BY <1>t, <2>1, WakeChatTyped
    <2>3. WakeChat!TypeOK' BY <1>t, <2>1, <2>2, WakeChatTyped, WakeChatTypes
    <2> QED BY <1>v, <2>1, <2>3, WakeChatOrderStays, WakeChatOverStays, WakeChatWaitStays,
        WakeChatComingStays
        DEF WakeChatPopupPage, WakeChat!Running
  <1>4. CASE WakeChat!Reminder
    <2>1. /\ phase' = (IF linked THEN "idle" ELSE phase)
          /\ UNCHANGED <<reply, streaming, image, voice, by, origin, stage, drawing, streams,
               cancelled, linked, conn, unheard>>
      BY <1>4 DEF WakeChat!Reminder, WakeChat!server, WakeChat!net
    <2>2. phase' \in {"idle", "sending", "error"} /\ (phase' = "sending" => phase = "sending")
      BY <1>t, <2>1, WakeChatTyped
    <2>3. WakeChat!TypeOK' BY <1>t, <2>1, <2>2, WakeChatTyped, WakeChatTypes
    <2> QED BY <1>v, <2>1, <2>2, <2>3, WakeChatOrderStays, WakeChatOverStays,
        WakeChatWaitStays, WakeChatComingStays
        DEF WakeChatPopupPage, WakeChat!Running
  <1>5. CASE WakeChat!Break \/ WakeChat!Reconnect
    <2>1. /\ linked' \in BOOLEAN /\ conn' \in 0 .. MaxBreaks /\ (~linked' => conn' < MaxBreaks)
          /\ UNCHANGED <<phase, reply, streaming, image, voice, by, origin, stage, drawing, streams,
               cancelled, unheard>>
      <3>1. CASE WakeChat!Break
        BY <3>1, <1>t, WakeChatTyped DEF WakeChat!Break, WakeChat!page, WakeChat!server
      <3>2. CASE WakeChat!Reconnect
        <4>1. /\ ~linked /\ linked' = TRUE /\ conn' = conn + 1
              /\ UNCHANGED <<phase, reply, streaming, image, voice, by, origin, stage, drawing,
                   streams, cancelled, unheard>>
          BY <3>2 DEF WakeChat!Reconnect, WakeChat!page, WakeChat!server
        <4>2. conn \in 0 .. MaxBreaks /\ conn < MaxBreaks
          BY <1>t, <4>1, WakeChatTyped DEF WakeChatPopupPage
        <4>3. conn + 1 \in 0 .. MaxBreaks BY <1>m, <4>2
        <4> QED BY <4>1, <4>3
      <3> QED BY <1>5, <3>1, <3>2
    <2>2. WakeChat!TypeOK' BY <1>t, <2>1, WakeChatTyped, WakeChatTypes
    <2> QED BY <1>v, <2>1, <2>2, WakeChatOrderStays, WakeChatOverStays, WakeChatWaitStays,
        WakeChatComingStays
        DEF WakeChatPopupPage, WakeChat!Running
  <1>6. ASSUME NEW t \in WakeChat!Turns, WakeChat!Send(t) \/ WakeChat!Heard(t)
      PROVE WakeChatPopupPage'
    <2>1. CASE WakeChat!Send(t)
      BY <1>t, <2>1, WakeChatSendInStep, WakeChatTyped DEF WakeChat!Send
    <2>2. CASE WakeChat!Heard(t) BY <2>2, WakeChatSendInStep DEF WakeChat!Heard
    <2> QED BY <1>6, <2>1, <2>2
  <1>7. ASSUME NEW t \in WakeChat!Turns, WakeChat!MainSends(t) PROVE WakeChatPopupPage'
    <2>1. WakeChat!Asks(t, "main") /\ UNCHANGED <<phase, reply, streaming, image, voice>>
      BY <1>7 DEF WakeChat!MainSends, WakeChat!page
    <2>2. "main" \in WakeChat!Senders BY DEF WakeChat!Senders
    <2>3. /\ by' \in [WakeChat!Turns -> WakeChat!Senders \union {"nobody"}]
          /\ stage' \in [WakeChat!Turns -> WakeChatStages]
          /\ origin' \in [WakeChat!Turns -> 0..MaxBreaks]
          /\ by'[t] = "main" /\ stage'[t] = "asked"
          /\ \A u \in WakeChat!Turns : u # t => by'[u] = by[u] /\ stage'[u] = stage[u]
          /\ by[t] = "nobody" /\ WakeChatInTheirOrder'
          /\ UNCHANGED <<drawing, streams, cancelled, linked, conn, unheard>>
      BY <2>1, <2>2, WakeChatSends
    <2>4. WakeChat!TypeOK' BY <1>t, <2>1, <2>3, WakeChatTyped, WakeChatTypes
    <2>5. WakeChat!Of("popup")' = WakeChat!Of("popup") BY <2>3 DEF WakeChat!Of
    <2>6. \A u \in WakeChat!Of("popup") : u # t /\ stage'[u] = stage[u] /\ by'[u] = by[u]
      BY <2>3 DEF WakeChat!Of
    <2>7. WakeChatOneIsOver'
      <3>1. \A u \in reply : u \in WakeChat!Of("popup")
        BY <1>t, <1>v, WakeChatTyped DEF WakeChatOneIsOver, WakeChat!Of
      <3> QED BY <1>v, <2>1, <2>3, <2>6, <3>1 DEF WakeChatOneIsOver
    <2>8. WakeChat!SendingIsAwaited'
      BY <1>v, <2>1, <2>3, <2>5, <2>6 DEF WakeChat!SendingIsAwaited, WakeChat!Running
    <2>9. WakeChat!ComingIsAwaited' BY <1>v, <2>1, <2>3, <2>5, <2>6 DEF WakeChat!ComingIsAwaited
    <2> QED BY <2>3, <2>4, <2>7, <2>8, <2>9 DEF WakeChatPopupPage
  <1>8. ASSUME NEW t \in WakeChat!Turns, WakeChat!Refuse(t) PROVE WakeChatPopupPage'
    <2>1. /\ stage[t] = "asked"
          /\ stage' = [stage EXCEPT ![t] = "done"]
          /\ WakeChat!Emit(t, "error")
          /\ UNCHANGED <<voice, by, origin, drawing, streams, cancelled, linked, conn>>
      BY <1>8 DEF WakeChat!Refuse
    <2>2. /\ stage' \in [WakeChat!Turns -> WakeChatStages]
          /\ \A u \in WakeChat!Turns : u # t => stage'[u] = stage[u]
      BY <1>p, <1>s, <2>1
    <2>3. /\ phase' \in {"idle", "sending", "error"} /\ reply' \subseteq WakeChat!Turns
          /\ streaming' \in BOOLEAN /\ image' \in {"none", "loading", "done", "error"}
          /\ unheard' \in BOOLEAN /\ (unheard => unheard')
          /\ \/ by[t] = "popup" /\ WakeChat!Handle(t, "error")
             \/ UNCHANGED WakeChat!page /\ (by[t] = "popup" => unheard' \/ t \in cancelled)
      BY <1>t, <2>1, WakeChatEmitted
    <2>4. WakeChat!TypeOK' BY <1>t, <2>1, <2>2, <2>3, WakeChatTyped, WakeChatTypes
    <2>5. /\ reply' \subseteq reply /\ (phase' = "sending" => phase = "sending")
          /\ (streaming' => streaming) /\ (image' = "loading" => image = "loading")
          /\ (by[t] = "popup" => unheard' \/ t \in cancelled \/ phase' # "sending")
      BY <1>t, <2>3, WakeChatHandled DEF WakeChat!page
    <2>6. \A u \in WakeChat!Turns : stage[u] = "streaming" => stage'[u] = "streaming"
      BY <2>1, <2>2
    <2>7. WakeChatOneIsOver'
      BY <1>t, <1>v, <2>1, <2>3, <2>5, <2>6, WakeChatOverStays, WakeChatTyped
    <2>8. WakeChat!SendingIsAwaited'
      BY <1>v, <2>1, <2>2, <2>3, <2>5, WakeChatWaitStays DEF WakeChat!Running
    <2>9. WakeChat!ComingIsAwaited' BY <1>v, <2>1, <2>3, <2>5, <2>6, WakeChatComingStays
    <2> QED BY <1>v, <2>1, <2>4, <2>7, <2>8, <2>9, WakeChatOrderStays DEF WakeChatPopupPage
  <1>9. ASSUME NEW t \in WakeChat!Turns, WakeChat!Begin(t) PROVE WakeChatPopupPage'
    <2>1. /\ stage[t] = "asked" /\ stage' = [stage EXCEPT ![t] = "thinking"] /\ streams' = t
          /\ UNCHANGED <<phase, reply, streaming, image, voice, by, origin, drawing, cancelled,
               linked, conn, unheard>>
      BY <1>9 DEF WakeChat!Begin, WakeChat!page, WakeChat!net
    <2>2. stage' \in [WakeChat!Turns -> WakeChatStages] /\ stage'[t] = "thinking"
          /\ \A u \in WakeChat!Turns : u # t => stage'[u] = stage[u]
      BY <1>p, <1>s, <2>1
    <2>3. WakeChat!TypeOK' BY <1>t, <2>1, <2>2, WakeChatTyped, WakeChatTypes
    <2>4. \A u \in WakeChat!Turns : stage[u] = "streaming" => stage'[u] = "streaming"
      BY <2>1, <2>2
    <2>5. \A u \in WakeChat!Turns : WakeChat!Running(u) => stage'[u] \in {"asked", "thinking", "streaming"}
      BY <2>1, <2>2 DEF WakeChat!Running
    <2>6. WakeChatOneIsOver' BY <1>t, <1>v, <2>1, <2>4, WakeChatOverStays, WakeChatTyped
    <2> QED BY <1>v, <2>1, <2>3, <2>4, <2>5, <2>6, WakeChatOrderStays, WakeChatWaitStays,
        WakeChatComingStays
        DEF WakeChatPopupPage
  <1>10. ASSUME NEW t \in WakeChat!Turns, WakeChat!Start(t) PROVE WakeChatPopupPage'
    <2>1. /\ stage[t] = "thinking"
          /\ stage' = [stage EXCEPT ![t] = "streaming"]
          /\ WakeChat!Tell(t, "start")
          /\ UNCHANGED <<voice, by, origin, drawing, streams, cancelled, linked, conn>>
      BY <1>10 DEF WakeChat!Start
    <2>2. stage' \in [WakeChat!Turns -> WakeChatStages] /\ stage'[t] = "streaming"
          /\ \A u \in WakeChat!Turns : u # t => stage'[u] = stage[u]
      BY <1>p, <1>s, <2>1
    <2>3. /\ phase' \in {"idle", "sending", "error"} /\ reply' \subseteq WakeChat!Turns
          /\ streaming' \in BOOLEAN /\ image' \in {"none", "loading", "done", "error"}
          /\ unheard' \in BOOLEAN /\ (unheard => unheard')
          /\ \/ by[t] = "popup" /\ WakeChat!Handle(t, "start")
             \/ UNCHANGED WakeChat!page /\ (by[t] = "popup" => unheard' \/ t \in cancelled)
      BY <1>t, <2>1, WakeChatEmitted DEF WakeChat!Tell
    <2>4. WakeChat!TypeOK' BY <1>t, <2>1, <2>2, <2>3, WakeChatTyped, WakeChatTypes
    <2>5. /\ reply' \subseteq reply /\ (phase' = "sending" => phase = "sending")
          /\ (image' = "loading" => image = "loading")
          /\ (streaming' => streaming \/ by[t] = "popup")
      BY <1>t, <2>3, WakeChatHandled DEF WakeChat!page
    <2>6. \A u \in WakeChat!Turns : stage[u] = "streaming" => stage'[u] = "streaming"
      BY <2>1, <2>2
    <2>7. WakeChatOneIsOver'
      BY <1>t, <1>v, <2>1, <2>3, <2>5, <2>6, WakeChatOverStays, WakeChatTyped
    <2>8. \A u \in WakeChat!Turns : WakeChat!Running(u) => stage'[u] \in {"asked", "thinking", "streaming"}
      BY <2>1, <2>2 DEF WakeChat!Running
    <2>9. WakeChat!SendingIsAwaited' BY <1>v, <2>1, <2>3, <2>5, <2>8, WakeChatWaitStays
    <2>10. WakeChat!ComingIsAwaited'
      BY <1>v, <2>1, <2>2, <2>3, <2>5, <2>6 DEF WakeChat!ComingIsAwaited, WakeChat!Of
    <2> QED BY <1>v, <2>1, <2>4, <2>7, <2>9, <2>10, WakeChatOrderStays DEF WakeChatPopupPage
  <1>11. ASSUME NEW t \in WakeChat!Turns, WakeChat!Chunk(t) PROVE WakeChatPopupPage'
    <2>1. /\ stage[t] = "streaming" /\ WakeChat!Tell(t, "chunk")
          /\ UNCHANGED <<voice, by, origin, stage, drawing, streams, cancelled, linked, conn>>
      BY <1>11 DEF WakeChat!Chunk, WakeChat!server
    <2>2. /\ phase' \in {"idle", "sending", "error"} /\ reply' \subseteq WakeChat!Turns
          /\ streaming' \in BOOLEAN /\ image' \in {"none", "loading", "done", "error"}
          /\ unheard' \in BOOLEAN /\ (unheard => unheard')
          /\ \/ by[t] = "popup" /\ WakeChat!Handle(t, "chunk")
             \/ UNCHANGED WakeChat!page /\ (by[t] = "popup" => unheard' \/ t \in cancelled)
      BY <1>t, <2>1, WakeChatEmitted DEF WakeChat!Tell
    <2>3. WakeChat!TypeOK' BY <1>t, <2>1, <2>2, WakeChatTyped, WakeChatTypes
    <2>4. /\ (reply' \subseteq reply \/ (by[t] = "popup" /\ reply' \subseteq reply \union {t}))
          /\ (phase' = "sending" => phase = "sending")
          /\ (streaming' => streaming) /\ (image' = "loading" => image = "loading")
      BY <1>t, <2>2, WakeChatHandled DEF WakeChat!page
    <2>5. WakeChatOneIsOver' BY <1>v, <2>1, <2>2, <2>4 DEF WakeChatOneIsOver
    <2>6. WakeChat!SendingIsAwaited'
      BY <1>v, <2>1, <2>2, <2>4, WakeChatWaitStays DEF WakeChat!Running
    <2>7. WakeChat!ComingIsAwaited' BY <1>v, <2>1, <2>2, <2>4, WakeChatComingStays
    <2> QED BY <1>v, <2>1, <2>3, <2>5, <2>6, <2>7, WakeChatOrderStays DEF WakeChatPopupPage
  <1>12. ASSUME NEW t \in WakeChat!Turns, WakeChat!Answer(t) PROVE WakeChatPopupPage'
    <2>1. /\ stage[t] \in {"thinking", "streaming"}
          /\ stage' = [stage EXCEPT ![t] = "done"]
          /\ streams' = WakeChat!None
          /\ WakeChat!Emit(t, IF t \in cancelled THEN "end" ELSE "answer")
          /\ UNCHANGED <<voice, by, origin, drawing, cancelled, linked, conn>>
      BY <1>12 DEF WakeChat!Answer
    <2>2. /\ stage' \in [WakeChat!Turns -> WakeChatStages]
          /\ \A u \in WakeChat!Turns : u # t => stage'[u] = stage[u]
      BY <1>p, <1>s, <2>1
    <2>3. PICK e : e = (IF t \in cancelled THEN "end" ELSE "answer") OBVIOUS
    <2>4. /\ phase' \in {"idle", "sending", "error"} /\ reply' \subseteq WakeChat!Turns
          /\ streaming' \in BOOLEAN /\ image' \in {"none", "loading", "done", "error"}
          /\ unheard' \in BOOLEAN /\ (unheard => unheard')
          /\ \/ by[t] = "popup" /\ WakeChat!Handle(t, e)
             \/ UNCHANGED WakeChat!page /\ (by[t] = "popup" => unheard' \/ t \in cancelled)
      BY <1>t, <2>1, <2>3, WakeChatEmitted
    <2>5. WakeChat!TypeOK' BY <1>t, <2>1, <2>2, <2>4, WakeChatTyped, WakeChatTypes
    <2>6. CASE by[t] = "popup" /\ WakeChat!Handle(t, e)
      <3>1. /\ reply' \subseteq reply \/ reply' = {t}
            /\ (t \notin cancelled => reply' = {t} /\ phase' # "sending")
            /\ (phase' = "sending" => phase = "sending")
            /\ ~streaming' /\ (image' = "loading" => image = "loading")
        BY <1>t, <2>3, <2>6, WakeChatHandled
      <3>2. WakeChatOneIsOver'
        <4>1. CASE reply' = {t}
          <5>1. t \in 0 .. MaxAsked BY DEF WakeChat!Turns
          <5> QED BY <2>1, <2>6, <4>1, <5>1 DEF WakeChatOneIsOver
        <4>2. CASE reply' # {t}
          <5>1. \A u \in reply : stage[u] = "streaming" => stage'[u] = "streaming" \/ u \in cancelled'
            BY <1>t, <2>1, <2>2, <3>1, <4>2, WakeChatTyped
          <5> QED BY <1>v, <2>1, <2>4, <3>1, <4>2, <5>1, WakeChatOverStays
        <4> QED BY <4>1, <4>2
      <3>3. WakeChat!SendingIsAwaited'
        <4>1. \A u \in WakeChat!Turns : by[u] = "popup" /\ WakeChat!Running(u) =>
                 unheard' \/ u \in cancelled' \/ phase' # "sending"
                 \/ stage'[u] \in {"asked", "thinking", "streaming"}
          BY <2>1, <2>2, <3>1 DEF WakeChat!Running
        <4> QED BY <1>v, <2>1, <2>4, <3>1, <4>1, WakeChatWaitStays
      <3>4. WakeChat!ComingIsAwaited' BY <1>v, <2>1, <2>4, <3>1, WakeChatComingStays
      <3> QED BY <1>v, <2>1, <2>5, <3>2, <3>3, <3>4, WakeChatOrderStays DEF WakeChatPopupPage
    <2>7. CASE /\ UNCHANGED WakeChat!page
               /\ (by[t] = "popup" => unheard' \/ t \in cancelled)
               /\ (by[t] = "popup" => unheard')
      <3>1. UNCHANGED <<phase, reply, streaming, image>> BY <2>7 DEF WakeChat!page
      <3>2. \A u \in WakeChat!Turns : by[u] = "popup" /\ u = t => unheard' BY <2>7
      <3>3. \A u \in reply : u \in WakeChat!Turns /\ by[u] = "popup"
        BY <1>t, <1>v, WakeChatTyped DEF WakeChatOneIsOver
      <3>4. WakeChatOneIsOver'
        <4>1. CASE unheard' BY <1>v, <2>1, <3>1, <4>1 DEF WakeChatOneIsOver
        <4>2. CASE ~unheard'
          <5>1. \A u \in reply : stage[u] = "streaming" => stage'[u] = "streaming"
            BY <2>2, <3>2, <3>3, <4>2
          <5> QED BY <1>v, <2>1, <2>4, <3>1, <5>1, WakeChatOverStays
        <4> QED BY <4>1, <4>2
      <3>5. WakeChat!SendingIsAwaited'
        <4>1. \A u \in WakeChat!Turns : by[u] = "popup" /\ WakeChat!Running(u) =>
                 unheard' \/ stage'[u] \in {"asked", "thinking", "streaming"}
          BY <2>1, <2>2, <3>2 DEF WakeChat!Running
        <4> QED BY <1>v, <2>1, <2>4, <3>1, <4>1, WakeChatWaitStays
      <3>6. WakeChat!ComingIsAwaited'
        <4>1. \A u \in WakeChat!Turns : by[u] = "popup" /\ stage[u] = "streaming"
                => unheard' \/ stage'[u] = "streaming"
          BY <2>2, <3>2
        <4> QED BY <1>v, <2>1, <2>4, <3>1, <4>1, WakeChatComingStays
      <3> QED BY <1>v, <2>1, <2>5, <3>4, <3>5, <3>6, WakeChatOrderStays DEF WakeChatPopupPage
    <2>8. (by[t] = "popup" /\ WakeChat!Handle(t, e))
            \/ (UNCHANGED WakeChat!page /\ (by[t] = "popup" => unheard'))
      BY <2>1, <2>3 DEF WakeChat!Emit
    <2> QED BY <2>6, <2>7, <2>8
  <1>13. ASSUME NEW t \in WakeChat!Turns, WakeChat!Draw(t) PROVE WakeChatPopupPage'
    <2>1. /\ drawing' = drawing \union {t} /\ WakeChat!Route(t, "loading")
          /\ UNCHANGED <<voice, by, origin, stage, streams, cancelled, linked, conn>>
      BY <1>13 DEF WakeChat!Draw
    <2>2. (WakeChat!Handle(t, "loading") /\ UNCHANGED unheard) \/ (UNCHANGED WakeChat!page /\ unheard' = TRUE)
      BY <2>1 DEF WakeChat!Route
    <2>3. /\ phase' \in {"idle", "sending", "error"} /\ reply' \subseteq WakeChat!Turns
          /\ streaming' \in BOOLEAN /\ image' \in {"none", "loading", "done", "error"}
          /\ unheard' \in BOOLEAN /\ (unheard => unheard')
          /\ reply' \subseteq reply
          /\ (phase' = "sending" => phase = "sending")
          /\ (streaming' => streaming)
      <3>1. CASE WakeChat!Handle(t, "loading") /\ UNCHANGED unheard
        <4>1. unheard' \in BOOLEAN /\ (unheard => unheard') BY <1>t, <3>1, WakeChatTyped
        <4> QED BY <1>t, <3>1, <4>1, WakeChatHandled
      <3>2. CASE UNCHANGED WakeChat!page /\ unheard' = TRUE
        <4>1. unheard' \in BOOLEAN BY <3>2
        <4> QED BY <1>t, <3>2, <4>1, WakeChatTyped DEF WakeChat!page
      <3> QED BY <2>2, <3>1, <3>2
    <2>4. drawing' \subseteq WakeChat!Turns BY <1>t, <2>1, WakeChatTyped
    <2>5. WakeChat!TypeOK' BY <1>t, <2>1, <2>3, <2>4, WakeChatTyped, WakeChatTypes
    <2>6. WakeChatOneIsOver' BY <1>v, <2>1, <2>3, WakeChatOverStays
    <2>7. WakeChat!SendingIsAwaited' BY <1>v, <2>1, <2>3, WakeChatWaitStays DEF WakeChat!Running
    <2>8. WakeChat!ComingIsAwaited'
      BY <1>v, <2>1, <2>3 DEF WakeChat!ComingIsAwaited, WakeChat!Of
    <2> QED BY <1>v, <2>1, <2>5, <2>6, <2>7, <2>8, WakeChatOrderStays DEF WakeChatPopupPage
  <1>14. ASSUME NEW t \in WakeChat!Turns, WakeChat!Drawn(t) PROVE WakeChatPopupPage'
    <2>1. /\ drawing' = drawing \ {t}
          /\ UNCHANGED <<voice, by, origin, stage, streams, cancelled, linked, conn>>
      BY <1>14 DEF WakeChat!Drawn
    <2>2. PICK e \in {"done", "failed"} : WakeChat!Route(t, e) BY <1>14 DEF WakeChat!Drawn
    <2>3. (WakeChat!Handle(t, e) /\ UNCHANGED unheard) \/ (UNCHANGED WakeChat!page /\ unheard' = TRUE)
      BY <2>2 DEF WakeChat!Route
    <2>4. /\ phase' \in {"idle", "sending", "error"} /\ reply' \subseteq WakeChat!Turns
          /\ streaming' \in BOOLEAN /\ image' \in {"none", "loading", "done", "error"}
          /\ unheard' \in BOOLEAN /\ (unheard => unheard')
          /\ reply' \subseteq reply
          /\ (phase' = "sending" => phase = "sending")
          /\ (streaming' => streaming)
          /\ (image' = "loading" => unheard' /\ image = "loading")
      <3>1. CASE WakeChat!Handle(t, e) /\ UNCHANGED unheard
        <4>1. unheard' \in BOOLEAN /\ (unheard => unheard') BY <1>t, <3>1, WakeChatTyped
        <4> QED BY <1>t, <2>2, <3>1, <4>1, WakeChatHandled
      <3>2. CASE UNCHANGED WakeChat!page /\ unheard' = TRUE
        <4>1. unheard' \in BOOLEAN BY <3>2
        <4> QED BY <1>t, <3>2, <4>1, WakeChatTyped DEF WakeChat!page
      <3> QED BY <2>3, <3>1, <3>2
    <2>5. drawing' \subseteq WakeChat!Turns BY <1>t, <2>1, WakeChatTyped
    <2>6. WakeChat!TypeOK' BY <1>t, <2>1, <2>4, <2>5, WakeChatTyped, WakeChatTypes
    <2>7. WakeChatOneIsOver' BY <1>v, <2>1, <2>4, WakeChatOverStays
    <2>8. WakeChat!SendingIsAwaited' BY <1>v, <2>1, <2>4, WakeChatWaitStays DEF WakeChat!Running
    <2>9. WakeChat!ComingIsAwaited' BY <1>v, <2>1, <2>4, WakeChatComingStays
    <2> QED BY <1>v, <2>1, <2>6, <2>7, <2>8, <2>9, WakeChatOrderStays DEF WakeChatPopupPage
  <1> QED BY <1>1, <1>2, <1>3, <1>4, <1>5, <1>6, <1>7, <1>8, <1>9, <1>10, <1>11, <1>12, <1>13,
      <1>14
          DEF WakeChat!Next

LEMMA WakeChatStarts ==
    ASSUME WakeChat!WakeChatAssumption, WakeChat!Init
    PROVE  WakeChatPopupPage
  <1>m. MaxAsked \in Nat /\ MaxBreaks \in Nat BY DEF WakeChat!WakeChatAssumption
  <1>1. /\ by \in [WakeChat!Turns -> WakeChat!Senders \union {"nobody"}]
        /\ stage \in [WakeChat!Turns -> WakeChatStages]
        /\ \A t \in WakeChat!Turns : by[t] = "nobody"
    BY DEF WakeChat!Init, WakeChatStages
  <1>2. origin \in [WakeChat!Turns -> 0..MaxBreaks] BY <1>m DEF WakeChat!Init
  <1>3. conn \in 0..MaxBreaks BY <1>m DEF WakeChat!Init
  <1>4. WakeChat!TypeOK BY <1>1, <1>2, <1>3 DEF WakeChat!Init, WakeChat!TypeOK, WakeChatStages
  <1>5. WakeChatOneIsOver
    <2>1. 0 \in 0 .. MaxAsked BY <1>m
    <2> QED BY <2>1 DEF WakeChat!Init, WakeChatOneIsOver
  <1>6. WakeChat!SendingIsAwaited /\ WakeChat!ComingIsAwaited
    BY DEF WakeChat!Init, WakeChat!SendingIsAwaited, WakeChat!ComingIsAwaited
  <1>7. linked BY DEF WakeChat!Init
  <1> QED BY <1>1, <1>4, <1>5, <1>6, <1>7 DEF WakeChatPopupPage, WakeChatInTheirOrder

LEMMA WakeChatStays ==
    ASSUME WakeChatPopupPage, UNCHANGED WakeChat!vars
    PROVE  WakeChatPopupPage'
  <1>1. UNCHANGED <<phase, reply, streaming, image, voice, by, origin, stage, drawing, streams,
          cancelled, linked, conn, unheard>>
    BY DEF WakeChat!vars, WakeChat!page, WakeChat!server, WakeChat!net
  <1>2. WakeChat!TypeOK' BY <1>1, WakeChatTyped, WakeChatTypes DEF WakeChatPopupPage
  <1> QED BY <1>1, <1>2, WakeChatOrderStays, WakeChatOverStays, WakeChatWaitStays,
      WakeChatComingStays
      DEF WakeChatPopupPage, WakeChat!Running

(* Cardinality is that of the library.                                      *)
LEMMA WakeChatAlike == \A s : WakeChat!Cardinality(s) = Cardinality(s)
  BY DEF WakeChat!Cardinality, Cardinality

LEMMA WakeChatPopupSays ==
    ASSUME WakeChat!WakeChatAssumption, WakeChatPopupPage
    PROVE  WakeChat!SaysWhatIs
  <1>1. WakeChat!OneAnswerInTheEnd
    <2> SUFFICES ASSUME ~unheard, \A t \in WakeChat!Of("popup") : stage[t] = "done" /\ t \notin cancelled
                 PROVE  Cardinality(reply) <= 1
      BY WakeChatAlike DEF WakeChat!OneAnswerInTheEnd
    <2>1. PICK x \in 0 .. MaxAsked : \A t \in reply : t = x \/ stage[t] = "streaming" \/ t \in cancelled
      BY DEF WakeChatPopupPage, WakeChatOneIsOver
    <2>2. \A t \in reply : t \in WakeChat!Of("popup")
      BY WakeChatTyped DEF WakeChatPopupPage, WakeChatOneIsOver, WakeChat!Of
    <2>3. reply \subseteq {x} BY <2>1, <2>2
    <2>4. IsFiniteSet({x}) /\ Cardinality({x}) = 1 BY FS_Singleton
    <2>5. Cardinality(reply) <= Cardinality({x}) BY <2>3, <2>4, FS_Subset
    <2> QED BY <2>4, <2>5
  <1> QED BY <1>1 DEF WakeChatPopupPage, WakeChat!SaysWhatIs

LEMMA WakeChatInvariance ==
    ASSUME WakeChat!WakeChatAssumption
    PROVE  WakeChat!Spec => []WakeChatPopupPage
  <1>1. WakeChat!Init => WakeChatPopupPage BY WakeChatStarts
  <1>2. WakeChatPopupPage /\ [WakeChat!Next]_(WakeChat!vars) => WakeChatPopupPage'
    BY WakeChatStep, WakeChatStays
  <1> QED BY <1>1, <1>2, PTL DEF WakeChat!Spec

(***************************************************************************)
(* Terminal.tla                                                            *)
(***************************************************************************)

(* Of the numbers in a set, one is the first, one the second and so on.      *)
TerminalUpTo(K, i) == {k \in K : k =< i}

LEMMA TerminalRanks ==
    ASSUME NEW n \in Nat, NEW K \in SUBSET (1 .. n), NEW j \in 1 .. Cardinality(K)
    PROVE  \E i \in K : Cardinality(TerminalUpTo(K, i)) = j
  <1>0. \A k \in K : k \in Int /\ 1 =< k /\ k =< n OBVIOUS
  <1>1. IsFiniteSet(1 .. n) BY FS_Interval
  <1>2. IsFiniteSet(K) BY <1>1, FS_Subset
  <1>3. ASSUME NEW i \in 0 .. n
      PROVE IsFiniteSet(TerminalUpTo(K, i)) /\ Cardinality(TerminalUpTo(K, i)) \in Nat
    <2>1. TerminalUpTo(K, i) \subseteq K BY DEF TerminalUpTo
    <2>2. IsFiniteSet(TerminalUpTo(K, i)) BY <1>2, <2>1, FS_Subset
    <2> QED BY <2>2, FS_CardinalityType
  <1>4. TerminalUpTo(K, n) = K BY <1>0 DEF TerminalUpTo
  <1>5. TerminalUpTo(K, 0) = {}
    <2>1. \A k \in K : ~(k =< 0) BY <1>0
    <2> QED BY <2>1, Zenon DEF TerminalUpTo
  <1>a. j \in Nat /\ 1 =< j /\ j =< Cardinality(K)
    <2>1. Cardinality(K) \in Nat BY <1>2, FS_CardinalityType
    <2> QED BY <2>1
  <1>6. PICK S : S = {i \in 0 .. n : j =< Cardinality(TerminalUpTo(K, i))} OBVIOUS
  <1>7. n \in S BY <1>4, <1>6, <1>a
  <1>8. PICK m \in S : \A i \in S : m =< i
    <2>1. S \in SUBSET Nat /\ S # {} BY <1>6, <1>7
    <2> QED BY <2>1, LeastNumber
  <1>b. m \in 0 .. n /\ j =< Cardinality(TerminalUpTo(K, m)) BY <1>6
  <1>9. m # 0
    <2>1. Cardinality(TerminalUpTo(K, 0)) = 0 BY <1>5, FS_EmptySet
    <2> QED BY <1>a, <1>b, <2>1
  <1>c. PICK l : l = m - 1 OBVIOUS
  <1>10. m \in 1 .. n /\ l \in 0 .. n /\ l < m BY <1>9, <1>b, <1>c
  <1>d. l \notin S BY <1>8, <1>10
  <1>e. PICK a \in Nat : a = Cardinality(TerminalUpTo(K, l)) BY <1>3, <1>10
  <1>f. PICK b \in Nat : b = Cardinality(TerminalUpTo(K, m)) BY <1>3, <1>10
  <1>11. a < j /\ j =< b
    <2>1. ~(j =< Cardinality(TerminalUpTo(K, l))) BY <1>6, <1>10, <1>d
    <2> QED BY <1>a, <1>b, <1>e, <1>f, <2>1
  <1>12. m \in K
    <2> SUFFICES ASSUME m \notin K PROVE FALSE OBVIOUS
    <2>1. \A k \in K : k =< m <=> k =< l BY <1>0, <1>10, <1>c
    <2>2. TerminalUpTo(K, m) = TerminalUpTo(K, l) BY <2>1, Zenon DEF TerminalUpTo
    <2> QED BY <1>11, <1>e, <1>f, <2>2
  <1>13. b = a + 1
    <2>0. \A k \in K : k =< m <=> k =< l \/ k = m BY <1>0, <1>10, <1>c
    <2>1. TerminalUpTo(K, m) = TerminalUpTo(K, l) \cup {m}
      BY <1>12, <2>0, Zenon DEF TerminalUpTo
    <2>2. m \notin TerminalUpTo(K, l) BY <1>10 DEF TerminalUpTo
    <2>3. IsFiniteSet(TerminalUpTo(K, l)) BY <1>3, <1>10
    <2>4. PICK T : T = TerminalUpTo(K, l) OBVIOUS
    <2>5. Cardinality(T \cup {m}) = Cardinality(T) + 1 BY <2>2, <2>3, <2>4, FS_AddElement
    <2> QED BY <1>e, <1>f, <2>1, <2>4, <2>5
  <1>14. b = j BY <1>11, <1>13, <1>a
  <1> QED BY <1>12, <1>14, <1>f

(* Cardinality is that of the library.                                       *)
LEMMA TerminalAlike == \A s : Terminal!Cardinality(s) = Cardinality(s)
  BY DEF Terminal!Cardinality, Cardinality

LEMMA TerminalRankIs == \A K, i : Terminal!Rank(K, i) = Cardinality(TerminalUpTo(K, i))
  BY TerminalAlike DEF Terminal!Rank, TerminalUpTo

(* What is left of the entries are entries.                                  *)
LEMMA TerminalOthersAre ==
    ASSUME NEW es \in Seq(Terminal!Entries), NEW t
    PROVE  /\ Terminal!Others(es, t) \in Seq(Terminal!Entries)
           /\ \A j \in DOMAIN Terminal!Others(es, t) : \E i \in DOMAIN es : Terminal!Others(es, t)[j] = es[i]
  <1>1. PICK K : K = {i \in DOMAIN es : es[i].terminal # t} OBVIOUS
  <1>2. Len(es) \in Nat /\ DOMAIN es = 1 .. Len(es) BY LenProperties
  <1>3. K \in SUBSET (1 .. Len(es)) BY <1>1, <1>2
  <1>4. IsFiniteSet(K)
    <2>1. IsFiniteSet(1 .. Len(es)) BY <1>2, FS_Interval
    <2> QED BY <1>3, <2>1, FS_Subset
  <1>5. PICK n \in Nat : n = Cardinality(K) BY <1>4, FS_CardinalityType
  <1>6. Terminal!Others(es, t) = [j \in 1 .. n |-> es[CHOOSE i \in K : Terminal!Rank(K, i) = j]]
    BY <1>1, <1>5, TerminalAlike DEF Terminal!Others
  <1>7. ASSUME NEW j \in 1 .. n PROVE \E i \in DOMAIN es : Terminal!Others(es, t)[j] = es[i]
    <2>1. PICK x : x = CHOOSE i \in K : Terminal!Rank(K, i) = j OBVIOUS
    <2>2. x \in K
      <3>1. \E i \in K : Cardinality(TerminalUpTo(K, i)) = j BY <1>2, <1>3, <1>5, TerminalRanks
      <3>2. \E i \in K : Terminal!Rank(K, i) = j BY <3>1, TerminalRankIs
      <3> QED BY <2>1, <3>2, Zenon
    <2>3. Terminal!Others(es, t)[j] = es[x] BY <1>6, <2>1, Zenon
    <2> QED BY <1>1, <2>2, <2>3
  <1>8. DOMAIN Terminal!Others(es, t) = 1 .. n BY <1>6
  <1>9. \A i \in DOMAIN es : es[i] \in Terminal!Entries BY <1>2, ElementOfSeq
  <1>10. Terminal!Others(es, t) \in [1 .. n -> Terminal!Entries] BY <1>6, <1>7, <1>8, <1>9
  <1>11. Terminal!Others(es, t) \in Seq(Terminal!Entries) BY <1>5, <1>10, SeqDef
  <1> QED BY <1>7, <1>8, <1>11

(* A command of the user has begun, and is shown in one terminal only.       *)
TerminalOwn(r, t) ==
    /\ process[r] # "none"
    /\ \A i \in DOMAIN entries : entries[i].run = r => entries[i].terminal = t

TerminalStages == {"none", "asked", "running", "killed", "over"}
TerminalMarks == {"asked", "running", "killed", "over"}

TerminalPanel ==
    /\ open \subseteq Terminal!Terminals /\ Agent \in open /\ closed \subseteq Tabs
    /\ busy \in [Terminal!Terminals -> BOOLEAN] /\ mounts \in 1..MaxMounts

TerminalShown ==
    /\ runId \in [Terminal!Terminals -> Terminal!Runs \union {NoRun}]
    /\ \A t \in Terminal!Terminals : runId[t] # NoRun => runId[t] \in Manual /\ TerminalOwn(runId[t], t)

TerminalWaiting == calls \subseteq Terminal!RunCalls /\ \A c \in calls : TerminalOwn(c.run, c.terminal)

TerminalBegun ==
    /\ process \in [Terminal!Runs -> TerminalStages] /\ entries \in Seq(Terminal!Entries)
    /\ \A i \in DOMAIN entries : entries[i].run \in Manual => process[entries[i].run] # "none"

TerminalUnderWay ==
    /\ asked \subseteq [what : {"run", "cancel"}, about : Terminal!RunCalls]
    /\ inbox \in Seq(Terminal!Mail)

TerminalInv == TerminalPanel /\ TerminalShown /\ TerminalWaiting /\ TerminalBegun /\ TerminalUnderWay

LEMMA TerminalTypes == ASSUME TerminalInv PROVE Terminal!TypeOK
  BY
     DEF TerminalInv, TerminalPanel, TerminalShown, TerminalWaiting, TerminalBegun,
         TerminalUnderWay, TerminalStages, Terminal!TypeOK

LEMMA TerminalShows == ASSUME TerminalInv PROVE Terminal!CancelsItsOwn
  BY DEF TerminalInv, TerminalPanel, TerminalShown, TerminalOwn, Terminal!CancelsItsOwn

LEMMA TerminalStarts == ASSUME Terminal!TerminalAssumption, Terminal!Init PROVE TerminalInv
  <1>1. TerminalPanel
    <2>1. mounts \in 1..MaxMounts BY DEF Terminal!Init, Terminal!TerminalAssumption
    <2> QED BY <2>1 DEF Terminal!Init, TerminalPanel, Terminal!Idle, Terminal!Terminals
  <1>2. TerminalShown BY DEF Terminal!Init, TerminalShown, Terminal!NoIds
  <1>3. TerminalBegun BY DEF Terminal!Init, TerminalBegun, TerminalStages
  <1> QED BY <1>1, <1>2, <1>3 DEF Terminal!Init, TerminalInv, TerminalWaiting, TerminalUnderWay

(* An entry is in the terminal where its command was shown.                  *)
TerminalInPlace(e) == \E i \in DOMAIN entries : e.run = entries[i].run /\ e.terminal = entries[i].terminal

(* What is shown of a command stays in its terminal, whatever else is shown. *)
LEMMA TerminalOwnStays ==
    ASSUME NEW r, NEW t, TerminalOwn(r, t), process'[r] # "none",
           \A j \in DOMAIN entries' :
              TerminalInPlace(entries'[j]) \/ entries'[j].run # r
    PROVE  TerminalOwn(r, t)'
  BY DEF TerminalOwn, TerminalInPlace

(* The history after a step that shows no new command of the user.           *)
TerminalSameCommands ==
    /\ entries' \in Seq(Terminal!Entries)
    /\ \A j \in DOMAIN entries' :
          TerminalInPlace(entries'[j]) \/ entries'[j].run \in ByAgent

TerminalGoesOn == process' \in [Terminal!Runs -> TerminalStages]
                    /\ \A r \in Terminal!Runs : process[r] # "none" => process'[r] # "none"

LEMMA TerminalHistoryStays ==
    ASSUME Terminal!TerminalAssumption, TerminalInv, TerminalSameCommands, TerminalGoesOn
    PROVE  /\ TerminalBegun'
           /\ \A r \in Manual : \A t : TerminalOwn(r, t) => TerminalOwn(r, t)'
  <1>1. \A r \in Manual : r \in Terminal!Runs /\ r \notin ByAgent
    BY DEF Terminal!TerminalAssumption, Terminal!Runs
  <1>2. ASSUME NEW r \in Manual, NEW t, TerminalOwn(r, t) PROVE TerminalOwn(r, t)'
    BY <1>1, <1>2, TerminalOwnStays
       DEF TerminalSameCommands, TerminalGoesOn, TerminalOwn, TerminalInPlace
  <1>3. \A i \in DOMAIN entries : entries[i].run \in Manual => process[entries[i].run] # "none"
    BY DEF TerminalInv, TerminalBegun
  <1>4. \A j \in DOMAIN entries' : entries'[j].run \in Manual => process'[entries'[j].run] # "none"
    BY <1>1, <1>3 DEF TerminalSameCommands, TerminalGoesOn, TerminalInPlace
  <1> QED BY <1>2, <1>4 DEF TerminalBegun, TerminalSameCommands, TerminalGoesOn

LEMMA TerminalSameHistory ==
    ASSUME TerminalInv, UNCHANGED entries PROVE TerminalSameCommands
  BY DEF TerminalInv, TerminalBegun, TerminalSameCommands, TerminalInPlace

(* The entries of a command change, and stay in their terminals.             *)
TerminalRelabelled(es, fs) ==
    /\ fs \in Seq(Terminal!Entries) /\ DOMAIN fs = DOMAIN es
    /\ \A i \in DOMAIN es : fs[i].run = es[i].run /\ fs[i].terminal = es[i].terminal

TerminalChanged(e, f) ==
    \/ f = e \/ f = [e EXCEPT !.running = FALSE]
    \/ \E o \in Terminal!Runs \union {NoRun} : f = [e EXCEPT !.output = o]

LEMMA TerminalEntriesChange ==
    ASSUME NEW es \in Seq(Terminal!Entries), NEW fs, fs = [i \in DOMAIN es |-> fs[i]],
           \A i \in DOMAIN es : TerminalChanged(es[i], fs[i])
    PROVE  TerminalRelabelled(es, fs)
  <1>1. PICK n \in Nat : n = Len(es) BY LenProperties
  <1>2. DOMAIN es = 1..n /\ \A i \in 1..n : es[i] \in Terminal!Entries
    BY <1>1, ElementOfSeq, LenProperties
  <1>3. ASSUME NEW i \in 1..n
        PROVE  /\ fs[i] \in Terminal!Entries
               /\ fs[i].run = es[i].run
               /\ fs[i].terminal = es[i].terminal
    <2>1. PICK e \in Terminal!Entries : e = es[i] BY <1>2
    <2>2. PICK f : f = fs[i] OBVIOUS
    <2>3. TerminalChanged(e, f) BY <1>2, <2>1, <2>2
    <2>4. f \in Terminal!Entries /\ f.run = e.run /\ f.terminal = e.terminal
      BY <2>3 DEF TerminalChanged, Terminal!Entries
    <2> QED BY <2>1, <2>2, <2>4
  <1>4. fs \in [1..n -> Terminal!Entries] BY <1>2, <1>3
  <1>5. fs \in Seq(Terminal!Entries) /\ DOMAIN fs = 1..n BY <1>4, SeqDef
  <1> QED BY <1>2, <1>3, <1>5 DEF TerminalRelabelled

LEMMA TerminalOutputs ==
    ASSUME NEW es \in Seq(Terminal!Entries), NEW cmd, NEW out \in Terminal!Runs \union {NoRun}
    PROVE  TerminalRelabelled(es, Terminal!WithOutput(es, cmd, out))
  <1>1. PICK fs : fs = Terminal!WithOutput(es, cmd, out) OBVIOUS
  <1>2. \A i \in DOMAIN es : TerminalChanged(es[i], fs[i])
    BY <1>1, Zenon DEF Terminal!WithOutput, TerminalChanged
  <1>3. fs = [i \in DOMAIN es |-> fs[i]] BY <1>1 DEF Terminal!WithOutput
  <1>4. TerminalRelabelled(es, fs) BY <1>2, <1>3, TerminalEntriesChange
  <1> QED BY <1>1, <1>4

LEMMA TerminalCompletes ==
    ASSUME NEW es \in Seq(Terminal!Entries), NEW cmd
    PROVE  TerminalRelabelled(es, Terminal!Completed(es, cmd))
  <1>1. PICK fs : fs = Terminal!Completed(es, cmd) OBVIOUS
  <1>2. \A i \in DOMAIN es : TerminalChanged(es[i], fs[i])
    BY <1>1, Zenon DEF Terminal!Completed, TerminalChanged
  <1>3. fs = [i \in DOMAIN es |-> fs[i]] BY <1>1 DEF Terminal!Completed
  <1>4. TerminalRelabelled(es, fs) BY <1>2, <1>3, TerminalEntriesChange
  <1> QED BY <1>1, <1>4

(* One entry more.                                                           *)
LEMMA TerminalEntryAdded ==
    ASSUME NEW r \in Terminal!Runs, NEW t \in Terminal!Terminals,
           entries \in Seq(Terminal!Entries),
           entries' = Append(entries, Terminal!Entry(r, t))
    PROVE  /\ entries' \in Seq(Terminal!Entries)
           /\ \A j \in DOMAIN entries' : \/ j \in DOMAIN entries /\ entries'[j] = entries[j]
                                         \/ entries'[j].run = r /\ entries'[j].terminal = t
  <1>1. PICK n \in Nat : n = Len(entries) BY LenProperties
  <1>2. /\ Terminal!Entry(r, t) \in Terminal!Entries
        /\ Terminal!Entry(r, t).run = r
        /\ Terminal!Entry(r, t).terminal = t
    BY DEF Terminal!Entry, Terminal!Entries
  <1>3. /\ entries' \in Seq(Terminal!Entries) /\ Len(entries') = n + 1
        /\ \A i \in 1..n : entries'[i] = entries[i]
        /\ entries'[n + 1] = Terminal!Entry(r, t)
    BY <1>1, <1>2, AppendProperties
  <1>4. DOMAIN entries' = 1..(n + 1) /\ DOMAIN entries = 1..n BY <1>1, <1>3, LenProperties
  <1>5. \A j \in 1..(n + 1) : j \in 1..n \/ j = n + 1 OBVIOUS
  <1> QED BY <1>2, <1>3, <1>4, <1>5

(* Nothing new is asked for: what is offered for cancelling was offered      *)
(* before, or is what a call waits for in that terminal.                     *)
TerminalOffersKnown ==
    /\ runId' \in [Terminal!Terminals -> Terminal!Runs \union {NoRun}]
    /\ \A t \in Terminal!Terminals : runId'[t] # NoRun =>
          \/ runId'[t] = runId[t]
          \/ \E c \in calls : c.run = runId'[t] /\ c.terminal = t

LEMMA TerminalOffersStay ==
    ASSUME Terminal!TerminalAssumption, TerminalInv, TerminalSameCommands, TerminalGoesOn,
           TerminalOffersKnown, calls' \subseteq calls
    PROVE  TerminalShown' /\ TerminalWaiting' /\ TerminalBegun'
  <1>1. TerminalBegun' BY TerminalHistoryStays
  <1>2. \A r \in Manual : \A t : TerminalOwn(r, t) => TerminalOwn(r, t)' BY TerminalHistoryStays
  <1>3. \A c \in calls : c.run \in Manual /\ TerminalOwn(c.run, c.terminal)
    BY DEF TerminalInv, TerminalWaiting, Terminal!RunCalls
  <1>4. TerminalWaiting'
    <2>1. calls' \subseteq Terminal!RunCalls BY DEF TerminalInv, TerminalWaiting
    <2>2. \A c \in calls' : TerminalOwn(c.run, c.terminal)' BY <1>2, <1>3
    <2> QED BY <2>1, <2>2 DEF TerminalWaiting
  <1>5. ASSUME NEW t \in Terminal!Terminals, NEW q, q = runId'[t], q # NoRun
        PROVE  q \in Manual /\ TerminalOwn(q, t)'
    <2>1. CASE q = runId[t]
      <3>1. q \in Manual /\ TerminalOwn(q, t) BY <1>5, <2>1 DEF TerminalInv, TerminalShown
      <3> QED BY <1>2, <3>1
    <2>2. CASE \E c \in calls : c.run = q /\ c.terminal = t
      <3>1. PICK c \in calls : c.run = q /\ c.terminal = t BY <2>2
      <3>2. q \in Manual /\ TerminalOwn(q, t) BY <1>3, <3>1
      <3> QED BY <1>2, <3>2
    <2> QED BY <1>5, <2>1, <2>2 DEF TerminalOffersKnown
  <1>6. TerminalShown' BY <1>5 DEF TerminalShown, TerminalOffersKnown, TerminalOwn
  <1> QED BY <1>1, <1>4, <1>6

TerminalHarmless ==
    /\ TerminalSameCommands /\ TerminalOffersKnown
    /\ calls' \subseteq calls /\ busy' \in [Terminal!Terminals -> BOOLEAN]

LEMMA TerminalSameOffers ==
    ASSUME TerminalInv, UNCHANGED runId PROVE TerminalOffersKnown
  BY DEF TerminalInv, TerminalShown, TerminalOffersKnown

LEMMA TerminalSameProcess ==
    ASSUME TerminalInv, UNCHANGED process PROVE TerminalGoesOn
  BY DEF TerminalInv, TerminalBegun, TerminalGoesOn

(* A call that ends leaves of its command what is shown.                     *)
LEMMA TerminalSettleStays ==
    ASSUME TerminalInv, NEW c \in calls, NEW b \in BOOLEAN, Terminal!Settle(c, b)
    PROVE  TerminalHarmless
  <1>0. c \in Terminal!RunCalls /\ entries \in Seq(Terminal!Entries)
    BY DEF TerminalInv, TerminalWaiting, TerminalBegun
  <1>1. c.run \in Terminal!Runs /\ c.terminal \in Terminal!Terminals
    BY <1>0 DEF Terminal!RunCalls, Terminal!Runs
  <1>2. PICK es : es = IF b THEN Terminal!WithOutput(entries, c.run, c.run) ELSE entries OBVIOUS
  <1>3. TerminalRelabelled(entries, es)
    <2>1. CASE b
      <3>1. es = Terminal!WithOutput(entries, c.run, c.run) BY <1>2, <2>1
      <3> QED BY <1>0, <1>1, <3>1, TerminalOutputs
    <2>2. CASE ~b BY <1>0, <1>2, <2>2 DEF TerminalRelabelled
    <2> QED BY <2>1, <2>2
  <1>4. entries' = Terminal!Completed(es, c.run) BY <1>2 DEF Terminal!Settle
  <1>5. TerminalRelabelled(es, entries') BY <1>3, <1>4, TerminalCompletes DEF TerminalRelabelled
  <1>6. TerminalSameCommands
    BY <1>3, <1>5 DEF TerminalSameCommands, TerminalInPlace, TerminalRelabelled
  <1>7. TerminalOffersKnown
    <2>1. runId \in [Terminal!Terminals -> Terminal!Runs \union {NoRun}]
      BY DEF TerminalInv, TerminalShown
    <2>2. runId' = runId \/ runId' = [runId EXCEPT ![c.terminal] = NoRun] BY DEF Terminal!Settle
    <2> QED BY <1>1, <2>1, <2>2 DEF TerminalOffersKnown
  <1>8. busy' \in [Terminal!Terminals -> BOOLEAN]
    <2>1. busy \in [Terminal!Terminals -> BOOLEAN] BY DEF TerminalInv, TerminalPanel
    <2>2. busy' = busy \/ busy' = [busy EXCEPT ![c.terminal] = FALSE] BY DEF Terminal!Settle
    <2> QED BY <2>1, <2>2
  <1> QED BY <1>6, <1>7, <1>8 DEF Terminal!Settle, TerminalHarmless

LEMMA TerminalEndedStays ==
    ASSUME TerminalInv, NEW r, NEW b \in BOOLEAN, Terminal!Ended(r, b)
    PROVE  TerminalHarmless
  <1>1. CASE \E c \in calls : c.run = r /\ Terminal!Settle(c, b) BY <1>1, TerminalSettleStays
  <1>2. CASE UNCHANGED <<entries, busy, runId, calls>>
    <2>1. busy' \in [Terminal!Terminals -> BOOLEAN] BY <1>2 DEF TerminalInv, TerminalPanel
    <2> QED BY <1>2, <2>1, TerminalSameHistory, TerminalSameOffers DEF TerminalHarmless
  <1> QED BY <1>1, <1>2 DEF Terminal!Ended

LEMMA TerminalStartedStays ==
    ASSUME TerminalInv, NEW r, Terminal!RunStarted(r)
    PROVE  TerminalHarmless
  <1>1. \A c \in calls : c.run \in Terminal!Runs
    BY DEF TerminalInv, TerminalWaiting, Terminal!RunCalls, Terminal!Runs
  <1>2. runId \in [Terminal!Terminals -> Terminal!Runs \union {NoRun}]
    BY DEF TerminalInv, TerminalShown
  <1>3. runId' = [t \in Terminal!Terminals |->
                    IF \E c \in calls : Terminal!Listens(c, r) /\ c.terminal = t /\ c.mount = mounts
                    THEN r ELSE runId[t]]
    BY DEF Terminal!RunStarted
  <1>4. ASSUME NEW t \in Terminal!Terminals
        PROVE  /\ runId'[t] \in Terminal!Runs \union {NoRun}
               /\ runId'[t] = runId[t] \/ \E c \in calls : c.run = runId'[t] /\ c.terminal = t
    <2>1. CASE \E c \in calls : Terminal!Listens(c, r) /\ c.terminal = t /\ c.mount = mounts
      <3>1. runId'[t] = r BY <1>3, <2>1
      <3>2. PICK c \in calls : c.run = r /\ c.terminal = t BY <2>1 DEF Terminal!Listens
      <3> QED BY <1>1, <3>1, <3>2
    <2>2. CASE ~\E c \in calls : Terminal!Listens(c, r) /\ c.terminal = t /\ c.mount = mounts
      <3>1. runId'[t] = runId[t] BY <1>3, <2>2
      <3> QED BY <1>2, <3>1
    <2> QED BY <2>1, <2>2
  <1>5. TerminalOffersKnown BY <1>3, <1>4 DEF TerminalOffersKnown
  <1>6. UNCHANGED <<entries, busy, calls>> BY DEF Terminal!RunStarted
  <1>7. busy' \in [Terminal!Terminals -> BOOLEAN] BY <1>6 DEF TerminalInv, TerminalPanel
  <1> QED BY <1>5, <1>6, <1>7, TerminalSameHistory DEF TerminalHarmless

LEMMA TerminalCancelledStays ==
    ASSUME TerminalInv, NEW c, Terminal!Cancelled(c)
    PROVE  TerminalHarmless
  <1>1. UNCHANGED <<entries, busy, calls>> BY DEF Terminal!Cancelled
  <1>2. busy' \in [Terminal!Terminals -> BOOLEAN] BY <1>1 DEF TerminalInv, TerminalPanel
  <1>3. runId \in [Terminal!Terminals -> Terminal!Runs \union {NoRun}]
    BY DEF TerminalInv, TerminalShown
  <1>4. runId' = runId \/ runId' = [runId EXCEPT ![c.terminal] = NoRun]
    BY DEF Terminal!Cancelled
  <1>5. TerminalOffersKnown BY <1>3, <1>4 DEF TerminalOffersKnown
  <1> QED BY <1>1, <1>2, <1>5, TerminalSameHistory DEF TerminalHarmless

(* The agent's events add no command of the user.                            *)
LEMMA TerminalAgentEventStays ==
    ASSUME Terminal!TerminalAssumption, TerminalInv, NEW m, m.about \in ByAgent,
           Terminal!AgentEvent(m)
    PROVE  TerminalHarmless
  <1>0. m.about \in Terminal!Runs /\ Agent \in Terminal!Terminals
    BY DEF Terminal!Runs, Terminal!Terminals
  <1>1. UNCHANGED <<busy, runId, calls>> BY DEF Terminal!AgentEvent
  <1>2. busy' \in [Terminal!Terminals -> BOOLEAN] BY <1>1 DEF TerminalInv, TerminalPanel
  <1>3. entries \in Seq(Terminal!Entries) BY DEF TerminalInv, TerminalBegun
  <1>4. ASSUME entries' = Append(entries, Terminal!Entry(m.about, Agent))
      PROVE TerminalSameCommands
    <2>1. /\ entries' \in Seq(Terminal!Entries)
          /\ \A j \in DOMAIN entries' : \/ j \in DOMAIN entries /\ entries'[j] = entries[j]
                                        \/ entries'[j].run = m.about /\ entries'[j].terminal = Agent
      BY <1>0, <1>3, <1>4, TerminalEntryAdded
    <2>2. ASSUME NEW j \in DOMAIN entries'
          PROVE  TerminalInPlace(entries'[j]) \/ entries'[j].run \in ByAgent
      BY <2>1 DEF TerminalInPlace
    <2> QED BY <2>1, <2>2 DEF TerminalSameCommands
  <1>5. ASSUME entries' = Terminal!WithOutput(entries, Terminal!Last.run, m.about)
      PROVE TerminalSameCommands
    <2>1. TerminalRelabelled(entries, entries') BY <1>0, <1>3, <1>5, TerminalOutputs
    <2> QED BY <2>1 DEF TerminalSameCommands, TerminalInPlace, TerminalRelabelled
  <1>6. ASSUME entries' = Terminal!Completed(entries, Terminal!Last.run)
      PROVE TerminalSameCommands
    <2>1. TerminalRelabelled(entries, entries') BY <1>3, <1>6, TerminalCompletes
    <2> QED BY <2>1 DEF TerminalSameCommands, TerminalInPlace, TerminalRelabelled
  <1>7. ASSUME entries' = entries PROVE TerminalSameCommands
    <2>1. UNCHANGED entries BY <1>7
    <2> QED BY <2>1, TerminalSameHistory
  <1>8. \/ entries' = Append(entries, Terminal!Entry(m.about, Agent))
        \/ entries' = Terminal!WithOutput(entries, Terminal!Last.run, m.about)
        \/ entries' = Terminal!Completed(entries, Terminal!Last.run) \/ entries' = entries
    BY Zenon DEF Terminal!AgentEvent
  <1>9. TerminalSameCommands BY <1>4, <1>5, <1>6, <1>7, <1>8
  <1> QED BY <1>1, <1>2, <1>9, TerminalSameOffers DEF TerminalHarmless

(* What is sent to the client is mail.                                       *)
LEMMA TerminalMailSent ==
    ASSUME TerminalInv, NEW kind, NEW about, Terminal!Send(kind, about),
           [kind |-> kind, about |-> about] \in Terminal!Mail
    PROVE  inbox' \in Seq(Terminal!Mail)
  BY AppendProperties DEF TerminalInv, TerminalUnderWay, Terminal!Send

LEMMA TerminalStep ==
    ASSUME Terminal!TerminalAssumption, TerminalInv, Terminal!Next
    PROVE  TerminalInv'
  <1>1. ASSUME NEW t \in Tabs, Terminal!AddTerminal(t) PROVE TerminalInv'
    <2>1. UNCHANGED <<process, closed, entries, busy, runId, calls, asked, inbox, mounts>>
      BY <1>1 DEF Terminal!AddTerminal
    <2>2. TerminalSameCommands /\ TerminalGoesOn /\ TerminalOffersKnown
      BY <2>1, TerminalSameHistory, TerminalSameProcess, TerminalSameOffers
    <2>3. TerminalShown' /\ TerminalWaiting' /\ TerminalBegun' BY <2>1, <2>2, TerminalOffersStay
    <2>4. TerminalPanel'
      BY <1>1, <2>1 DEF Terminal!AddTerminal, TerminalInv, TerminalPanel, Terminal!Terminals
    <2> QED BY <2>1, <2>3, <2>4 DEF TerminalInv, TerminalUnderWay
  <1>2. ASSUME NEW t \in Terminal!Terminals, Terminal!CloseTerminal(t) PROVE TerminalInv'
    <2>1. UNCHANGED <<process, busy, runId, calls, asked, inbox, mounts>>
      BY <1>2 DEF Terminal!CloseTerminal
    <2>2. entries \in Seq(Terminal!Entries) /\ entries' = Terminal!Others(entries, t)
      BY <1>2 DEF Terminal!CloseTerminal, TerminalInv, TerminalBegun
    <2>3. /\ entries' \in Seq(Terminal!Entries)
          /\ \A j \in DOMAIN entries' : \E i \in DOMAIN entries : entries'[j] = entries[i]
      BY <2>2, TerminalOthersAre
    <2>4. ASSUME NEW j \in DOMAIN entries'
          PROVE  TerminalInPlace(entries'[j])
      BY <2>3 DEF TerminalInPlace
    <2>5. TerminalSameCommands BY <2>3, <2>4 DEF TerminalSameCommands
    <2>6. TerminalGoesOn /\ TerminalOffersKnown BY <2>1, TerminalSameProcess, TerminalSameOffers
    <2>7. TerminalShown' /\ TerminalWaiting' /\ TerminalBegun'
      BY <2>1, <2>5, <2>6, TerminalOffersStay
    <2>8. TerminalPanel'
      <3>1. t \in Tabs BY <1>2 DEF Terminal!CloseTerminal, Terminal!Terminals
      <3> QED BY <1>2, <2>1, <3>1 DEF Terminal!CloseTerminal, TerminalInv, TerminalPanel
    <2> QED BY <2>1, <2>7, <2>8 DEF TerminalInv, TerminalUnderWay
  <1>3. ASSUME NEW t \in Terminal!Terminals, NEW r \in Manual, Terminal!HandleRun(t, r)
      PROVE TerminalInv'
    <2>1. UNCHANGED <<open, closed, runId, inbox, mounts>> BY <1>3 DEF Terminal!HandleRun
    <2>2. /\ r \in Terminal!Runs
          /\ process[r] = "none"
          /\ process \in [Terminal!Runs -> TerminalStages]
          /\ entries \in Seq(Terminal!Entries)
      BY <1>3 DEF Terminal!HandleRun, TerminalInv, TerminalBegun, Terminal!Runs
    <2>3. process' = [process EXCEPT ![r] = "asked"] BY <1>3 DEF Terminal!HandleRun
    <2>4. process' \in [Terminal!Runs -> TerminalStages] /\ process'[r] # "none"
      BY <2>2, <2>3 DEF TerminalStages
    <2>5. \A q \in Terminal!Runs : process[q] # "none" => process'[q] # "none"
      BY <2>2, <2>3, <2>4
    <2>6. entries' = Append(entries, Terminal!Entry(r, t)) BY <1>3 DEF Terminal!HandleRun
    <2>7. /\ entries' \in Seq(Terminal!Entries)
          /\ \A j \in DOMAIN entries' : \/ j \in DOMAIN entries /\ entries'[j] = entries[j]
                                        \/ entries'[j].run = r /\ entries'[j].terminal = t
      BY <2>2, <2>6, TerminalEntryAdded
    <2>8. \A i \in DOMAIN entries : entries[i].run # r
      BY <2>2 DEF TerminalInv, TerminalBegun
    <2>9. TerminalOwn(r, t)' BY <2>4, <2>7, <2>8 DEF TerminalOwn
    <2>10. ASSUME NEW q \in Manual, NEW s, TerminalOwn(q, s) PROVE TerminalOwn(q, s)'
      <3>1. q \in Terminal!Runs /\ process[q] # "none" /\ q # r
        BY <2>2, <2>10 DEF TerminalOwn, Terminal!Runs
      <3>2. process'[q] # "none" BY <2>5, <3>1
      <3> QED BY <2>7, <2>10, <3>1, <3>2 DEF TerminalOwn
    <2>11. PICK c : c = Terminal!Call(r, t) OBVIOUS
    <2>12. c \in Terminal!RunCalls /\ c.run = r /\ c.terminal = t
      <3>1. mounts \in 1..MaxMounts BY DEF TerminalInv, TerminalPanel
      <3> QED BY <2>11, <3>1 DEF Terminal!Call, Terminal!RunCalls
    <2>13. calls' = calls \union {c} BY <1>3, <2>11 DEF Terminal!HandleRun
    <2>14. TerminalWaiting'
      <3>1. calls' \subseteq Terminal!RunCalls BY <2>12, <2>13 DEF TerminalInv, TerminalWaiting
      <3>2. ASSUME NEW d \in calls' PROVE TerminalOwn(d.run, d.terminal)'
        <4>1. CASE d \in calls
          <5>1. d.run \in Manual /\ TerminalOwn(d.run, d.terminal)
            BY <4>1 DEF TerminalInv, TerminalWaiting, Terminal!RunCalls
          <5> QED BY <2>10, <5>1
        <4>2. CASE d = c BY <2>9, <2>12, <4>2
        <4> QED BY <2>13, <4>1, <4>2
      <3> QED BY <3>1, <3>2 DEF TerminalWaiting
    <2>15. TerminalShown'
      <3>1. ASSUME NEW u \in Terminal!Terminals, NEW q, q = runId[u], q # NoRun
            PROVE  q \in Manual /\ TerminalOwn(q, u)'
        <4>1. q \in Manual /\ TerminalOwn(q, u) BY <3>1 DEF TerminalInv, TerminalShown
        <4> QED BY <2>10, <4>1
      <3> QED BY <2>1, <3>1 DEF TerminalInv, TerminalShown, TerminalOwn
    <2>16. TerminalBegun'
      <3>1. ASSUME NEW j \in DOMAIN entries', entries'[j].run \in Manual
            PROVE  process'[entries'[j].run] # "none"
        <4>1. CASE j \in DOMAIN entries /\ entries'[j] = entries[j]
          <5>1. entries[j].run \in Terminal!Runs /\ process[entries[j].run] # "none"
            BY <3>1, <4>1 DEF TerminalInv, TerminalBegun, Terminal!Runs
          <5> QED BY <2>5, <4>1, <5>1
        <4>2. CASE entries'[j].run = r BY <2>4, <4>2
        <4> QED BY <2>7, <4>1, <4>2
      <3> QED BY <2>4, <2>7, <3>1 DEF TerminalBegun
    <2>17. TerminalPanel'
      <3>1. busy' \in [Terminal!Terminals -> BOOLEAN]
        BY <1>3 DEF Terminal!HandleRun, TerminalInv, TerminalPanel
      <3> QED BY <2>1, <3>1 DEF TerminalInv, TerminalPanel
    <2>18. TerminalUnderWay'
      <3>1. asked' = asked \union {[what |-> "run", about |-> c]}
        BY <1>3, <2>11 DEF Terminal!HandleRun
      <3>2. asked' \subseteq [what : {"run", "cancel"}, about : Terminal!RunCalls]
        BY <2>12, <3>1 DEF TerminalInv, TerminalUnderWay
      <3> QED BY <2>1, <3>2 DEF TerminalInv, TerminalUnderWay
    <2> QED BY <2>14, <2>15, <2>16, <2>17, <2>18 DEF TerminalInv
  <1>4. ASSUME NEW t \in Terminal!Terminals, Terminal!HandleCancel(t) PROVE TerminalInv'
    <2>1. UNCHANGED <<process, open, closed, entries, busy, runId, calls, inbox, mounts>>
      BY <1>4 DEF Terminal!HandleCancel
    <2>2. TerminalSameCommands /\ TerminalGoesOn /\ TerminalOffersKnown
      BY <2>1, TerminalSameHistory, TerminalSameProcess, TerminalSameOffers
    <2>3. TerminalShown' /\ TerminalWaiting' /\ TerminalBegun' BY <2>1, <2>2, TerminalOffersStay
    <2>4. TerminalPanel' BY <2>1 DEF TerminalInv, TerminalPanel
    <2>5. runId[t] \in Manual BY <1>4 DEF Terminal!HandleCancel, TerminalInv, TerminalShown
    <2>6. PICK c : c = Terminal!Call(runId[t], t) OBVIOUS
    <2>7. c \in Terminal!RunCalls
      <3>1. mounts \in 1..MaxMounts BY DEF TerminalInv, TerminalPanel
      <3> QED BY <2>5, <2>6, <3>1 DEF Terminal!Call, Terminal!RunCalls
    <2>8. asked' = asked \union {[what |-> "cancel", about |-> c]}
      BY <1>4, <2>6 DEF Terminal!HandleCancel
    <2>9. asked' \subseteq [what : {"run", "cancel"}, about : Terminal!RunCalls]
      BY <2>7, <2>8 DEF TerminalInv, TerminalUnderWay
    <2>10. TerminalUnderWay' BY <2>1, <2>9 DEF TerminalInv, TerminalUnderWay
    <2> QED BY <2>3, <2>4, <2>10 DEF TerminalInv
  <1>5. ASSUME Terminal!Remount PROVE TerminalInv'
    <2>1. UNCHANGED <<process, open, closed, entries, calls, asked, inbox>>
      BY <1>5 DEF Terminal!Remount
    <2>2. TerminalSameCommands /\ TerminalGoesOn
      BY <2>1, TerminalSameHistory, TerminalSameProcess
    <2>3. TerminalOffersKnown BY <1>5 DEF Terminal!Remount, Terminal!NoIds, TerminalOffersKnown
    <2>4. TerminalShown' /\ TerminalWaiting' /\ TerminalBegun'
      BY <2>1, <2>2, <2>3, TerminalOffersStay
    <2>5. TerminalPanel'
      <3>1. mounts' \in 1..MaxMounts
        BY <1>5 DEF Terminal!Remount, TerminalInv, TerminalPanel, Terminal!TerminalAssumption
      <3>2. busy' \in [Terminal!Terminals -> BOOLEAN]
        BY <1>5 DEF Terminal!Remount, Terminal!Idle
      <3> QED BY <2>1, <3>1, <3>2 DEF TerminalInv, TerminalPanel
    <2> QED BY <2>1, <2>4, <2>5 DEF TerminalInv, TerminalUnderWay
  <1>6. ASSUME Terminal!GiveUp PROVE TerminalInv'
    <2>1. UNCHANGED <<process, open, closed, asked, inbox, mounts>> BY <1>6 DEF Terminal!GiveUp
    <2>2. PICK c \in calls : Terminal!Settle(c, FALSE) BY <1>6 DEF Terminal!GiveUp
    <2>3. TerminalHarmless
      BY <2>2, TerminalSettleStays
    <2>4. TerminalGoesOn BY <2>1, TerminalSameProcess
    <2>5. TerminalShown' /\ TerminalWaiting' /\ TerminalBegun'
      BY <2>3, <2>4, TerminalOffersStay DEF TerminalHarmless
    <2>6. TerminalPanel' BY <2>1, <2>3 DEF TerminalInv, TerminalPanel, TerminalHarmless
    <2> QED BY <2>1, <2>5, <2>6 DEF TerminalInv, TerminalUnderWay
  <1>7. ASSUME Terminal!Serve PROVE TerminalInv'
    <2>1. UNCHANGED <<open, closed, entries, busy, runId, calls, mounts>>
      BY <1>7 DEF Terminal!Serve
    <2>2. PICK a \in asked : asked' = asked \ {a} /\ (Terminal!ServeRun(a) \/ Terminal!ServeCancel(a))
      BY <1>7 DEF Terminal!Serve
    <2>3. a.about \in Terminal!RunCalls BY DEF TerminalInv, TerminalUnderWay
    <2>4. a.about.run \in Terminal!Runs BY <2>3 DEF Terminal!RunCalls, Terminal!Runs
    <2>5. process \in [Terminal!Runs -> TerminalStages] BY DEF TerminalInv, TerminalBegun
    <2>6. TerminalGoesOn
      <3>1. \/ process' = [process EXCEPT ![a.about.run] = "running"]
            \/ process' = [process EXCEPT ![a.about.run] = "over"]
            \/ process' = [process EXCEPT ![a.about.run] = "killed"]
            \/ process' = process
        BY <2>2, <2>4, <2>5 DEF Terminal!ServeRun, Terminal!ServeCancel
      <3> QED BY <2>4, <2>5, <3>1 DEF TerminalGoesOn, TerminalStages
    <2>7. \E k \in {"started", "refused", "cancelled"} : Terminal!Send(k, a.about)
      BY <2>2 DEF Terminal!ServeRun, Terminal!ServeCancel
    <2>8. inbox' \in Seq(Terminal!Mail)
      <3>1. PICK k \in {"started", "refused", "cancelled"} : Terminal!Send(k, a.about) BY <2>7
      <3>2. [kind |-> k, about |-> a.about] \in Terminal!Mail BY <2>3 DEF Terminal!Mail
      <3> QED BY <3>1, <3>2, TerminalMailSent
    <2>9. TerminalSameCommands /\ TerminalOffersKnown
      BY <2>1, TerminalSameHistory, TerminalSameOffers
    <2>10. TerminalShown' /\ TerminalWaiting' /\ TerminalBegun'
      BY <2>1, <2>6, <2>9, TerminalOffersStay
    <2>11. TerminalPanel' BY <2>1 DEF TerminalInv, TerminalPanel
    <2>12. TerminalUnderWay' BY <2>2, <2>8 DEF TerminalInv, TerminalUnderWay
    <2> QED BY <2>10, <2>11, <2>12 DEF TerminalInv
  <1>8. ASSUME Terminal!Arrive PROVE TerminalInv'
    <2>1. UNCHANGED <<process, open, closed, asked, mounts>> BY <1>8 DEF Terminal!Arrive
    <2>2. inbox \in Seq(Terminal!Mail) /\ inbox # <<>>
      BY <1>8 DEF Terminal!Arrive, TerminalInv, TerminalUnderWay
    <2>3. PICK m : m = Head(inbox) OBVIOUS
    <2>4. m \in Terminal!Mail /\ inbox' \in Seq(Terminal!Mail)
      BY <1>8, <2>2, <2>3, HeadTailProperties DEF Terminal!Arrive
    <2>5. \/ Terminal!RunStarted(m.about.run) \/ Terminal!Cancelled(m.about)
          \/ \E success \in BOOLEAN : Terminal!Ended(m.about.run, success)
          \/ m.about \in ByAgent /\ Terminal!AgentEvent(m)
      <3>1. CASE m.kind = "started" BY <1>8, <2>3, <3>1 DEF Terminal!Arrive
      <3>2. CASE m.kind = "cancelled" BY <1>8, <2>3, <3>2 DEF Terminal!Arrive
      <3>3. CASE m.kind = "refused"
        <4>1. Terminal!Ended(m.about.run, FALSE) BY <1>8, <2>3, <3>3 DEF Terminal!Arrive
        <4> QED BY <4>1
      <3>4. CASE m.kind = "ended" BY <1>8, <2>3, <3>4 DEF Terminal!Arrive
      <3>5. CASE m.kind \in {"begin", "output", "complete"}
        <4>1. m.about \in ByAgent BY <2>4, <3>5 DEF Terminal!Mail
        <4>2. Terminal!AgentEvent(m) BY <1>8, <2>3, <3>5 DEF Terminal!Arrive
        <4> QED BY <4>1, <4>2
      <3>6. m.kind \in {"started", "cancelled", "refused", "ended", "begin", "output", "complete"}
        BY <2>4 DEF Terminal!Mail
      <3> QED BY <3>1, <3>2, <3>3, <3>4, <3>5, <3>6
    <2>6. TerminalHarmless
      BY <2>5, TerminalStartedStays, TerminalCancelledStays, TerminalEndedStays,
         TerminalAgentEventStays
    <2>7. TerminalGoesOn BY <2>1, TerminalSameProcess
    <2>8. TerminalShown' /\ TerminalWaiting' /\ TerminalBegun'
      BY <2>6, <2>7, TerminalOffersStay DEF TerminalHarmless
    <2>9. TerminalPanel' BY <2>1, <2>6 DEF TerminalInv, TerminalPanel, TerminalHarmless
    <2> QED BY <2>1, <2>4, <2>8, <2>9 DEF TerminalInv, TerminalUnderWay
  <1>9. ASSUME NEW r \in Terminal!Runs,
      Terminal!Close(r) \/ Terminal!Kill(r) \/ Terminal!AgentRuns(r)
      PROVE TerminalInv'
    <2>1. UNCHANGED <<open, closed, entries, busy, runId, calls, asked, mounts>>
      BY <1>9 DEF Terminal!Close, Terminal!Kill, Terminal!AgentRuns
    <2>2. process \in [Terminal!Runs -> TerminalStages] /\ inbox \in Seq(Terminal!Mail)
      BY DEF TerminalInv, TerminalBegun, TerminalUnderWay
    <2>3. TerminalGoesOn
      <3>1. \/ process' = [process EXCEPT ![r] = "over"]
            \/ process' = [process EXCEPT ![r] = "killed"]
            \/ process' = [process EXCEPT ![r] = "running"]
        BY <1>9 DEF Terminal!Close, Terminal!Kill, Terminal!AgentRuns
      <3> QED BY <2>2, <3>1 DEF TerminalGoesOn, TerminalStages
    <2>4. inbox' \in Seq(Terminal!Mail)
      <3>1. CASE r \in Manual /\ Terminal!Send("ended", [run |-> r])
        <4>1. [kind |-> "ended", about |-> [run |-> r]] \in Terminal!Mail
          BY <3>1 DEF Terminal!Mail
        <4> QED BY <3>1, <4>1, TerminalMailSent
      <3>2. CASE r \in ByAgent /\ inbox' = inbox \o <<[kind |-> "output", about |-> r],
                                                      [kind |-> "complete", about |-> r]>>
        <4>1. PICK x : x = [kind |-> "output", about |-> r] OBVIOUS
        <4>2. PICK y : y = [kind |-> "complete", about |-> r] OBVIOUS
        <4>3. x \in Terminal!Mail /\ y \in Terminal!Mail BY <3>2, <4>1, <4>2 DEF Terminal!Mail
        <4>4. <<x, y>> \in Seq(Terminal!Mail) BY <4>3
        <4>5. inbox' = inbox \o <<x, y>> BY <3>2, <4>1, <4>2
        <4> QED BY <2>2, <4>4, <4>5, ConcatProperties
      <3>3. CASE UNCHANGED inbox BY <2>2, <3>3
      <3>4. CASE r \in ByAgent /\ Terminal!Send("begin", r)
        <4>1. [kind |-> "begin", about |-> r] \in Terminal!Mail BY <3>4 DEF Terminal!Mail
        <4> QED BY <3>4, <4>1, TerminalMailSent
      <3> QED BY <1>9, <3>1, <3>2, <3>3, <3>4
          DEF Terminal!Close, Terminal!Kill, Terminal!AgentRuns
    <2>5. TerminalSameCommands /\ TerminalOffersKnown
      BY <2>1, TerminalSameHistory, TerminalSameOffers
    <2>6. TerminalShown' /\ TerminalWaiting' /\ TerminalBegun'
      BY <2>1, <2>3, <2>5, TerminalOffersStay
    <2>7. TerminalPanel' BY <2>1 DEF TerminalInv, TerminalPanel
    <2> QED BY <2>1, <2>4, <2>6, <2>7 DEF TerminalInv, TerminalUnderWay
  <1> QED BY <1>1, <1>2, <1>3, <1>4, <1>5, <1>6, <1>7, <1>8, <1>9 DEF Terminal!Next

LEMMA TerminalStays ==
    ASSUME TerminalInv, UNCHANGED Terminal!vars PROVE TerminalInv'
  BY
     DEF TerminalInv, TerminalPanel, TerminalShown, TerminalWaiting, TerminalBegun,
         TerminalUnderWay, TerminalOwn, Terminal!vars

LEMMA TerminalInvariance ==
    ASSUME Terminal!TerminalAssumption PROVE Terminal!Spec => []TerminalInv
  <1>1. Terminal!Init => TerminalInv BY TerminalStarts
  <1>2. TerminalInv /\ [Terminal!Next]_(Terminal!vars) => TerminalInv'
    BY TerminalStep, TerminalStays
  <1> QED BY <1>1, <1>2, PTL DEF Terminal!Spec

-----------------------------------------------------------------------------
(* Cancel ends the command of its own terminal, however the answers of      *)
(* several terminals, their timeouts and the events of the agent interleave *)
(* (TerminalPanel.jsx, store/codingStore.js, CodingProvider.jsx).           *)
THEOREM CancelStaysItsOwn == Client => []CancelsItsOwn
  <1>1. Terminal!Spec => []TerminalInv BY EachAssumption, TerminalInvariance
  <1>2. TerminalInv => CancelsItsOwn BY EachAssumption, TerminalShows DEF CancelsItsOwn
  <1> QED BY EachRuns, <1>1, <1>2, PTL

(* A window says that it is connected when it is, and a call that was told  *)
(* a result was executed once; a picture loads only while something is on   *)
(* its way to the window; a popup that is sending is answered, and shows    *)
(* one answer in the end (services/socketService.js, ChatProvider.jsx,      *)
(* wake/WakePopup.jsx).                                                     *)
THEOREM WindowStaysTold == Client => []WindowIsTold
  <1>1. Connection!Spec => []ConnectionInv BY EachAssumption, ConnectionInvariance
  <1>2. Images!Spec => []ImagesInv BY EachAssumption, ImagesInvariance
  <1>3. WakeChat!Spec => []WakeChatPopupPage BY EachAssumption, WakeChatInvariance
  <1>4. ConnectionInv /\ ImagesInv /\ WakeChatPopupPage => WindowIsTold
    BY EachAssumption, ConnectionShows, ImagesShow, WakeChatPopupSays DEF WindowIsTold
  <1> QED BY EachRuns, <1>1, <1>2, <1>3, <1>4, PTL

(* The variables of every component have their types.                       *)
THEOREM ClientTypes == Client => []AllTypesOK
  <1>1. Face!Spec => []FaceInv BY EachAssumption, FaceInvariance
  <1>2. Eyes!Spec => []EyesInv BY EachAssumption, EyesInvariance
  <1>3. Editor!Spec => []EditorInv BY EachAssumption, EditorInvariance
  <1>4. Explorer!Spec => []ExplorerInv BY EachAssumption, ExplorerInvariance
  <1>5. Git!Spec => [](Git!TypeOK /\ Git!DiffIsOfItsHeader) BY GitShows
  <1>6. Coding!Spec => []CodingInv BY EachAssumption, CodingInvariance
  <1>7. Providers!Spec => [](Providers!TypeOK /\ Providers!ModelOfItsProvider)
    BY EachAssumption, ProvidersOfTheClient, ProvidersShow
  <1>8. Connection!Spec => []ConnectionInv BY EachAssumption, ConnectionInvariance
  <1>9. Images!Spec => []ImagesInv BY EachAssumption, ImagesInvariance
  <1>10. WakeChat!Spec => []WakeChatPopupPage BY EachAssumption, WakeChatInvariance
  <1>11. Terminal!Spec => []TerminalInv BY EachAssumption, TerminalInvariance
  <1>12. Spec => []TypeOK BY LiveTypes
  <1>13. FaceInv /\ EyesInv /\ EditorInv /\ ExplorerInv
         => Face!TypeOK /\ Eyes!TypeOK /\ Editor!TypeOK /\ Explorer!TypeOK
    BY EachAssumption, FaceShows, EyesShow, EditorTypes, ExplorerTypes
  <1>14. CodingInv /\ ConnectionInv /\ ImagesInv
         => Coding!TypeOK /\ Connection!TypeOK /\ Images!TypeOK
    BY EachAssumption, CodingTypes, ConnectionTypes, ImagesTypes
  <1>15. TerminalInv /\ WakeChatPopupPage => Terminal!TypeOK /\ WakeChat!TypeOK
    BY EachAssumption, TerminalTypes DEF WakeChatPopupPage
  <1>16. Client => [](part \in Parts)
    <2>1. Start => part \in Parts BY DEF Start
    <2>2. part \in Parts /\ [Step]_all => (part \in Parts)' BY DEF Step, OthersStay, all
    <2> QED BY <2>1, <2>2, PTL DEF Client
  <1>17. /\ part \in Parts /\ TypeOK
         /\ Face!TypeOK /\ Eyes!TypeOK /\ Editor!TypeOK /\ Explorer!TypeOK /\ Git!TypeOK
         /\ Coding!TypeOK /\ Providers!TypeOK /\ Connection!TypeOK /\ Images!TypeOK
         /\ Terminal!TypeOK /\ WakeChat!TypeOK
         => AllTypesOK
    BY ClientAssumption DEF AllTypesOK
  <1> QED
    BY EachRuns, <1>1, <1>2, <1>3, <1>4, <1>5, <1>6, <1>7, <1>8, <1>9, <1>10, <1>11,
       <1>12, <1>13, <1>14, <1>15, <1>16, <1>17, PTL
===============================================================================
