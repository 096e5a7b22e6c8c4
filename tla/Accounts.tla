------------------------------ MODULE Accounts ------------------------------
(***************************************************************************)
(* One e-mail address, the accounts that have it one after the other, and   *)
(* the way back into an account whose password is forgotten: a page asks    *)
(* for a code, the code comes by mail, the code is exchanged for a token    *)
(* and the token for a new password (passwordResetService.js,               *)
(* ForgotPasswordView.jsx).  Handlers of requests run concurrently, also    *)
(* with the removal of the account by an administrator and with a signup.   *)
(*                                                                         *)
(* Passwords, hashes and the wording of answers are left out.  Codes and    *)
(* tokens are numbers in the order of their making; 0 is none, and as a     *)
(* code one that is wrong.                                                  *)
(***************************************************************************)
EXTENDS Naturals, FiniteSets

CONSTANTS Calls,        \* requests the server handles at one time
          Pages,        \* open pages for a forgotten password
          MaxAttempts,  \* OTP_MAX_ATTEMPTS: 5 in the code
          MaxCodes,     \* bound: codes made
          MaxTokens,    \* bound: tokens made
          MaxAccounts   \* bound: accounts made

AccountsAssumption ==
    /\ MaxAttempts \in Nat \ {0}
    /\ MaxCodes \in Nat /\ MaxTokens \in Nat /\ MaxAccounts \in Nat \ {0}
    /\ IsFiniteSet(Calls)

VARIABLES
    account,    \* the account that has the address, 0 when there is none
    accounts,   \* accounts made so far
    record,     \* the reset record of an account
    codes,      \* codes made so far
    tokens,     \* tokens made so far
    mailed,     \* codes whose mail was sent
    call,       \* the requests being handled
    page,       \* the pages: step, waiting, resetToken
    misses,     \* history: how often a code was compared with a wrong one
    spent,      \* history: tokens whose record was removed after their use
    uses        \* history: how often a token has changed the password

server == <<account, accounts, record, codes, tokens, mailed>>
history == <<misses, spent, uses>>
vars == <<server, call, page, history>>

Ids == 1 .. MaxAccounts

NoRecord == [code |-> 0]
Record == [code : 1 .. MaxCodes, expired : BOOLEAN, attempts : Nat,
           used : BOOLEAN, token : 0 .. MaxTokens, tokenExpired : BOOLEAN]

Idle == [op |-> "none"]
(* A request: what it is about, the await it stands at, the account it has  *)
(* looked up, the code or token it was sent or has made, and the page that  *)
(* waits for its answer, if one does.                                       *)
Call == [op : {"forgot", "verify", "reset", "delete", "signup"},
         at : {"findUser", "upsert", "mail", "findRecord", "increment", "mark",
               "hash", "update", "deleteUser", "deleteRecord", "create"},
         id : 0 .. MaxAccounts, code : 0 .. MaxCodes, token : 0 .. MaxTokens,
         from : SUBSET Pages]

TypeOK ==
    /\ account \in 0 .. accounts /\ accounts \in Ids
    /\ record \in [Ids -> Record \union {NoRecord}]
    /\ codes \in 0 .. MaxCodes /\ tokens \in 0 .. MaxTokens
    /\ mailed \subseteq 1 .. codes
    /\ call \in [Calls -> Call \union {Idle}]
    /\ page \in [Pages -> [step : 0 .. 3, loading : BOOLEAN, token : 0 .. MaxTokens]]
    /\ misses \in [1 .. MaxCodes -> Nat]
    /\ spent \subseteq 1 .. MaxTokens
    /\ uses \in [1 .. MaxTokens -> Nat]

Init ==
    /\ account = 1 /\ accounts = 1
    /\ record = [i \in Ids |-> NoRecord]
    /\ codes = 0 /\ tokens = 0 /\ mailed = {}
    /\ call = [k \in Calls |-> Idle]
    /\ page = [p \in Pages |-> [step |-> 0, loading |-> FALSE, token |-> 0]]
    /\ misses = [c \in 1 .. MaxCodes |-> 0]
    /\ spent = {}
    /\ uses = [t \in 1 .. MaxTokens |-> 0]

-----------------------------------------------------------------------------
(* The page                                                                 *)

New(op, at, code, token, from) ==
    [op |-> op, at |-> at, id |-> 0, code |-> code, token |-> token, from |-> from]

(* A form is submitted; it is disabled while an answer is awaited.          *)
Submit(p) ==
    /\ ~page[p].loading
    /\ \E k \in Calls :
          /\ call[k] = Idle
          /\ \/ /\ page[p].step = 0
                /\ call' = [call EXCEPT ![k] = New("forgot", "findUser", 0, 0, {p})]
             \/ /\ page[p].step = 1
                /\ \E guess \in mailed \union {0} :
                      call' = [call EXCEPT ![k] = New("verify", "findUser", guess, 0, {p})]
             \/ /\ page[p].step = 2
                /\ call' = [call EXCEPT ![k] =
                              New("reset", "findUser", 0, page[p].token, {p})]
    /\ page' = [page EXCEPT ![p].loading = TRUE]
    /\ UNCHANGED <<server, history>>

(* "Use a different email / resend"                                         *)
Resend(p) ==
    /\ page[p].step = 1 /\ ~page[p].loading
    /\ page' = [page EXCEPT ![p].step = 0]
    /\ UNCHANGED <<server, call, history>>

(* The connection breaks: the page shows an error, the handler goes on.     *)
AnswerLost(k) ==
    /\ call[k] # Idle
    /\ \E p \in call[k].from :
          /\ page' = [page EXCEPT ![p].loading = FALSE]
          /\ call' = [call EXCEPT ![k].from = {}]
    /\ UNCHANGED <<server, history>>

(* The handler k answers; a page that waits shows the error or goes on with *)
(* the next step.                                                           *)
Refuse(k) ==
    /\ call' = [call EXCEPT ![k] = Idle]
    /\ page' = [p \in Pages |-> IF p \in call[k].from
                                  THEN [page[p] EXCEPT !.loading = FALSE] ELSE page[p]]

Answer(k, token) ==
    /\ call' = [call EXCEPT ![k] = Idle]
    /\ page' = [p \in Pages |->
          IF p \in call[k].from
            THEN [step |-> page[p].step + 1, loading |-> FALSE, token |-> token]
            ELSE page[p]]

Await(k, at) == call' = [call EXCEPT ![k].at = at] /\ UNCHANGED page

-----------------------------------------------------------------------------
(* The handlers.  Each begins by looking for the account of the address.    *)

At(k, op, at) == call[k] # Idle /\ call[k].op = op /\ call[k].at = at

First == [forgot |-> "upsert", verify |-> "findRecord", reset |-> "findRecord",
          delete |-> "deleteUser"]

(* Without an account a request for a code is answered all the same.        *)
FindUser(k) ==
    /\ call[k] # Idle /\ call[k].at = "findUser"
    /\ CASE account # 0 /\ call[k].op # "signup" ->
              /\ call' = [call EXCEPT ![k].id = account, ![k].at = First[call[k].op]]
              /\ UNCHANGED page
         [] account = 0 /\ call[k].op = "signup" -> Await(k, "hash")
         [] account = 0 /\ call[k].op = "forgot" -> Answer(k, 0)
         [] OTHER                                -> Refuse(k)
    /\ UNCHANGED <<server, history>>

Fresh(code) == [code |-> code, expired |-> FALSE, attempts |-> 0, used |-> FALSE,
                token |-> 0, tokenExpired |-> FALSE]

Upsert(k) ==
    /\ At(k, "forgot", "upsert")
    /\ codes < MaxCodes
    /\ codes' = codes + 1
    /\ record' = [record EXCEPT ![call[k].id] = Fresh(codes + 1)]
    /\ call' = [call EXCEPT ![k].at = "mail", ![k].code = codes + 1]
    /\ UNCHANGED <<account, accounts, tokens, mailed, page, history>>

(* A mail that cannot be sent is only logged.                               *)
Mail(k) ==
    /\ At(k, "forgot", "mail")
    /\ mailed' \in {mailed, mailed \union {call[k].code}}
    /\ Answer(k, 0)
    /\ UNCHANGED <<account, accounts, record, codes, tokens, history>>

(* Slip: a code may be tried once more than is said.                        *)
OpenOnceMore(r) == r # NoRecord /\ ~r.used /\ ~r.expired /\ r.attempts =< MaxAttempts

Open(r) == r # NoRecord /\ ~r.used /\ ~r.expired /\ r.attempts < MaxAttempts

(* verifyOtp() reads the record, and compares and counts after that.        *)
Compare(k) ==
    LET r == record[call[k].id] IN
    /\ At(k, "verify", "findRecord")
    /\ \/ ~Open(r) /\ Refuse(k) /\ UNCHANGED <<tokens, misses>>
       \/ /\ Open(r) /\ call[k].code # r.code
          /\ misses' = [misses EXCEPT ![r.code] = @ + 1]
          /\ Await(k, "increment")
          /\ UNCHANGED tokens
       \/ /\ Open(r) /\ call[k].code = r.code
          /\ tokens < MaxTokens
          /\ tokens' = tokens + 1
          /\ call' = [call EXCEPT ![k].at = "mark", ![k].token = tokens + 1]
          /\ UNCHANGED <<page, misses>>
    /\ UNCHANGED <<account, accounts, record, codes, mailed, spent, uses>>

(* Both act on the record there is by now, if there is one.                 *)
Increment(k) ==
    /\ At(k, "verify", "increment")
    /\ LET i == call[k].id IN
       record' = IF record[i] = NoRecord THEN record
                                         ELSE [record EXCEPT ![i].attempts = @ + 1]
    /\ Refuse(k)
    /\ UNCHANGED <<account, accounts, codes, tokens, mailed, history>>

MarkVerified(k) ==
    /\ At(k, "verify", "mark")
    /\ record' = [record EXCEPT ![call[k].id] =
                    IF @ = NoRecord THEN @
                    ELSE [@ EXCEPT !.used = TRUE, !.token = call[k].token,
                                   !.tokenExpired = FALSE]]
    /\ Answer(k, call[k].token)
    /\ UNCHANGED <<account, accounts, codes, tokens, mailed, history>>

(* resetPassword(): the token is checked, the password hashed, the account  *)
(* changed and the record removed, with an await after each.                *)
Proven(k) ==
    LET r == record[call[k].id] IN
    /\ r # NoRecord /\ r.used /\ r.token # 0
    /\ ~r.tokenExpired /\ r.token = call[k].token

CheckToken(k) ==
    /\ At(k, "reset", "findRecord")
    /\ IF Proven(k) THEN Await(k, "hash") ELSE Refuse(k)
    /\ UNCHANGED <<server, history>>

Hashed(k) ==
    /\ \E op \in {"reset", "signup"} : At(k, op, "hash")
    /\ Await(k, IF call[k].op = "reset" THEN "update" ELSE "create")
    /\ UNCHANGED <<server, history>>

(* Nothing is updated when the account is gone, and nobody is told.         *)
UpdatePassword(k) ==
    /\ At(k, "reset", "update")
    /\ Await(k, "deleteRecord")
    /\ uses' = IF account = call[k].id THEN [uses EXCEPT ![call[k].token] = @ + 1] ELSE uses
    /\ UNCHANGED <<server, misses, spent>>

(* Slip: the record stays after the password was changed.                   *)
ForgetNothing(i) == record

Forget(i) == [record EXCEPT ![i] = NoRecord]

DeleteRecord(k) ==
    /\ \E op \in {"reset", "delete"} : At(k, op, "deleteRecord")
    /\ record' = Forget(call[k].id)
    /\ spent' = spent \union ({call[k].token} \ {0})
    /\ Answer(k, 0)
    /\ UNCHANGED <<account, accounts, codes, tokens, mailed, misses, uses>>

(* An administrator removes the account; a user signs up.                   *)
Request(op) ==
    /\ \E k \in Calls :
          /\ call[k] = Idle
          /\ call' = [call EXCEPT ![k] = New(op, "findUser", 0, 0, {})]
    /\ UNCHANGED <<server, page, history>>

DeleteUser(k) ==
    /\ At(k, "delete", "deleteUser")
    /\ IF account = call[k].id
         THEN Await(k, "deleteRecord") /\ account' = 0
         ELSE Refuse(k) /\ UNCHANGED account
    /\ UNCHANGED <<accounts, record, codes, tokens, mailed, history>>

(* The address may have been taken since it was looked for.                 *)
Create(k) ==
    /\ At(k, "signup", "create")
    /\ IF account = 0 /\ accounts < MaxAccounts
         THEN accounts' = accounts + 1 /\ account' = accounts + 1
         ELSE UNCHANGED <<account, accounts>>
    /\ Refuse(k)
    /\ UNCHANGED <<record, codes, tokens, mailed, history>>

(* Ten minutes pass: for a code, which is looked at until it is used, or    *)
(* for a token, which is looked at after that.                              *)
Expire(i) ==
    /\ record[i] # NoRecord
    /\ record' = IF record[i].used THEN [record EXCEPT ![i].tokenExpired = TRUE]
                                   ELSE [record EXCEPT ![i].expired = TRUE]
    /\ UNCHANGED <<account, accounts, codes, tokens, mailed, call, page, history>>

Next ==
    \/ \E p \in Pages : Submit(p) \/ Resend(p)
    \/ \E k \in Calls :
          \/ AnswerLost(k) \/ FindUser(k) \/ Upsert(k) \/ Mail(k) \/ Compare(k)
          \/ Increment(k) \/ MarkVerified(k) \/ CheckToken(k) \/ Hashed(k)
          \/ UpdatePassword(k) \/ DeleteRecord(k) \/ DeleteUser(k) \/ Create(k)
    \/ Request("delete") \/ Request("signup")
    \/ \E i \in Ids : Expire(i)

Spec == Init /\ [][Next]_vars

-----------------------------------------------------------------------------
(* A code is compared with wrong ones at most MaxAttempts times and once    *)
(* more for each request that had read the record before the count was      *)
(* written: attempts are read before an await and counted after it.         *)
GuessesAreBounded ==
    \A c \in 1 .. MaxCodes : misses[c] =< MaxAttempts + Cardinality(Calls) - 1

(* A token changes the password once, and once more for each request that   *)
(* had checked it before the first of them removed the record: resets with  *)
(* one token overlap, because the check and the removal have two awaits     *)
(* between them.  No request that comes later adds to them, not even when    *)
(* the account has got a new record since.                                  *)
TokensAreBounded == \A t \in 1 .. MaxTokens : uses[t] =< Cardinality(Calls)

(* "Single-use: the whole reset record is consumed once the password is     *)
(* actually changed, so this resetToken/OTP can never be reused"            *)
(* (passwordResetService.js, 184-185).  The code breaks it: two resets with *)
(* one token that overlap both find the record, and both change the         *)
(* password.                                                                *)
TokenIsUsedOnce == \A t \in 1 .. MaxTokens : uses[t] =< 1

(* A reset that checks its token after another reset with the same token    *)
(* has ended is refused, whatever other requests are at work.               *)
SpentIsRefused ==
    \A k \in Calls : CheckToken(k) /\ call[k].token \in spent => call'[k] = Idle

=============================================================================
