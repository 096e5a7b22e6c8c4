\* What a prompt says of the conversation.
SPECIFICATION Server
CONSTANTS
  Parts = {"mind"}
  \* Settings
  Users = {one, two}
  Providers = {p1, p2}
  Keys = {k1}
  NoKey = NoKey
  Faults = TRUE
  MaxChanges = 3
  \* Memory
  f1 = f1
  f2 = f2
  Facts = {f1, f2}
  Replies = {r1}
  Compressions = {one, two}
  MaxShort = 1
  Batch = 1
  MaxMessages = 3
  Digests <- MCDigests
  \* Accounts
  Requests = {one, two}
  Pages = {g1}
  MaxAttempts = 1
  MaxCodes = 2
  MaxTokens = 1
  MaxAccounts = 2
  \* Plugins
  MaxLoads = 4
  MaxEdits = 3
  \* Sessions
  Emails = {e1, e2}
  Tries = {one, two}
  MaxIds = 2
  MaxLeaves = 3
  \* Admin
  People = {one, two}
  MaxAsked = 4
  \* Mind
  Speakers = {u1, u2}
  Turns = {one, two, three}
  Undefined = Undefined
  MaxHistory = 2
  \* Emotion
  Words = {"excited", "angry"}
  Cues = {"shout"}
  MaxTexts = 1
  MaxCalm = 24
  \* Browser
  Visits = {v1, v2}
  MaxPages = 3
  \* FileUsers
  Signups = {s1, s2}
  Addresses = {e1, e2}
  Fields = {role}
  Values = {0, 1}
  Unset = 0
  NoUser = NoUser
  MaxUsers = 2
  NoFile = NoFile
VIEW Running
SYMMETRY Symmetry
INVARIANTS
  HistoryIsRead
CHECK_DEADLOCK FALSE
