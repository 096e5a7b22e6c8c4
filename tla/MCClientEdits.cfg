\* The user's edits against reloads and late saves.
SPECIFICATION Client
CONSTANTS
  Parts = {"editor"}
  MaxSessions = 1
  MaxMotions = 1
  UserTexts = {u1}
  OtherTexts = {1, 2}
  Absent = Absent
  NoHash = NoHash
  MaxTravel = 2
  Agent = Agent
  Tabs = {t1}
  Manual = {1}
  ByAgent = {b1}
  NoRun = NoRun
  MaxMounts = 1
  MaxInbox = 1
  \* CodingClient
  MaxMail = 2
  MaxRuns = 2
  MaxApprovals = 2
  Buttons = {k1}
  \* Explorer
  Roots = {r1, r2}
  Names = {f1, f2}
  Refused = {secret}
  Missing = Missing
  MaxCalls = 2
  MaxTurns = 2
  \* Git
  Files = {g1, g2}
  Contents = {a}
  Calls = {n1, n2}
  MaxEdits = 2
  \* Providers
  NoChoice = NoChoice
  MaxRequests = 2
  MaxChanges = 4
  \* Eyes
  EyeFrames = {2}
  EyeMoods = {"excited"}
  \* Expression
  FaceFrames = {2}
  FaceMoods = {"happy"}
  \* Connection
  MaxTokens = 2
  MaxDowns = 2
  Emits = {c1, c2}
  \* Images
  Windows = {w1, w2}
  MaxPictures = 2
  MaxPerWindow = 2
  MaxDrops = 1
  \* WakeChat
  MaxAsked = 2
  MaxBreaks = 1
PROPERTIES
  EditsSurvive
CHECK_DEADLOCK FALSE
