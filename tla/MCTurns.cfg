\* What must go on: plans, the wake microphone, the popup and the spoken reply.
SPECIFICATION Turns
CONSTANTS
  Parts = {"coordinator", "wakemic", "wakepopup", "speech", "boot"}
  \* Coordinator
  Messages = {m1, m2, m3}
  NoMessage = NoMessage
  Plans <- MCPlans
  Registered = {"Executor", "Coding"}
  \* WakeMic
  Mics = {a, b}
  Listener = Listener
  Sessions = {s1, s2, s3}
  NoSession = NoSession
  MaxMail = 3
  MaxPresses = 3
  \* WakePopup
  MaxHeard = 4
  \* Speech
  MaxTracks = 2
  Moods = {"idle", "happy"}
  Answers = {a1, a2}
  \* Boot
  Signals = {int, term}
  Requests = {q1, q2}
INVARIANTS
  AllTypesOK
  StepsAreEarned
  LatestIsShown
PROPERTIES
  EveryMessageEnds
  VoiceServes
  ServerEndsWell
CHECK_DEADLOCK FALSE
