CONSTANTS
  k1 = k1  k2 = k2  k3 = k3
  Effects <- OneOfEach
  Callers <- TwoCallers
  Kind <- KindOf
  Answers <- ByEffect
  None = None
  Nil = None
  MaxPolls = 1
  MaxCrashes = 1
  Openers = {o1, o2}
  NotYet = NotYet
  MaxLines = 5
  InFlight = 2
  Limit = 1
  MaxCalls = 2
  MaxInputs = 1
  Kids = {"k1", "k2"}
  Issued = {"k1"}
  Lookups = {"a", "b"}
  Floor = 2
  Ttl = 2
  MaxUnknown = 1
  Patience = 1
  Watched = 4
  Null = Null
  Pool <- Roster
  Former = {"cal"}
  Accounts = {"u1", "u2"}
  Providers = {"slack", "github"}
  StateTtl = 1
  MaxFlows = 2
  MaxRotations = 1
  MaxClock = 1
  Blank = Blank
  Nothing = Nothing
  MaxCards = 2
  ListLimit = 1
  MaxClicks = 2
  MaxLost = 1
  Tabs = {"ann", "ben"}  Texts = {"x1", "x2"}  Owner <- OwnTab
  MaxSubmits = 2  MaxRemounts = 1  Unasked = Unasked
  MaxRuns = 4  PageLimit = 1  MaxMoments = 2  MaxWrites = 2  Missing = Missing
  SlackAccounts = {"u1", "u2"}  EngineerRoster <- Roster  Isolates = {"i", "j"}
  ThreadReplies = {"m1", "m2", "m3"}  Author <- Sender  OwnSend = {"m3"}
  Day = 2  Grace = 1  MaxLag = 2  MaxAge = 3  MaxConsents = 1  MaxScores = 2  Nobody = Nobody
SPECIFICATION EffectsSpec
INVARIANTS
  OneHolder
  PerformedAtMostOnce
  SettledIsTruthful
  ExecutionSafe
  FixIsCarried
  CredentialsHold
  QueuesSafe
  
