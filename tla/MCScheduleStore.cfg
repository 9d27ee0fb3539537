SPECIFICATION FairSpec
CONSTANTS
  c1 = c1
  c2 = c2
  Clients <- MCClients
  Names = {"", "self", "platform", "nick"}
  NoName = ""
  Self = "self"
  PlatformNames = {"platform"}
  Nicknames = {"nick"}
  QQs = {"", "12345"}
  NoQQ = ""
  Courses <- MCCourses
  Bodies <- MCBodies
  MaxCalls = 2
  MaxObserved = 1
  MaxCrashes = 1
INVARIANTS TypeOK IcsMatchesEvents
PROPERTIES CallsEnd ProfileCallsKeepCourses EditsActOnWhatWasShown ConflictHasCause ImplementsRegister
CHECK_DEADLOCK FALSE
