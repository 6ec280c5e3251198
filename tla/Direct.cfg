SPECIFICATION FairSpec
CONSTANTS
  Inst = {i1, i2}
  IP = {a}
  NoIP = NoIP
  NoInst = NoInst
  Requests = {r1}
  Workers = {}
  Boot = Boot
  Hourly = Hourly
  LimitTotal = 1
  LimitIP = 1
  AllocateCount = 0
  AllocateExpiry = 1
  SessionExpiry = 1
  Faults = {"create", "wait", "start", "delete", "crash"}
  MaxFaults = 2
  MaxBacklog = 1
  HoursPass = TRUE
PROPERTIES KeepsPromise ActiveExpires StartAnswered OrphansCollected FullClears
