SPECIFICATION FairSpec
CONSTANTS
  Inst = {i1, i2}
  IP = {a}
  NoIP = NoIP
  NoInst = NoInst
  Requests = {r1}
  Workers = {w1}
  Boot = Boot
  Hourly = Hourly
  LimitTotal = 1
  LimitIP = 0
  AllocateCount = 1
  AllocateExpiry = 1
  SessionExpiry = 1
  Faults = {"create"}
  MaxFaults = 1
  MaxBacklog = 1
  HoursPass = FALSE
PROPERTIES ActiveExpires StartAnswered PoolRefilled
