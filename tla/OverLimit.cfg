SPECIFICATION Spec
CONSTANTS
  Inst = {i1, i2}
  IP = {a, b}
  NoIP = NoIP
  NoInst = NoInst
  Requests = {r1, r2}
  Workers = {}
  Boot = Boot
  Hourly = Hourly
  LimitTotal = 1
  LimitIP = 1
  AllocateCount = 0
  AllocateExpiry = 1
  SessionExpiry = 1
  Faults = {}
  MaxFaults = 0
  MaxBacklog = 1
  HoursPass = FALSE
SYMMETRY Symmetry
INVARIANT WithinTotal
