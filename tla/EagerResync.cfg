SPECIFICATION Spec
CONSTANTS
  Inst = {i1, i2}
  IP = {a}
  NoIP = NoIP
  NoInst = NoInst
  Requests = {r1}
  Workers = {}
  Boot = Boot
  Hourly = Hourly
  LimitTotal = 1
  LimitIP = 0
  AllocateCount = 0
  AllocateExpiry = 1
  SessionExpiry = 1
  Faults = {}
  MaxFaults = 0
  MaxBacklog = 1
  HoursPass = TRUE
SYMMETRY Symmetry
PROPERTY DropsOnlyOrphans
