SPECIFICATION Spec
CONSTANTS
  Inst = {i1, i2}
  IP = {a}
  NoIP = NoIP
  NoInst = NoInst
  Requests = {r1, r2}
  Workers = {w1}
  Boot = Boot
  Hourly = Hourly
  LimitTotal = 2
  LimitIP = 1
  AllocateCount = 1
  AllocateExpiry = 1
  SessionExpiry = 1
  Faults = {}
  MaxFaults = 0
  MaxBacklog = 1
  HoursPass = FALSE
SYMMETRY Symmetry
INVARIANTS TotalOvershoot IPOvershoot ActiveKept AllocatedKept TimersNotEarly
