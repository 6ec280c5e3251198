SPECIFICATION FairSpec
CONSTANTS
  s1 = s1
  Unknown = Unknown
  Session = {s1}
  Life = 2
  Address <- Opened
  Skews <- OneOff
  MaxConsoles = 3
  LimitTotal = 1
  MaxEdits = 1
  MaxUpdates = 1
  MaxReloads = 1
  Faults = {"drop", "chunks", "config", "maintenance"}
INVARIANTS TypeOK SessionShown SpinnerExcused TermsNotNewer ClockWithinSkew
INVARIANTS TypedOnce ConsoleOrButton OneTerminal ClosesOwn
PROPERTIES CommandSeen StartSettles SessionLeft
