SPECIFICATION Spec
CONSTANTS
  Requests = {r1}
  Checker = hc
  Timers = {t1, t2}
  None = None
  FailThreshold = 1
  MaxShift = 0
INVARIANTS SupersededStaysQuiet
