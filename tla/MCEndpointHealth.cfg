SPECIFICATION FairSpec
CONSTANTS
  Requests = {r1}
  Checker = hc
  Timers = {t1, t2}
  None = None
  FailThreshold = 2
  MaxShift = 1
INVARIANTS RecoveryArmed RecoveryCancellable FailuresHandled EscalationFaithful
PROPERTIES RetirementSticks CooldownEnds RecoveriesExit MarksReturn
