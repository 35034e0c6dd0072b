\* Goroutines, executors and the watchdog run as late as they like, processes
\* crash, and the wall clock is set back: what holds without any timing.
SPECIFICATION Spec
CONSTANTS
  Execs = {e1}
  Callback = 3
  LockLimit = 0
  Response = 4
  Timely = FALSE
  Steps <- MCBack
  None = None
VIEW WithoutHistories
INVARIANTS AnswersMatch
PROPERTIES ImplementsSwitch PulseNeedsHeartbeat
