\* Every command of turbo: sources of two files, two starts on one output; the
\* times of the demo and of the server, in periods of the heartbeat.  And every
\* driver, on both sides.
SPECIFICATION ProgramSpec
CONSTANTS
  Timeout = 5
  Period = 1
  Poll = 1
  Late = 4
  Duration = 3
  Grace = 5
  Files = 2
  Contents <- MCContents
  Layouts <- MCLayouts
  Attempts = 2
  Tasks = {"timer", "callback", "service", "custom", "cpp", "action", "tf", "bag", "capture", "dds", "check"}
  MaxSent = 6
  None = None
  Nothing = Nothing
INVARIANTS EStopIsAudited TripsWhenSilent ReportIsComplete NoSurvivors EquivalenceIsEarned
PROPERTIES HarnessEnds
CHECK_DEADLOCK FALSE
