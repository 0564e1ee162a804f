SPECIFICATION ConsoleSpec
CONSTANTS
  MaxJobs = 2
  Sessions = {s1, s2}
  MaxTrouble = 2
  MaxLogins = 2
INVARIANTS ConsoleTypeOK SessionKept TableIsCurrent
PROPERTIES GenerateComesBack
CHECK_DEADLOCK FALSE
