SPECIFICATION FairSpec
CONSTANTS
  Servers = {s1, s2}
  Configured = {"nobody", s1}
  Caps = {FALSE}
  Callers = {"slim", "player"}
  Questions = {"time", "time 10"}
  Covers <- MCCovers
  DeadAfter = 1
  MaxFailed = 1
  MaxWire = 3
  MaxWakes = 1
CHECK_DEADLOCK FALSE
INVARIANT TypeOK
INVARIANT CliOfSession
PROPERTY AnswersOwn
PROPERTY AskingEnds
PROPERTY SessionComesBack
