SPECIFICATION FairSpec
CONSTANTS
  a = a
  c1 = c1
  Jobs = {a}
  FixJob <- MCOwn
  Clickers = {c1}
  NoJob = NoJob
  Pressed <- MCPressed
  MaxCommands = 3
  MaxRestarts = 1
INVARIANT TypeOK
INVARIANT RerunIsOfTheRunShown
INVARIANT NeverLoopsBack
 
PROPERTY ConvertIsFollowed
CHECK_DEADLOCK FALSE
