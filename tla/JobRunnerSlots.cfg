SPECIFICATION Spec
CONSTANTS
  story = story
  bench = bench
  convert = convert
  generate = generate
  review = review
  tests = tests
  testsResult = testsResult
  Jobs = {story, bench}
  WorkbenchJobs <- MCWorkbenchJobs
  Runnables = {convert, generate, review}
  Exclusive <- MCExclusive
  AgentRunnables <- MCAgentRunnables
  WorkbenchRunnables <- MCWorkbenchRunnables
  Files = {testsResult}
  NoFile = NoFile
  FileOf <- MCFileOf
  Requests = {r1, r2}
  Stoppers = {}
  MaxStarts = 3
  MaxDeaths = 0
SYMMETRY Threads
INVARIANT TypeOK
INVARIANT RunsApart
INVARIANT NothingRunsUnseen
CHECK_DEADLOCK FALSE
