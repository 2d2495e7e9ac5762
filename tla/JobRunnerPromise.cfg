SPECIFICATION FairSpec
CONSTANTS
  story = story
  bench = bench
  convert = convert
  generate = generate
  review = review
  tests = tests
  testsResult = testsResult
  Jobs = {story}
  WorkbenchJobs <- MCWorkbenchJobs
  Runnables = {convert, tests}
  Exclusive <- MCExclusive
  AgentRunnables <- MCAgentRunnables
  WorkbenchRunnables <- MCWorkbenchRunnables
  Files = {testsResult}
  NoFile = NoFile
  FileOf <- MCFileOf
  Requests = {r1, r2}
  Stoppers = {s1}
  MaxStarts = 2
  MaxDeaths = 1
CHECK_DEADLOCK FALSE
PROPERTY KeepsThePromise
 
