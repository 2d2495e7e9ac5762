SPECIFICATION Spec
CONSTANTS
  kept = kept
  new = new
  outside = outside
  t0 = t0
  agents = agents
  yours = yours
  jobA = jobA
  jobB = jobB
  Absent = Absent
  Clean = Clean
  NoProc = NoProc
  Texts = {t0, agents, yours}
  FirstTree <- MCFirstTree
  Jobs = {jobA, jobB}
  Files = {kept, new}
  Roots = {kept, new}
  Procs = {p1, p2}
  Attempts = 1
  RepeatDiscard = FALSE
  Commands = {"generate", "followup", "discard"}
  AgentFiles <- AgentApart
  AgentPuts = {agents, Absent}
  PersonFiles = {}
  PersonPuts = {yours}
  BesideFiles = {}
  PersonCommits = FALSE
  CommitsIn = {}
  TimeoutsIn = {}
  Careful = TRUE
  MaxRuns = 3
  MaxEdits = 0
  MaxCrashes = 0
INVARIANT RunIsRecorded
INVARIANT OnlyItsOwnChanges
CHECK_DEADLOCK FALSE
