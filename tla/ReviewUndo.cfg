SPECIFICATION Spec
CONSTANTS
  kept = kept
  new = new
  outside = outside
  t0 = t0
  agents = agents
  yours = yours
  jobA = jobA
  jobB = jobB
  Absent = Absent
  Clean = Clean
  NoProc = NoProc
  Texts = {t0, agents, yours}
  FirstTree <- MCFirstTree
  Jobs = {jobA}
  Files = {kept, new, outside}
  Roots = {kept, new}
  Procs = {p1}
  Attempts = 2
  RepeatDiscard = FALSE
  Commands = {"generate", "followup", "discard"}
  AgentFiles <- AgentAnywhere
  AgentPuts = {agents, t0, Absent}
  PersonFiles = {kept, new, outside}
  PersonPuts = {yours}
  BesideFiles = {kept, new}
  PersonCommits = FALSE
  CommitsIn = {"generate"}
  TimeoutsIn = {"generate"}
  Careful = TRUE
  MaxRuns = 2
  MaxEdits = 1
  MaxCrashes = 1
INVARIANT TypeOK
INVARIANT SettledIsYours
INVARIANT FollowupUndoesItself
CHECK_DEADLOCK FALSE
