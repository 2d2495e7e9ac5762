SPECIFICATION FairSpec
CONSTANTS
  kept = kept
  new = new
  outside = outside
  t0 = t0
  agents = agents
  yours = yours
  jobA = jobA
  jobB = jobB
  Absent = Absent
  Clean = Clean
  NoProc = NoProc
  Texts = {t0, agents, yours}
  FirstTree <- MCFirstTree
  Jobs = {jobA}
  Files = {kept, new, outside}
  Roots = {kept, new}
  Procs = {p1}
  Attempts = 2
  RepeatDiscard = TRUE
  Commands = {"generate", "followup", "discard"}
  AgentFiles <- AgentAnywhere
  AgentPuts = {agents}
  PersonFiles = {kept, new, outside}
  PersonPuts = {yours}
  BesideFiles = {}
  PersonCommits = TRUE
  CommitsIn = {"generate"}
  TimeoutsIn = {"generate"}
  Careful = TRUE
  MaxRuns = 2
  MaxEdits = 2
  MaxCrashes = 1
 
PROPERTY EveryRunEnds
CHECK_DEADLOCK FALSE
