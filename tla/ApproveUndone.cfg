SPECIFICATION Spec
CONSTANTS
  issueJob = issueJob
  storyJob = storyJob
  f = f
  g = g
  develop = develop
  issue = issue
  featureStory = featureStory
  featureIssueJob = featureIssueJob
  featureStoryJob = featureStoryJob
  Me = Me
  Team = Team
  NoJob = NoJob
  NoBranch = NoBranch
  Jobs = {issueJob, storyJob}
  Files = {f, g}
  Branches <- MCBranches
  FileOf <- MCFileOf
  OwnBranch <- MCOwnBranch
  StoryBranch <- MCStoryBranch
  IssueBranch <- MCIssueBranch
  Checkouts = {develop, issue}
  TeamBranches = {issue}
  EditsAnyTime = FALSE
  MaxWaiting = 1
  MaxDone = 2
INVARIANT NothingUndone
CHECK_DEADLOCK FALSE
