---------------------------- MODULE MCApprovePush ----------------------------
(***************************************************************************)
(* Small instances of ApprovePush: one job on an issue branch and one on   *)
(* its story's branch, on the same file or on two.                         *)
(***************************************************************************)
EXTENDS ApprovePush, TLC

CONSTANTS issueJob, storyJob, f, g,
          develop, issue, featureStory, featureIssueJob, featureStoryJob

MCBranches == {develop, issue, featureStory, featureIssueJob, featureStoryJob}
MCFileOf == [j \in Jobs |-> f]
MCOwnBranch == [j \in Jobs |-> IF j = issueJob THEN featureIssueJob ELSE featureStoryJob]
MCStoryBranch == [j \in Jobs |-> featureStory]
MCIssueBranch == [j \in Jobs |-> IF j = issueJob THEN issue ELSE NoBranch]

=============================================================================
