----------------------------- MODULE ApprovePush -----------------------------
(***************************************************************************)
(* Approve & push (tools/agent/loop.py, cmd_approve): a job's change goes  *)
(* from the working tree to a branch of the remote.                        *)
(*                                                                         *)
(* A job of new tests waits for review. Its tests are run (mvnrun.py), the *)
(* AI Agent reads its diff (codereview.py), and Approve, after its checks, *)
(* builds a commit from the working tree on what the remote has, without a *)
(* checkout, and pushes it: to a branch of its own (branch first, then the *)
(* push) or onto the job's issue branch (push first, then the branch).     *)
(* A push can be refused or fail, the command can die between two steps,   *)
(* teammates push, and the person edits, commits, fetches and pulls.       *)
(*                                                                         *)
(* A file's content is the set of edits in it; a commit, as its hash does, *)
(* stands for its whole history: a branch is the sequence of its commits.  *)
(* Approve and a run of tests are never beside each other or themselves:   *)
(* that is OneExclusive of JobRunner. Only a change of new tests is        *)
(* modelled, and a person who types no branch name of their own.           *)
(***************************************************************************)
EXTENDS Naturals, Sequences, SequencesExt, FiniteSets

CONSTANTS
  Jobs, Files, Branches,
  FileOf,        \* the file each job changed
  OwnBranch,     \* policy prefix + job, or + story and job
  StoryBranch,   \* policy prefix + story, or NoBranch
  IssueBranch,   \* issuebranch.json's branch, or NoBranch
  Checkouts,     \* the branches that may be checked out
  TeamBranches,  \* the branches teammates push to
  Me, Team, NoJob, NoBranch,
  EditsAnyTime,  \* the person may edit while a run or Approve reads the tree
  MaxWaiting,    \* bound: jobs whose change waits
  MaxDone        \* bound: edits, commits, teammates' pushes and crashes together

ASSUME ApprovePushAssumption ==
  /\ FileOf \in [Jobs -> Files] /\ OwnBranch \in [Jobs -> Branches]
  /\ StoryBranch \in [Jobs -> Branches \cup {NoBranch}]
  /\ IssueBranch \in [Jobs -> Branches \cup {NoBranch}]
  /\ Checkouts \subseteq Branches /\ TeamBranches \subseteq Branches
  /\ Cardinality({Me, Team, NoJob}) = 3 /\ {Me, Team, NoJob} \cap Jobs = {}
  /\ NoBranch \notin Branches /\ EditsAnyTime \in BOOLEAN
  /\ MaxDone \in Nat /\ MaxWaiting \in Nat

VARIABLES
  local, origin, remote,  \* refs/heads, refs/remotes/<remote>, the remote itself
  head,                   \* the branch checked out
  tree,                   \* the working tree
  review,                 \* review.json: [state, branch, shown, ran]
  diff, codeReview,       \* proposed.diff; code-review.json: [of, ok]
  run, reading,           \* the run of tests and the code review under way
  app,                    \* Approve: [pc, job, branch, old, new]
  done,                   \* how many things the environment did
  tested, read, approved  \* history: contents whose tests passed, diffs the AI
                          \* Agent found no case fault in, edits in diffs approved

vars == <<local, origin, remote, head, tree, review, diff, codeReview, run, reading,
          app, done, tested, read, approved>>
refs == <<local, origin, remote, head>>
papers == <<review, diff, codeReview>>
working == <<run, reading, app>>
histories == <<tested, read, approved>>

Edit(by, n) == [by |-> by, n |-> n]
NoRef == <<>>                       \* the ref does not exist
IsRef(h) == h # NoRef
TreeOf(h) == Last(h).tree
Nothing == [from |-> {}, to |-> {}]
Idle == [pc |-> "idle", job |-> NoJob, branch |-> NoBranch, old |-> NoRef, new |-> NoRef]
AtRest == app.pc = "idle" /\ run.job = NoJob

\* The job's change: in the working tree, and as `git diff HEAD` shows it.
Content(j) == tree[FileOf[j]]
Shows(j) == [from |-> TreeOf(local[head])[FileOf[j]], to |-> Content(j)]

Adding(j) == IssueBranch[j] # NoBranch

-----------------------------------------------------------------------------
(* The changes of some jobs have been written, verified and shown. *)

Root == <<[by |-> Team, tree |-> [f \in Files |-> {}]]>>
StoryBranches == {StoryBranch[j] : j \in Jobs} \ {NoBranch}
Refs(there) == [b \in Branches |-> IF b \in Checkouts \cup TeamBranches \cup there THEN Root ELSE NoRef]

Init ==
  \* A story's branch may be there from an earlier job, pushed or only made.
  /\ \E made \in SUBSET StoryBranches : \E known \in SUBSET StoryBranches :
       local = Refs(made) /\ origin = Refs(known) /\ remote = Refs(known)
  /\ head \in Checkouts
  /\ \E waiting \in SUBSET Jobs :
       /\ waiting # {} /\ Cardinality(waiting) <= MaxWaiting
       /\ tree = [f \in Files |-> {Edit(j, 0) : j \in {i \in waiting : FileOf[i] = f}}]
       /\ review = [j \in Jobs |-> [state |-> IF j \in waiting THEN "pending-review" ELSE "none",
                                    branch |-> NoBranch, shown |-> tree[FileOf[j]],
                                    ran |-> [of |-> {}, ok |-> FALSE]]]
  /\ diff = [j \in Jobs |-> [from |-> {}, to |-> tree[FileOf[j]]]]
  /\ codeReview = [j \in Jobs |-> [of |-> Nothing, ok |-> FALSE]]
  /\ run = [job |-> NoJob, built |-> {}]
  /\ reading = [job |-> NoJob, of |-> Nothing]
  /\ app = Idle
  /\ done = 0
  /\ tested = [j \in Jobs |-> {}] /\ read = [j \in Jobs |-> {}] /\ approved = [j \in Jobs |-> {}]

-----------------------------------------------------------------------------
(* The run of the job's tests, and the code review *)

Runnable(j) == review[j].state \in {"pending-review", "pushed"}

StartRun(j) ==
  /\ AtRest /\ Runnable(j)
  /\ run' = [job |-> j, built |-> Content(j)]
  /\ UNCHANGED <<refs, tree, papers, reading, app, done, histories>>

\* Recorded with the hashes the files have when the run ends.
Record(j, ok) ==
  IF Runnable(j) THEN [review EXCEPT ![j].ran = [of |-> Content(j), ok |-> ok]] ELSE review

EndRun(ok) ==
  /\ run.job # NoJob
  /\ review' = Record(run.job, ok)
  /\ tested' = IF ok THEN [tested EXCEPT ![run.job] = @ \cup {run.built}] ELSE tested
  /\ run' = [job |-> NoJob, built |-> {}]
  /\ UNCHANGED <<refs, tree, diff, codeReview, reading, app, done, read, approved>>

\* jobs.start clears the file the review will write.
StartReview(j) ==
  /\ reading.job = NoJob /\ review[j].state = "pending-review"
  /\ codeReview' = [codeReview EXCEPT ![j] = [of |-> Nothing, ok |-> FALSE]]
  /\ reading' = [job |-> j, of |-> diff[j]]
  /\ UNCHANGED <<refs, tree, review, diff, run, app, done, histories>>

EndReview(ok) ==
  /\ reading.job # NoJob
  /\ codeReview' = [codeReview EXCEPT ![reading.job] = [of |-> reading.of, ok |-> ok]]
  /\ read' = IF ok THEN [read EXCEPT ![reading.job] = @ \cup {reading.of}] ELSE read
  /\ reading' = [job |-> NoJob, of |-> Nothing]
  /\ UNCHANGED <<refs, tree, review, diff, run, app, done, tested, approved>>

-----------------------------------------------------------------------------
(* Approve *)

\* require_green_run; before it, the same without the hashes.
GreenOnce(j) == review[j].ran.ok
Green(j) == review[j].ran.ok /\ review[j].ran.of = Content(j)

\* require_case_check: the code review is of the diff as it is now; before
\* it, the same without the diff's hash.
CaseCheckedOnce(j) == codeReview[j].ok
CaseChecked(j) == codeReview[j].ok /\ codeReview[j].of = Shows(j)
AsShown(j) == review[j].state = "pending-review" => Content(j) = review[j].shown

\* A story's branch that exists is an earlier job's.
BranchFor(j) ==
  CASE Adding(j) -> IssueBranch[j]
    [] ~Adding(j) /\ StoryBranch[j] # NoBranch
         /\ ~IsRef(local[StoryBranch[j]]) /\ ~IsRef(origin[StoryBranch[j]]) -> StoryBranch[j]
    [] OTHER -> OwnBranch[j]

\* The commit is there already, and only its push is owed.
OnlyPushOwed(j) ==
  review[j].state = "push-failed" /\ review[j].branch = BranchFor(j) /\ ~Adding(j)

\* The checks. proposed.diff is written anew in any case past the green run.
Approve(j) ==
  /\ AtRest /\ review[j].state \in {"pending-review", "push-failed"}
  /\ Green(j)
  /\ diff' = [diff EXCEPT ![j] = Shows(j)]
  /\ IF CaseChecked(j) /\ AsShown(j)
     THEN /\ app' = [Idle EXCEPT !.job = j, !.branch = BranchFor(j),
                       !.pc = IF Adding(j) THEN "fetch" ELSE IF OnlyPushOwed(j) THEN "repush" ELSE "build"]
          /\ approved' = [approved EXCEPT ![j] = @ \cup (Shows(j).to \ Shows(j).from)]
          /\ UNCHANGED review
     ELSE /\ review' = IF CaseChecked(j) THEN [review EXCEPT ![j].shown = Content(j)] ELSE review
          /\ UNCHANGED <<app, approved>>
  /\ UNCHANGED <<refs, tree, codeReview, run, reading, done, tested, read>>

FetchIssue ==
  /\ app.pc = "fetch"
  /\ \/ /\ origin' = [origin EXCEPT ![app.branch] = remote[app.branch]]
        /\ app' = [app EXCEPT !.pc = "build"]
     \/ app' = Idle /\ UNCHANGED origin
  /\ UNCHANGED <<local, remote, head, tree, papers, run, reading, done, histories>>

\* The remote branch the commit is built on: the issue branch, or the one
\* checked out.
Upstream == origin[IF Adding(app.job) THEN app.branch ELSE head]

\* Commits of the person's that the remote lacks touch the job's file too;
\* before it, the same unasked.
NotMixed(up) == FALSE
Mixed(up) ==
  /\ ~IsPrefix(local[head], up)
  /\ TreeOf(up)[FileOf[app.job]] # TreeOf(local[head])[FileOf[app.job]]
\* The branch the commit is for can take it.
BranchReady(up) ==
  LET here == local[app.branch] IN
  IF Adding(app.job) THEN IsPrefix(here, up) /\ (head = app.branch => here = up)
                     ELSE ~IsRef(here)

\* read-tree, add, write-tree, commit-tree: the job's file as it is now.
CommitOf(j, up) ==
  Append(up, [by |-> j, tree |-> [TreeOf(up) EXCEPT ![FileOf[j]] = Content(j)]])

Build ==
  /\ app.pc = "build"
  /\ app' = IF IsRef(Upstream) /\ ~Mixed(Upstream) /\ BranchReady(Upstream)
            THEN [app EXCEPT !.pc = "scan", !.old = local[app.branch],
                             !.new = CommitOf(app.job, Upstream)]
            ELSE Idle
  /\ UNCHANGED <<refs, tree, papers, run, reading, done, histories>>

\* The secret scan of exactly what would be published.
ScanClean ==
  /\ app.pc = "scan"
  /\ app' = [app EXCEPT !.pc = IF Adding(app.job) THEN "push" ELSE "branch"]
  /\ UNCHANGED <<refs, tree, papers, run, reading, done, histories>>

ScanFinds ==
  /\ app.pc = "scan"
  /\ review' = [review EXCEPT ![app.job].state = "pending-review"]
  /\ app' = Idle
  /\ UNCHANGED <<refs, tree, diff, codeReview, run, reading, done, histories>>

\* git update-ref for a branch of the job's own.
MakeBranch ==
  /\ app.pc = "branch"
  /\ local' = [local EXCEPT ![app.branch] = app.new]
  /\ app' = [app EXCEPT !.pc = "push"]
  /\ UNCHANGED <<origin, remote, head, tree, papers, run, reading, done, histories>>

\* The remote takes what moves its branch forward, no force.
Takes(new) == IsRef(new) /\ IsPrefix(remote[app.branch], new)
Published(new) ==
  /\ remote' = [remote EXCEPT ![app.branch] = new]
  /\ origin' = [origin EXCEPT ![app.branch] = new]

Push ==
  /\ app.pc = "push" /\ Takes(app.new)
  /\ Published(app.new)
  /\ app' = [app EXCEPT !.pc = IF Adding(app.job) THEN "move" ELSE "record"]
  /\ UNCHANGED <<local, head, tree, papers, run, reading, done, histories>>

\* Refused, or the network: with a branch of its own the commit is kept
\* there. Before it, a failure taken for a success, and one with no state.
PushCalledDone == [review EXCEPT ![app.job].state = "pushed", ![app.job].branch = app.branch]
PushForgotten == [review EXCEPT ![app.job].state = "error", ![app.job].branch = app.branch]
PushFailed == [review EXCEPT ![app.job].state = "push-failed", ![app.job].branch = app.branch]

PushFails ==
  /\ app.pc = "push"
  /\ review' = PushFailed
  /\ app' = Idle
  /\ UNCHANGED <<refs, tree, diff, codeReview, run, reading, done, histories>>

\* The issue branch here follows, from the value read when the commit was
\* built; when it moved meanwhile it is left, and Approve says so. Before it,
\* an update-ref that names no old value.
FollowsAnyway(b) == TRUE
Follows(b) == app.old = NoRef \/ local[b] = app.old

MoveBranch ==
  /\ app.pc = "move"
  /\ local' = IF Follows(app.branch) THEN [local EXCEPT ![app.branch] = app.new] ELSE local
  /\ app' = [app EXCEPT !.pc = "record"]
  /\ UNCHANGED <<origin, remote, head, tree, papers, run, reading, done, histories>>

\* Approving again: the commit is on the local branch.
PushAgain ==
  /\ app.pc = "repush"
  /\ \/ /\ Takes(local[app.branch]) /\ Published(local[app.branch])
        /\ app' = [app EXCEPT !.pc = "record"]
     \/ app' = Idle /\ UNCHANGED <<remote, origin>>
  /\ UNCHANGED <<local, head, tree, papers, run, reading, done, histories>>

WritePushed ==
  /\ app.pc = "record"
  /\ review' = [review EXCEPT ![app.job].state = "pushed", ![app.job].branch = app.branch]
  /\ app' = Idle
  /\ UNCHANGED <<refs, tree, diff, codeReview, run, reading, done, histories>>

-----------------------------------------------------------------------------
(* The person, the team and crashes *)

\* A line more in a file, or the person's own lines taken out again.
PersonEdits(f) ==
  /\ EditsAnyTime \/ AtRest
  /\ done < MaxDone
  /\ done' = done + 1
  /\ tree' = [tree EXCEPT ![f] = @ \cup {Edit(Me, done)}]
  /\ UNCHANGED <<refs, papers, working, histories>>

PersonUndoes(f) ==
  /\ EditsAnyTime \/ AtRest
  /\ tree' = [tree EXCEPT ![f] = TreeOf(local[head])[f] \cup {e \in @ : e.by # Me}]
  /\ tree' # tree
  /\ UNCHANGED <<refs, papers, working, done, histories>>

\* At any time, also while Approve is at work.
PersonCommits(f) ==
  /\ done < MaxDone
  /\ tree[f] # TreeOf(local[head])[f]
  /\ done' = done + 1
  /\ local' = [local EXCEPT ![head] = Append(@, [by |-> Me, tree |-> [TreeOf(@) EXCEPT ![f] = tree[f]]])]
  /\ UNCHANGED <<origin, remote, head, tree, papers, working, histories>>

PersonFetches ==
  /\ origin # remote
  /\ origin' = remote
  /\ UNCHANGED <<local, remote, head, tree, papers, working, done, histories>>

\* git pull --ff-only: refused over a changed file.
PersonPulls ==
  /\ app.pc = "idle" /\ run.job = NoJob
  /\ IsStrictPrefix(local[head], origin[head])
  /\ LET was == TreeOf(local[head])
         is == TreeOf(origin[head]) IN
     /\ \A f \in Files : is[f] # was[f] => tree[f] = was[f]
     /\ tree' = [f \in Files |-> IF is[f] # was[f] THEN is[f] ELSE tree[f]]
  /\ local' = [local EXCEPT ![head] = origin[head]]
  /\ UNCHANGED <<origin, remote, head, papers, working, done, histories>>

TeamCommit(h, f) == [by |-> Team, tree |-> [TreeOf(h) EXCEPT ![f] = @ \cup {Edit(Team, done)}]]
TeamPushes(b, f) ==
  /\ done < MaxDone /\ IsRef(remote[b])
  /\ done' = done + 1
  /\ remote' = [remote EXCEPT ![b] = Append(@, TeamCommit(@, f))]
  /\ UNCHANGED <<local, origin, head, tree, papers, working, histories>>

Crash ==
  /\ done < MaxDone /\ app.pc # "idle"
  /\ done' = done + 1
  /\ app' = Idle
  /\ UNCHANGED <<refs, tree, papers, run, reading, histories>>

Next ==
  \/ \E j \in Jobs : StartRun(j) \/ StartReview(j) \/ Approve(j)
  \/ \E ok \in BOOLEAN : EndRun(ok) \/ EndReview(ok)
  \/ FetchIssue \/ Build \/ ScanClean \/ ScanFinds \/ MakeBranch \/ Push \/ PushFails
  \/ MoveBranch \/ PushAgain \/ WritePushed
  \/ \E f \in Files : PersonEdits(f) \/ PersonUndoes(f) \/ PersonCommits(f)
  \/ \E b \in TeamBranches : \E f \in Files : TeamPushes(b, f)
  \/ PersonFetches \/ PersonPulls \/ Crash

Spec == Init /\ [][Next]_vars

-----------------------------------------------------------------------------
(* Properties *)

Edits == [by : Jobs \cup {Me, Team}, n : Nat]
Trees == [Files -> SUBSET Edits]
Histories == Seq([by : Jobs \cup {Me, Team}, tree : Trees])
Diffs == [from : SUBSET Edits, to : SUBSET Edits]

TypeOK ==
  /\ local \in [Branches -> Histories] /\ origin \in [Branches -> Histories]
  /\ remote \in [Branches -> Histories]
  /\ head \in Checkouts /\ IsRef(local[head])
  /\ tree \in Trees
  /\ review \in [Jobs -> [state : {"none", "pending-review", "push-failed", "pushed"},
                          branch : Branches \cup {NoBranch}, shown : SUBSET Edits,
                          ran : [of : SUBSET Edits, ok : BOOLEAN]]]
  /\ diff \in [Jobs -> Diffs] /\ codeReview \in [Jobs -> [of : Diffs, ok : BOOLEAN]]
  /\ run \in [job : Jobs \cup {NoJob}, built : SUBSET Edits]
  /\ reading \in [job : Jobs \cup {NoJob}, of : Diffs]
  /\ app \in [pc : {"idle", "fetch", "build", "repush", "scan", "branch", "push", "move", "record"},
              job : Jobs \cup {NoJob}, branch : Branches \cup {NoBranch},
              old : Histories, new : Histories]
  /\ done \in 0..MaxDone
  /\ tested \in [Jobs -> SUBSET SUBSET Edits] /\ read \in [Jobs -> SUBSET Diffs]
  /\ approved \in [Jobs -> SUBSET Edits]

\* The commits of a job on a branch of the remote: <<branch, place>>.
Pushed(j) == {bi \in UNION {{<<b, i>> : i \in DOMAIN remote[b]} : b \in Branches} :
                remote[bi[1]][bi[2]].by = j}
Held(j, bi) == remote[bi[1]][bi[2]].tree[FileOf[j]]
HeldBefore(j, bi) == remote[bi[1]][bi[2] - 1].tree[FileOf[j]]

\* require_green_run: what is on the remote under a job's name passed its
\* tests as it is there, through any failed pushes, rebuilt commits, crashes
\* and later edits of the same file.
PushedWasTested == \A j \in Jobs : \A bi \in Pushed(j) : Held(j, bi) \in tested[j]

\* require_case_check: and the AI Agent found no fault in that content
\* against its cases.
PushedWasRead ==
  \A j \in Jobs : \A bi \in Pushed(j) : \E d \in read[j] : d.to = Held(j, bi)

\* "What you approve is what you saw": a job's commit brings in no edit that
\* was not in an approved diff -- above all none of the person's own commits
\* that were never pushed.
OnlyWhatWasShown ==
  \A j \in Jobs : \A bi \in Pushed(j) : Held(j, bi) \ HeldBefore(j, bi) \subseteq approved[j]

\* Nor does it take out an edit the branch it is built on has: a teammate's
\* change of the same file. (Refuted when the remote branch is ahead of the
\* checked-out one.)
NothingUndone ==
  \A j \in Jobs : \A bi \in Pushed(j) : HeldBefore(j, bi) \subseteq Held(j, bi)

\* A job that reads "pushed" is on the remote branch it names; one whose push
\* failed has its commit on its own branch here, where it can be retried.
WhatIsSaidIsThere ==
  \A j \in Jobs : LET b == review[j].branch IN
    /\ review[j].state = "pushed" => \E bi \in Pushed(j) : bi[1] = b
    /\ review[j].state = "push-failed" /\ ~Adding(j) => \E i \in DOMAIN local[b] : local[b][i].by = j

\* No step loses a commit of a local branch, whatever the person commits
\* while Approve is between reading the branch and moving it.
LocalCommitsStay == [][\A b \in Branches : IsPrefix(local[b], local'[b])]_vars

=============================================================================
