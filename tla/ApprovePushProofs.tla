-------------------------- MODULE ApprovePushProofs --------------------------
(***************************************************************************)
(* Theorems about ApprovePush, for any jobs, files, branches and bounds:   *)
(* the types, that no step -- the person's commits between two steps of    *)
(* Approve included -- loses a commit of a local branch, that a review is  *)
(* right about its push, and that what is pushed was tested, was read, and *)
(* adds no edit that was not shown.                                        *)
(***************************************************************************)
EXTENDS ApprovePush, FiniteSetTheorems, TLAPS

Commits == [by : Jobs \cup {Me, Team}, tree : Trees]

-----------------------------------------------------------------------------
(* Prefixes and histories *)

LEMMA PrefixReflexive ==
  ASSUME NEW S, NEW s \in Seq(S)
  PROVE  IsPrefix(s, s)
  BY DEF IsPrefix

LEMMA PrefixOfAppend ==
  ASSUME NEW S, NEW s \in Seq(S), NEW x \in S
  PROVE  Append(s, x) \in Seq(S) /\ Append(s, x) # <<>> /\ IsPrefix(s, Append(s, x))
<1>1. /\ Append(s, x) \in Seq(S) /\ Append(s, x) # <<>>
      /\ Len(Append(s, x)) = Len(s) + 1 /\ Len(s) \in Nat
      /\ \A i \in 1..Len(s) : Append(s, x)[i] = s[i]
  OBVIOUS
<1>2. SubSeq(s, 1, Len(s)) = SubSeq(Append(s, x), 1, Len(s))
  BY <1>1
<1> QED
  BY <1>1, <1>2 DEF IsPrefix

LEMMA EmptyIsPrefix ==
  ASSUME NEW S, NEW s \in Seq(S)
  PROVE  IsPrefix(<<>>, s)
  BY DEF IsPrefix

LEMMA PrefixTransitive ==
  ASSUME NEW S, NEW r \in Seq(S), NEW s \in Seq(S), NEW t \in Seq(S),
         IsPrefix(r, s), IsPrefix(s, t)
  PROVE  IsPrefix(r, t)
<1>1. /\ Len(r) <= Len(s) /\ Len(s) <= Len(t)
      /\ Len(r) \in Nat /\ Len(s) \in Nat /\ Len(t) \in Nat
  BY DEF IsPrefix
<1>2. ASSUME NEW i \in 1..Len(r) PROVE r[i] = t[i]
  <2>1. i \in 1..Len(s)
    BY <1>1
  <2>2. r[i] = SubSeq(r, 1, Len(r))[i] /\ s[i] = SubSeq(s, 1, Len(r))[i]
    BY <1>1
  <2>3. s[i] = SubSeq(s, 1, Len(s))[i] /\ t[i] = SubSeq(t, 1, Len(s))[i]
    BY <1>1, <2>1
  <2> QED
    BY <2>2, <2>3 DEF IsPrefix
<1>3. SubSeq(r, 1, Len(r)) = SubSeq(t, 1, Len(r))
  BY <1>1, <1>2
<1> QED
  BY <1>1, <1>3 DEF IsPrefix

\* A branch that has a longer one is a ref only if that one is.
LEMMA LongerIsRef ==
  ASSUME NEW S, NEW s \in Seq(S), NEW t \in Seq(S), IsPrefix(s, t), s # t \/ s # <<>>
  PROVE  t # <<>>
  BY DEF IsPrefix

LEMMA HistoryTyped ==
  ASSUME NEW h \in Histories
  PROVE  /\ h \in Seq(Commits)
         /\ IsRef(h) => TreeOf(h) \in Trees
         /\ \A c \in Commits : Append(h, c) \in Histories /\ IsRef(Append(h, c))
<1>1. h \in Seq(Commits) /\ Histories = Seq(Commits)
  BY DEF Histories, Commits
<1>2. IsRef(h) => h[Len(h)] \in Commits
  BY <1>1 DEF IsRef, NoRef
<1>3. IsRef(h) => TreeOf(h) \in Trees
  BY <1>2 DEF TreeOf, Last, Commits
<1>4. ASSUME NEW c \in Commits PROVE Append(h, c) \in Histories /\ IsRef(Append(h, c))
  BY <1>1, PrefixOfAppend DEF IsRef, NoRef
<1> QED
  BY <1>1, <1>3, <1>4

LEMMA EditsTyped ==
  /\ \A j \in Jobs : Edit(j, 0) \in Edits
  /\ \A n \in Nat : Edit(Me, n) \in Edits /\ Edit(Team, n) \in Edits
  BY DEF Edit, Edits

LEMMA ShowsTyped ==
  ASSUME TypeOK, NEW j \in Jobs
  PROVE  /\ Content(j) \in SUBSET Edits
         /\ Shows(j) \in Diffs
         /\ BranchFor(j) \in Branches
<1>1. FileOf[j] \in Files
  BY ApprovePushAssumption
<1>2. Content(j) \in SUBSET Edits
  BY <1>1 DEF Content, TypeOK, Trees
<1>3. local[head] \in Histories /\ IsRef(local[head])
  BY ApprovePushAssumption DEF TypeOK
<1>4. TreeOf(local[head])[FileOf[j]] \in SUBSET Edits
  BY <1>1, <1>3, HistoryTyped DEF Trees
<1>5. Shows(j) \in Diffs
  BY <1>2, <1>4 DEF Shows, Diffs
<1>6. BranchFor(j) \in Branches
  BY ApprovePushAssumption DEF BranchFor, Adding
<1> QED
  BY <1>2, <1>5, <1>6

-----------------------------------------------------------------------------
(* Types *)

ReviewType ==
  [state : {"none", "pending-review", "push-failed", "pushed"},
   branch : Branches \cup {NoBranch}, shown : SUBSET Edits,
   ran : [of : SUBSET Edits, ok : BOOLEAN]]

\* What Approve and a run of tests write into a review.
LEMMA ReviewsTyped ==
  ASSUME TypeOK, NEW j
  PROVE  /\ \A r \in [of : SUBSET Edits, ok : BOOLEAN] :
              [review EXCEPT ![j].ran = r] \in [Jobs -> ReviewType]
         /\ \A s \in SUBSET Edits : [review EXCEPT ![j].shown = s] \in [Jobs -> ReviewType]
         /\ \A st \in {"pending-review", "push-failed", "pushed"} :
              \A b \in Branches \cup {NoBranch} :
                /\ [review EXCEPT ![j].state = st] \in [Jobs -> ReviewType]
                /\ [review EXCEPT ![j].state = st, ![j].branch = b] \in [Jobs -> ReviewType]
<1>1. review \in [Jobs -> ReviewType]
  BY DEF TypeOK, ReviewType
<1>2. ASSUME NEW r \in [of : SUBSET Edits, ok : BOOLEAN]
      PROVE  [review EXCEPT ![j].ran = r] \in [Jobs -> ReviewType]
  <2>1. [review EXCEPT ![j].ran = r]
          = [x \in Jobs |-> IF x = j THEN [review[x] EXCEPT !.ran = r] ELSE review[x]]
    BY <1>1
  <2>2. \A x \in Jobs : [review[x] EXCEPT !.ran = r] \in ReviewType
    BY <1>1 DEF ReviewType
  <2> QED
    BY <1>1, <2>1, <2>2
<1>3. ASSUME NEW s \in SUBSET Edits
      PROVE  [review EXCEPT ![j].shown = s] \in [Jobs -> ReviewType]
  BY <1>1 DEF ReviewType
<1>4. ASSUME NEW st \in {"pending-review", "push-failed", "pushed"},
             NEW b \in Branches \cup {NoBranch}
      PROVE  /\ [review EXCEPT ![j].state = st] \in [Jobs -> ReviewType]
             /\ [review EXCEPT ![j].state = st, ![j].branch = b] \in [Jobs -> ReviewType]
  <2>1. [review EXCEPT ![j].state = st] \in [Jobs -> ReviewType]
    BY <1>1 DEF ReviewType
  <2>2. [review EXCEPT ![j].state = st, ![j].branch = b]
          = [x \in Jobs |-> IF x = j THEN [review[x] EXCEPT !.state = st, !.branch = b] ELSE review[x]]
    BY <1>1
  <2>3. \A x \in Jobs : [review[x] EXCEPT !.state = st, !.branch = b] \in ReviewType
    BY <1>1 DEF ReviewType
  <2> QED
    BY <1>1, <2>1, <2>2, <2>3
<1> QED
  BY <1>2, <1>3, <1>4

\* Approve at work has a job and a branch; a commit it has built continues
\* what the branch was when the commit was built; and a branch that was not
\* there is not there yet.
Placed == app.pc # "idle" => app.job \in Jobs /\ app.branch \in Branches
Continues ==
  app.pc \in {"scan", "branch", "push", "move"} => IsRef(app.new) /\ IsPrefix(app.old, app.new)
Unmade ==
  app.pc \in {"scan", "branch"} \/ (app.pc \in {"push", "move"} /\ Adding(app.job))
    => (app.old = NoRef => local[app.branch] = NoRef)
OnItsPath ==
  /\ app.pc = "branch" => ~Adding(app.job)
  /\ app.pc = "move" => Adding(app.job)
  /\ app.pc = "scan" /\ ~Adding(app.job) => app.old = NoRef
  /\ app.pc = "branch" => app.old = NoRef
Underway == Placed /\ Continues /\ Unmade /\ OnItsPath

LEMMA RootTyped ==
  /\ Root \in Histories /\ NoRef \in Histories /\ IsRef(Root)
  /\ \A there : Refs(there) \in [Branches -> Histories]
<1>1. [f \in Files |-> {}] \in Trees
  BY DEF Trees
<1>2. Root \in Histories /\ NoRef \in Histories /\ IsRef(Root)
  BY <1>1 DEF Root, NoRef, IsRef, Histories
<1> QED
  BY <1>2 DEF Refs

LEMMA InitTyped == Init => TypeOK /\ Underway
<1> SUFFICES ASSUME Init PROVE TypeOK /\ Underway
  OBVIOUS
<1>1. /\ local \in [Branches -> Histories] /\ origin \in [Branches -> Histories]
      /\ remote \in [Branches -> Histories] /\ head \in Checkouts
  BY RootTyped DEF Init
<1>2. IsRef(local[head])
  BY <1>1, RootTyped, ApprovePushAssumption DEF Init, Refs
<1>3. tree \in Trees
  BY EditsTyped DEF Init, Trees
<1>4. \A j \in Jobs : tree[FileOf[j]] \in SUBSET Edits
  BY <1>3, ApprovePushAssumption DEF Trees
<1>5. review \in [Jobs -> [state : {"none", "pending-review", "push-failed", "pushed"},
                           branch : Branches \cup {NoBranch}, shown : SUBSET Edits,
                           ran : [of : SUBSET Edits, ok : BOOLEAN]]]
  BY <1>4 DEF Init
<1>6. /\ diff \in [Jobs -> Diffs] /\ codeReview \in [Jobs -> [of : Diffs, ok : BOOLEAN]]
      /\ reading \in [job : Jobs \cup {NoJob}, of : Diffs]
      /\ run \in [job : Jobs \cup {NoJob}, built : SUBSET Edits]
  BY <1>4 DEF Init, Diffs, Nothing
<1>7. app \in [pc : {"idle", "fetch", "build", "repush", "scan", "branch", "push", "move", "record"},
               job : Jobs \cup {NoJob}, branch : Branches \cup {NoBranch},
               old : Histories, new : Histories]
  BY RootTyped DEF Init, Idle
<1>8. /\ done \in 0..MaxDone /\ tested \in [Jobs -> SUBSET SUBSET Edits]
      /\ read \in [Jobs -> SUBSET Diffs] /\ approved \in [Jobs -> SUBSET Edits]
  BY ApprovePushAssumption DEF Init
<1>9. Underway
  BY DEF Init, Idle, Underway, Placed, Continues, Unmade, OnItsPath
<1> QED
  BY <1>1, <1>2, <1>3, <1>5, <1>6, <1>7, <1>8, <1>9 DEF TypeOK

\* Steps that are not Approve's.
LEMMA OthersTyped ==
  ASSUME TypeOK, Underway
  PROVE  /\ \A j \in Jobs : StartRun(j) \/ StartReview(j) => TypeOK'
         /\ \A ok \in BOOLEAN : EndRun(ok) \/ EndReview(ok) => TypeOK'
         /\ PersonFetches \/ PersonPulls \/ Crash => TypeOK'
         /\ \A f \in Files : PersonEdits(f) \/ PersonUndoes(f) \/ PersonCommits(f) => TypeOK'
         /\ \A b \in TeamBranches : \A f \in Files : TeamPushes(b, f) => TypeOK'
<1> USE DEF refs, papers, working, histories
<1>a. local[head] \in Histories /\ IsRef(local[head]) /\ head \in Branches
  BY ApprovePushAssumption DEF TypeOK
<1>b. TreeOf(local[head]) \in Trees
  BY <1>a, HistoryTyped
<1>c. done < MaxDone => done + 1 \in 0..MaxDone /\ done \in Nat
  BY ApprovePushAssumption DEF TypeOK
<1>1. ASSUME NEW j \in Jobs, StartRun(j) PROVE TypeOK'
  BY <1>1, ShowsTyped DEF StartRun, TypeOK
<1>2. ASSUME NEW j \in Jobs, StartReview(j) PROVE TypeOK'
  <2>1. Nothing \in Diffs /\ diff[j] \in Diffs
    BY DEF Nothing, Diffs, TypeOK
  <2> QED
    BY <1>2, <2>1 DEF StartReview, TypeOK
<1>3. ASSUME NEW ok \in BOOLEAN, EndRun(ok) PROVE TypeOK'
  <2>1. run.job \in Jobs /\ run.built \in SUBSET Edits
    BY <1>3 DEF EndRun, TypeOK
  <2>2. [of |-> Content(run.job), ok |-> ok] \in [of : SUBSET Edits, ok : BOOLEAN]
    BY <2>1, ShowsTyped
  <2>3. review' \in [Jobs -> ReviewType]
    BY <1>3, <2>2, ReviewsTyped DEF EndRun, Record, TypeOK, ReviewType
  <2>4. tested' \in [Jobs -> SUBSET SUBSET Edits]
    BY <1>3, <2>1 DEF EndRun, TypeOK
  <2> QED
    BY <1>3, <2>3, <2>4 DEF EndRun, TypeOK, ReviewType
<1>4. ASSUME NEW ok \in BOOLEAN, EndReview(ok) PROVE TypeOK'
  <2>1. reading.job \in Jobs /\ reading.of \in Diffs /\ Nothing \in Diffs
    BY <1>4 DEF EndReview, TypeOK, Nothing, Diffs
  <2>2. codeReview' \in [Jobs -> [of : Diffs, ok : BOOLEAN]]
    BY <1>4, <2>1 DEF EndReview, TypeOK
  <2>3. read' \in [Jobs -> SUBSET Diffs]
    BY <1>4, <2>1 DEF EndReview, TypeOK
  <2>4. reading' \in [job : Jobs \cup {NoJob}, of : Diffs]
    BY <1>4, <2>1 DEF EndReview
  <2> QED
    BY <1>4, <2>2, <2>3, <2>4 DEF EndReview, TypeOK
<1>5. ASSUME NEW f \in Files, PersonEdits(f) PROVE TypeOK'
  <2>1. tree' \in Trees
    BY <1>5, <1>c, EditsTyped DEF PersonEdits, TypeOK, Trees
  <2> QED
    BY <1>5, <1>c, <2>1 DEF PersonEdits, TypeOK
<1>6. ASSUME NEW f \in Files, PersonUndoes(f) PROVE TypeOK'
  <2>1. tree' \in Trees
    BY <1>6, <1>b DEF PersonUndoes, TypeOK, Trees
  <2> QED
    BY <1>6, <2>1 DEF PersonUndoes, TypeOK
<1>7. ASSUME NEW f \in Files, PersonCommits(f) PROVE TypeOK'
  <2> DEFINE c == [by |-> Me, tree |-> [TreeOf(local[head]) EXCEPT ![f] = tree[f]]]
  <2>1. c \in Commits
    BY <1>b DEF Commits, Trees, TypeOK
  <2>2. Append(local[head], c) \in Histories /\ IsRef(Append(local[head], c))
    BY <1>a, <2>1, HistoryTyped
  <2>3. local' = [local EXCEPT ![head] = Append(local[head], c)]
    BY <1>7 DEF PersonCommits
  <2>4. local' \in [Branches -> Histories] /\ IsRef(local'[head])
    BY <1>a, <2>2, <2>3 DEF TypeOK
  <2> QED
    BY <1>7, <1>c, <2>4 DEF PersonCommits, TypeOK
<1>8. ASSUME PersonFetches PROVE TypeOK'
  BY <1>8 DEF PersonFetches, TypeOK
<1>9. ASSUME PersonPulls PROVE TypeOK'
  <2>1. origin[head] \in Histories /\ IsRef(origin[head])
    <3>1. local[head] \in Seq(Commits) /\ origin[head] \in Seq(Commits) /\ origin[head] \in Histories
      BY <1>a, HistoryTyped DEF TypeOK
    <3>2. IsPrefix(local[head], origin[head]) /\ local[head] # origin[head]
      BY <1>9 DEF PersonPulls, IsStrictPrefix
    <3> QED
      BY <3>1, <3>2, LongerIsRef DEF IsRef, NoRef
  <2>2. TreeOf(origin[head]) \in Trees
    BY <2>1, HistoryTyped
  <2>3. tree' \in Trees
    BY <1>9, <2>2 DEF PersonPulls, TypeOK, Trees
  <2>4. local' \in [Branches -> Histories] /\ IsRef(local'[head])
    BY <1>9, <1>a, <2>1 DEF PersonPulls, TypeOK
  <2> QED
    BY <1>9, <2>3, <2>4 DEF PersonPulls, TypeOK
<1>10. ASSUME Crash PROVE TypeOK'
  BY <1>10, <1>c, RootTyped DEF Crash, Idle, TypeOK
<1>11. ASSUME NEW b \in TeamBranches, NEW f \in Files, TeamPushes(b, f) PROVE TypeOK'
  <2> DEFINE h == remote[b]
             c == TeamCommit(h, f)
  <2>1. b \in Branches /\ h \in Histories /\ IsRef(h)
    BY <1>11, ApprovePushAssumption DEF TeamPushes, TypeOK
  <2>2. Edit(Team, done) \in Edits
    BY <1>11, <1>c, EditsTyped DEF TeamPushes
  <2>3. TreeOf(h) \in Trees
    BY <2>1, HistoryTyped
  <2>4. c \in Commits
    BY <2>2, <2>3 DEF TeamCommit, Commits, Trees
  <2>5. Append(h, c) \in Histories
    BY <2>1, <2>4, HistoryTyped
  <2>6. remote' = [remote EXCEPT ![b] = Append(h, c)]
    BY <1>11 DEF TeamPushes
  <2>7. remote' \in [Branches -> Histories]
    BY <2>1, <2>5, <2>6 DEF TypeOK
  <2> QED
    BY <1>11, <1>c, <2>7 DEF TeamPushes, TypeOK
<1> QED
  BY <1>1, <1>2, <1>3, <1>4, <1>5, <1>6, <1>7, <1>8, <1>9, <1>10, <1>11

LEMMA BuiltTyped ==
  ASSUME TypeOK, app.job \in Jobs, NEW up \in Histories, IsRef(up)
  PROVE  /\ CommitOf(app.job, up) \in Histories /\ IsRef(CommitOf(app.job, up))
         /\ IsPrefix(up, CommitOf(app.job, up))
<1> DEFINE c == [by |-> app.job,
                 tree |-> [TreeOf(up) EXCEPT ![FileOf[app.job]] = Content(app.job)]]
<1>1. TreeOf(up) \in Trees /\ up \in Seq(Commits)
  BY HistoryTyped
<1>2. Content(app.job) \in SUBSET Edits
  BY ShowsTyped
<1>3. c \in Commits
  BY <1>1, <1>2 DEF Commits, Trees
<1>4. CommitOf(app.job, up) = Append(up, c)
  BY DEF CommitOf
<1> QED
  BY <1>1, <1>3, <1>4, HistoryTyped, PrefixOfAppend

\* Approve's steps.
LEMMA ApproveTyped ==
  ASSUME TypeOK, Underway
  PROVE  /\ \A j \in Jobs : Approve(j) => TypeOK' /\ Underway'
         /\ FetchIssue \/ Build \/ ScanClean \/ ScanFinds \/ MakeBranch \/ Push \/ PushFails
              => TypeOK' /\ Underway'
         /\ MoveBranch \/ PushAgain \/ WritePushed => TypeOK' /\ Underway'
<1> USE DEF refs, papers, working, histories, Underway
<1> DEFINE AppType == [pc : {"idle", "fetch", "build", "repush", "scan", "branch", "push", "move", "record"},
                       job : Jobs \cup {NoJob}, branch : Branches \cup {NoBranch},
                       old : Histories, new : Histories]
<1>a. app \in AppType /\ Idle \in AppType /\ Idle.pc = "idle"
  BY RootTyped DEF TypeOK, Idle
<1>b. ASSUME app' = Idle PROVE Underway'
  BY <1>a, <1>b DEF Placed, Continues, Unmade, OnItsPath
<1>c. head \in Branches
  BY ApprovePushAssumption DEF TypeOK
<1>1. ASSUME NEW j \in Jobs, Approve(j) PROVE TypeOK' /\ Underway'
  <2>1. Shows(j) \in Diffs /\ Content(j) \in SUBSET Edits /\ BranchFor(j) \in Branches
    BY ShowsTyped
  <2>2. diff' \in [Jobs -> Diffs]
    BY <1>1, <2>1 DEF Approve, TypeOK
  <2>3. CASE CaseChecked(j) /\ AsShown(j)
    <3>1. /\ app' = [Idle EXCEPT !.job = j, !.branch = BranchFor(j),
                       !.pc = IF Adding(j) THEN "fetch" ELSE IF OnlyPushOwed(j) THEN "repush" ELSE "build"]
          /\ approved' = [approved EXCEPT ![j] = @ \cup (Shows(j).to \ Shows(j).from)]
          /\ UNCHANGED review
      BY <1>1, <2>3 DEF Approve
    <3>2. app' \in AppType /\ app'.job \in Jobs /\ app'.branch \in Branches
            /\ app'.pc \in {"fetch", "build", "repush"}
      BY <1>a, <2>1, <3>1 DEF Idle
    <3>3. Shows(j).to \in SUBSET Edits
      BY <2>1 DEF Diffs
    <3>4. approved' \in [Jobs -> SUBSET Edits]
      BY <3>1, <3>3 DEF TypeOK
    <3>5. Underway'
      BY <3>2 DEF Placed, Continues, Unmade, OnItsPath
    <3> QED
      BY <1>1, <2>2, <3>1, <3>2, <3>4, <3>5 DEF Approve, TypeOK
  <2>4. CASE ~(CaseChecked(j) /\ AsShown(j))
    <3>1. /\ review' = IF CaseChecked(j) THEN [review EXCEPT ![j].shown = Content(j)] ELSE review
          /\ UNCHANGED <<app, approved>>
      BY <1>1, <2>4 DEF Approve
    <3>2. review' \in [Jobs -> ReviewType]
      BY <2>1, <3>1, ReviewsTyped DEF TypeOK, ReviewType
    <3>3. Underway'
      BY <1>1, <3>1 DEF Approve, Placed, Continues, Unmade, OnItsPath
    <3> QED
      BY <1>1, <2>2, <3>1, <3>2, <3>3 DEF Approve, TypeOK, ReviewType
  <2> QED
    BY <2>3, <2>4
<1>2. ASSUME FetchIssue PROVE TypeOK' /\ Underway'
  <2>1. origin' \in [Branches -> Histories]
    <3>1. app.branch \in Branches
      BY <1>2 DEF FetchIssue, Placed
    <3>2. remote[app.branch] \in Histories /\ origin \in [Branches -> Histories]
      BY <3>1 DEF TypeOK
    <3>3. origin' = [origin EXCEPT ![app.branch] = remote[app.branch]] \/ origin' = origin
      BY <1>2 DEF FetchIssue
    <3> QED
      BY <3>2, <3>3
  <2>2. app' \in AppType
    BY <1>2, <1>a DEF FetchIssue
  <2>3. Underway'
    BY <1>2, <1>a, <1>b DEF FetchIssue, Placed, Continues, Unmade, OnItsPath
  <2> QED
    BY <1>2, <2>1, <2>2, <2>3 DEF FetchIssue, TypeOK
<1>3. ASSUME Build PROVE TypeOK' /\ Underway'
  <2>1. app.job \in Jobs /\ app.branch \in Branches /\ local[app.branch] \in Histories
    BY <1>3 DEF Build, Placed, TypeOK
  <2>2. Upstream \in Histories
    BY <2>1, <1>c DEF Upstream, TypeOK
  <2>3. CASE IsRef(Upstream) /\ ~Mixed(Upstream) /\ BranchReady(Upstream)
    <3> DEFINE new == CommitOf(app.job, Upstream)
    <3>1. app' = [app EXCEPT !.pc = "scan", !.old = local[app.branch], !.new = new]
      BY <1>3, <2>3 DEF Build
    <3>2. new \in Histories /\ IsRef(new) /\ IsPrefix(Upstream, new)
      BY <2>1, <2>2, <2>3, BuiltTyped
    <3>3. app' \in AppType /\ app'.pc = "scan" /\ app'.job = app.job /\ app'.branch = app.branch
            /\ app'.old = local[app.branch] /\ app'.new = new
      BY <1>a, <2>1, <3>1, <3>2
    <3>4. IsPrefix(local[app.branch], new)
      <4>1. CASE Adding(app.job)
        <5>1. IsPrefix(local[app.branch], Upstream)
          BY <2>3, <4>1 DEF BranchReady
        <5>2. local[app.branch] \in Seq(Commits) /\ Upstream \in Seq(Commits) /\ new \in Seq(Commits)
          BY <2>1, <2>2, <3>2, HistoryTyped
        <5> QED
          BY <3>2, <5>1, <5>2, PrefixTransitive
      <4>2. CASE ~Adding(app.job)
        <5>1. local[app.branch] = <<>>
          BY <2>3, <4>2 DEF BranchReady, IsRef, NoRef
        <5>2. new \in Seq(Commits)
          BY <3>2, HistoryTyped
        <5> QED
          BY <5>1, <5>2, EmptyIsPrefix
      <4> QED
        BY <4>1, <4>2
    <3>5. ~Adding(app.job) => local[app.branch] = NoRef
      BY <2>3 DEF BranchReady, IsRef
    <3>6. Placed' /\ Continues'
      BY <2>1, <3>2, <3>3, <3>4 DEF Placed, Continues
    <3>7. Unmade' /\ OnItsPath'
      BY <1>3, <3>3, <3>5 DEF Build, Unmade, OnItsPath, Adding
    <3> QED
      BY <1>3, <3>3, <3>6, <3>7 DEF Build, TypeOK
  <2>4. CASE ~(IsRef(Upstream) /\ ~Mixed(Upstream) /\ BranchReady(Upstream))
    BY <1>3, <1>a, <1>b, <2>4 DEF Build, TypeOK
  <2> QED
    BY <2>3, <2>4
<1>4. ASSUME ScanClean PROVE TypeOK' /\ Underway'
  <2>1. app' \in AppType /\ app'.pc = (IF Adding(app.job) THEN "push" ELSE "branch")
          /\ app'.job = app.job /\ app'.branch = app.branch /\ app'.old = app.old /\ app'.new = app.new
    BY <1>4, <1>a DEF ScanClean
  <2>2. Underway'
    BY <1>4, <2>1 DEF ScanClean, Placed, Continues, Unmade, OnItsPath, Adding
  <2> QED
    BY <1>4, <2>1, <2>2 DEF ScanClean, TypeOK
<1>5. ASSUME ScanFinds PROVE TypeOK' /\ Underway'
  <2>1. review' \in [Jobs -> ReviewType]
    BY <1>5, <1>a, ReviewsTyped DEF ScanFinds
  <2> QED
    BY <1>5, <1>a, <1>b, <2>1 DEF ScanFinds, TypeOK, ReviewType
<1>6. ASSUME MakeBranch PROVE TypeOK' /\ Underway'
  <2>1. app.branch \in Branches /\ app.new \in Histories /\ IsRef(app.new)
    BY <1>6, <1>a DEF MakeBranch, Placed, Continues
  <2>2. local' \in [Branches -> Histories] /\ IsRef(local'[head])
    BY <1>6, <2>1, <1>c DEF MakeBranch, TypeOK
  <2>3. app' \in AppType /\ app'.pc = "push" /\ app'.job = app.job /\ app'.branch = app.branch
          /\ app'.old = app.old /\ app'.new = app.new
    BY <1>6, <1>a DEF MakeBranch
  <2>4. Underway'
    BY <1>6, <2>3 DEF MakeBranch, Placed, Continues, Unmade, OnItsPath, Adding
  <2> QED
    BY <1>6, <2>2, <2>3, <2>4 DEF MakeBranch, TypeOK
<1>7. ASSUME Push PROVE TypeOK' /\ Underway'
  <2>1. app.branch \in Branches /\ app.new \in Histories
    BY <1>7, <1>a DEF Push, Placed
  <2>2. remote' \in [Branches -> Histories] /\ origin' \in [Branches -> Histories]
    BY <1>7, <2>1 DEF Push, Published, TypeOK
  <2>3. app' \in AppType /\ app'.pc = (IF Adding(app.job) THEN "move" ELSE "record")
          /\ app'.job = app.job /\ app'.branch = app.branch /\ app'.old = app.old /\ app'.new = app.new
    BY <1>7, <1>a DEF Push
  <2>4. Underway'
    BY <1>7, <2>3 DEF Push, Placed, Continues, Unmade, OnItsPath, Adding
  <2> QED
    BY <1>7, <2>2, <2>3, <2>4 DEF Push, TypeOK
<1>8. ASSUME PushFails PROVE TypeOK' /\ Underway'
  <2>1. review' \in [Jobs -> ReviewType]
    BY <1>8, <1>a, ReviewsTyped DEF PushFails, PushFailed
  <2> QED
    BY <1>8, <1>a, <1>b, <2>1 DEF PushFails, TypeOK, ReviewType
<1>9. ASSUME MoveBranch PROVE TypeOK' /\ Underway'
  <2>1. app.branch \in Branches /\ app.new \in Histories /\ IsRef(app.new)
    BY <1>9, <1>a DEF MoveBranch, Placed, Continues
  <2>2. local' \in [Branches -> Histories] /\ IsRef(local'[head])
    BY <1>9, <2>1, <1>c DEF MoveBranch, TypeOK
  <2>3. app' \in AppType /\ app'.pc = "record" /\ app'.job = app.job /\ app'.branch = app.branch
    BY <1>9, <1>a DEF MoveBranch
  <2>4. Underway'
    BY <1>9, <2>3 DEF MoveBranch, Placed, Continues, Unmade, OnItsPath
  <2> QED
    BY <1>9, <2>2, <2>3, <2>4 DEF MoveBranch, TypeOK
<1>10. ASSUME PushAgain PROVE TypeOK' /\ Underway'
  <2>1. app.branch \in Branches /\ local[app.branch] \in Histories
    BY <1>10 DEF PushAgain, Placed, TypeOK
  <2>2. remote' \in [Branches -> Histories] /\ origin' \in [Branches -> Histories]
    BY <1>10, <2>1 DEF PushAgain, Published, TypeOK
  <2>3. app' \in AppType
    BY <1>10, <1>a DEF PushAgain
  <2>4. Underway'
    BY <1>10, <1>a, <1>b DEF PushAgain, Placed, Continues, Unmade, OnItsPath
  <2> QED
    BY <1>10, <2>2, <2>3, <2>4 DEF PushAgain, TypeOK
<1>11. ASSUME WritePushed PROVE TypeOK' /\ Underway'
  <2>1. review' \in [Jobs -> ReviewType]
    BY <1>11, <1>a, ReviewsTyped DEF WritePushed
  <2> QED
    BY <1>11, <1>a, <1>b, <2>1 DEF WritePushed, TypeOK, ReviewType
<1> QED
  BY <1>1, <1>2, <1>3, <1>4, <1>5, <1>6, <1>7, <1>8, <1>9, <1>10, <1>11

LEMMA TypeStep == TypeOK /\ Underway /\ [Next]_vars => TypeOK'
<1> SUFFICES ASSUME TypeOK, Underway, [Next]_vars PROVE TypeOK'
  OBVIOUS
<1>1. CASE Next
  BY <1>1, OthersTyped, ApproveTyped DEF Next
<1>2. CASE UNCHANGED vars
  BY <1>2 DEF vars, TypeOK
<1> QED
  BY <1>1, <1>2

-----------------------------------------------------------------------------
(* Branches only grow *)

\* Outside Approve only the checked-out branch moves, and that branch is
\* there: a branch Approve found missing stays missing until it makes it.
LEMMA OthersLeaveTheBranch ==
  ASSUME TypeOK, Underway,
         \/ \E j \in Jobs : StartRun(j) \/ StartReview(j)
         \/ \E ok \in BOOLEAN : EndRun(ok) \/ EndReview(ok)
         \/ \E f \in Files : PersonEdits(f) \/ PersonUndoes(f) \/ PersonCommits(f)
         \/ \E b \in TeamBranches : \E f \in Files : TeamPushes(b, f)
         \/ PersonFetches \/ PersonPulls \/ Crash \/ UNCHANGED vars
  PROVE  /\ Underway'
         /\ \A b \in Branches : local'[b] # local[b] =>
              b = head /\ (\/ \E c \in Commits : local'[b] = Append(local[b], c)
                           \/ local'[b] = origin[b] /\ IsPrefix(local[b], origin[b]))
<1> USE DEF refs, papers, working, histories, Underway
<1>a. local[head] \in Histories /\ IsRef(local[head]) /\ head \in Branches
  BY ApprovePushAssumption DEF TypeOK
<1>1. CASE app' = app /\ local' = local
  BY <1>1 DEF Placed, Continues, Unmade, OnItsPath, Adding
<1>2. ASSUME NEW f \in Files, PersonCommits(f)
      PROVE  /\ app' = app /\ \A b \in Branches : b # head => local'[b] = local[b]
             /\ \E c \in Commits : local'[head] = Append(local[head], c)
  <2> DEFINE c == [by |-> Me, tree |-> [TreeOf(local[head]) EXCEPT ![f] = tree[f]]]
  <2>1. TreeOf(local[head]) \in Trees /\ tree \in Trees
    BY <1>a, HistoryTyped DEF TypeOK
  <2>2. c \in Commits
    BY <2>1 DEF Commits, Trees
  <2>3. local' = [local EXCEPT ![head] = Append(local[head], c)] /\ app' = app
    BY <1>2 DEF PersonCommits
  <2>4. /\ \A b \in Branches : b # head => local'[b] = local[b]
        /\ local'[head] = Append(local[head], c)
    BY <1>a, <2>3 DEF TypeOK
  <2> QED
    BY <2>2, <2>3, <2>4
<1>3. ASSUME PersonPulls
      PROVE  /\ app' = app /\ app.pc = "idle" /\ \A b \in Branches : b # head => local'[b] = local[b]
             /\ local'[head] = origin[head] /\ IsPrefix(local[head], origin[head])
  BY <1>3, <1>a DEF PersonPulls, IsStrictPrefix, TypeOK
<1>4. CASE PersonPulls
  BY <1>3, <1>4 DEF Placed, Continues, Unmade, OnItsPath, Adding
<1>5. CASE \E f \in Files : PersonCommits(f)
  <2>1. /\ app' = app /\ \A b \in Branches : b # head => local'[b] = local[b]
        /\ \E c \in Commits : local'[head] = Append(local[head], c)
    BY <1>2, <1>5
  <2>2. Unmade'
    BY <1>a, <2>1 DEF Unmade, Placed, Adding, IsRef
  <2> QED
    BY <2>1, <2>2 DEF Placed, Continues, OnItsPath, Adding
<1>6. CASE Crash
  BY <1>6 DEF Crash, Idle, Placed, Continues, Unmade, OnItsPath
<1>7. \/ app' = app /\ local' = local
      \/ PersonPulls \/ Crash \/ \E f \in Files : PersonCommits(f)
  BY DEF StartRun, StartReview, EndRun, EndReview, PersonEdits, PersonUndoes, TeamPushes,
         PersonFetches, vars
<1> QED
  BY <1>1, <1>4, <1>5, <1>6, <1>7

LEMMA UnderwayStep == TypeOK /\ Underway /\ [Next]_vars => Underway'
<1> SUFFICES ASSUME TypeOK, Underway, [Next]_vars PROVE Underway'
  OBVIOUS
<1> QED
  BY OthersLeaveTheBranch, ApproveTyped DEF Next

\* Approve moves a branch in two steps only: the making of one that was not
\* there, and the fast-forward of one that still is what the commit was
\* built on.
LEMMA StepKeepsCommits ==
  ASSUME TypeOK, Underway, [Next]_vars, NEW b \in Branches
  PROVE  IsPrefix(local[b], local'[b])
<1> USE DEF refs, papers, working, histories, Underway
<1>1. local[b] \in Seq(Commits) /\ origin[b] \in Seq(Commits) /\ app.new \in Seq(Commits)
  BY HistoryTyped DEF TypeOK
<1>2. IsPrefix(local[b], local[b])
  BY <1>1, PrefixReflexive
<1>3. ASSUME local[b] = NoRef PROVE IsPrefix(local[b], app.new)
  BY <1>1, <1>3, EmptyIsPrefix DEF NoRef
<1>4. CASE \/ \E j \in Jobs : StartRun(j) \/ StartReview(j)
           \/ \E ok \in BOOLEAN : EndRun(ok) \/ EndReview(ok)
           \/ \E f \in Files : PersonEdits(f) \/ PersonUndoes(f) \/ PersonCommits(f)
           \/ \E x \in TeamBranches : \E f \in Files : TeamPushes(x, f)
           \/ PersonFetches \/ PersonPulls \/ Crash \/ UNCHANGED vars
  <2>1. CASE local'[b] = local[b]
    BY <1>2, <2>1
  <2>2. CASE \E c \in Commits : local'[b] = Append(local[b], c)
    BY <1>1, <2>2, PrefixOfAppend
  <2>3. CASE local'[b] = origin[b] /\ IsPrefix(local[b], origin[b])
    BY <2>3
  <2> QED
    BY <1>4, <2>1, <2>2, <2>3, OthersLeaveTheBranch
<1>5. CASE MakeBranch
  <2>1. local[app.branch] = NoRef /\ app.branch \in Branches
    BY <1>5 DEF MakeBranch, Placed, Unmade, OnItsPath
  <2>2. local'[b] = IF b = app.branch THEN app.new ELSE local[b]
    BY <1>5, <2>1 DEF MakeBranch, TypeOK
  <2> QED
    BY <1>2, <1>3, <2>1, <2>2
<1>6. CASE MoveBranch
  <2>1. app.branch \in Branches /\ Adding(app.job) /\ IsPrefix(app.old, app.new)
    BY <1>6 DEF MoveBranch, Placed, Continues, OnItsPath
  <2>2. CASE Follows(app.branch)
    <3>1. local[app.branch] = app.old \/ local[app.branch] = NoRef
      BY <1>6, <2>1, <2>2 DEF MoveBranch, Follows, Unmade
    <3>2. local'[b] = IF b = app.branch THEN app.new ELSE local[b]
      BY <1>6, <2>1, <2>2 DEF MoveBranch, TypeOK
    <3> QED
      BY <1>2, <1>3, <2>1, <3>1, <3>2
  <2>3. CASE ~Follows(app.branch)
    BY <1>2, <1>6, <2>3 DEF MoveBranch
  <2> QED
    BY <2>2, <2>3
<1>7. CASE \/ \E j \in Jobs : Approve(j)
           \/ FetchIssue \/ Build \/ ScanClean \/ ScanFinds \/ Push \/ PushFails
           \/ PushAgain \/ WritePushed
  <2>1. local' = local
    BY <1>7 DEF Approve, FetchIssue, Build, ScanClean, ScanFinds, Push, PushFails,
                PushAgain, WritePushed
  <2> QED
    BY <1>2, <2>1
<1> QED
  BY <1>4, <1>5, <1>6, <1>7 DEF Next

-----------------------------------------------------------------------------
(* What a review says *)

HoldsOf(h, j) == \E i \in DOMAIN h : h[i].by = j

LEMMA HoldsInLonger ==
  ASSUME NEW r \in Seq(Commits), NEW s \in Seq(Commits), IsPrefix(r, s), NEW j, HoldsOf(r, j)
  PROVE  HoldsOf(s, j)
<1>1. PICK i \in DOMAIN r : r[i].by = j
  BY DEF HoldsOf
<1>2. i \in 1..Len(r) /\ Len(r) <= Len(s) /\ Len(r) \in Nat /\ Len(s) \in Nat
  BY DEF IsPrefix
<1>3. r[i] = SubSeq(r, 1, Len(r))[i] /\ s[i] = SubSeq(s, 1, Len(r))[i]
  BY <1>2
<1>4. r[i] = s[i]
  BY <1>3 DEF IsPrefix
<1>5. i \in DOMAIN s
  BY <1>2
<1> QED
  BY <1>1, <1>4, <1>5 DEF HoldsOf

\* The remote takes fast-forwards only.
LEMMA RemoteGrows ==
  ASSUME TypeOK, Underway, [Next]_vars, NEW b \in Branches
  PROVE  IsPrefix(remote[b], remote'[b])
<1> USE DEF refs, papers, working, histories, Underway
<1>1. remote[b] \in Seq(Commits) /\ IsPrefix(remote[b], remote[b])
  BY HistoryTyped, PrefixReflexive DEF TypeOK
<1>2. ASSUME NEW new, IsPrefix(remote[app.branch], new),
             remote' = [remote EXCEPT ![app.branch] = new]
      PROVE  IsPrefix(remote[b], remote'[b])
  BY <1>1, <1>2 DEF TypeOK
<1>3. CASE Push
  BY <1>2, <1>3 DEF Push, Takes, Published
<1>4. CASE PushAgain
  BY <1>1, <1>2, <1>4 DEF PushAgain, Takes, Published
<1>5. ASSUME NEW x \in TeamBranches, NEW f \in Files, TeamPushes(x, f)
      PROVE  IsPrefix(remote[b], remote'[b])
  <2>1. x \in Branches /\ remote[x] \in Histories /\ IsRef(remote[x])
    BY <1>5, ApprovePushAssumption DEF TeamPushes, TypeOK
  <2>2. TreeOf(remote[x]) \in Trees /\ remote[x] \in Seq(Commits)
    BY <2>1, HistoryTyped
  <2>3. Edit(Team, done) \in Edits
    BY EditsTyped, ApprovePushAssumption DEF TypeOK
  <2>4. TeamCommit(remote[x], f) \in Commits
    BY <2>2, <2>3 DEF TeamCommit, Commits, Trees
  <2>5. IsPrefix(remote[x], Append(remote[x], TeamCommit(remote[x], f)))
    BY <2>2, <2>4, PrefixOfAppend
  <2>6. remote' = [remote EXCEPT ![x] = Append(remote[x], TeamCommit(remote[x], f))]
    BY <1>5 DEF TeamPushes
  <2> QED
    BY <1>1, <2>5, <2>6 DEF TypeOK
<1>6. CASE remote' = remote
  BY <1>1, <1>6
<1>7. \/ remote' = remote \/ Push \/ PushAgain
      \/ \E x \in TeamBranches : \E f \in Files : TeamPushes(x, f)
  BY DEF Next, vars, StartRun, StartReview, Approve, EndRun, EndReview, FetchIssue, Build,
         ScanClean, ScanFinds, MakeBranch, PushFails, MoveBranch, WritePushed, PersonEdits,
         PersonUndoes, PersonCommits, PersonFetches, PersonPulls, Crash
<1> QED
  BY <1>3, <1>4, <1>5, <1>6, <1>7

\* The commit under way is the job's, and is where its step has put it.
Carried ==
  /\ app.pc \in {"scan", "branch", "push", "move"} => HoldsOf(app.new, app.job)
  /\ app.pc = "repush" \/ (app.pc = "push" /\ ~Adding(app.job))
       => HoldsOf(local[app.branch], app.job)
  /\ app.pc \in {"move", "record"} => HoldsOf(remote[app.branch], app.job)

\* WhatIsSaidIsThere, by the branch.
Said(j) ==
  /\ review[j].state = "pushed"
       => review[j].branch \in Branches /\ HoldsOf(remote[review[j].branch], j)
  /\ review[j].state = "push-failed"
       => review[j].branch \in Branches /\ (~Adding(j) => HoldsOf(local[review[j].branch], j))
AllSaid == \A j \in Jobs : Said(j)

LEMMA SaidIsThere == TypeOK /\ AllSaid => WhatIsSaidIsThere
<1> SUFFICES ASSUME TypeOK, AllSaid, NEW j \in Jobs
             PROVE  /\ review[j].state = "pushed" => \E bi \in Pushed(j) : bi[1] = review[j].branch
                    /\ review[j].state = "push-failed" /\ ~Adding(j)
                         => \E i \in DOMAIN local[review[j].branch] : local[review[j].branch][i].by = j
  BY DEF WhatIsSaidIsThere
<1>1. ASSUME review[j].state = "pushed"
      PROVE  \E bi \in Pushed(j) : bi[1] = review[j].branch
  <2> DEFINE b == review[j].branch
  <2>1. b \in Branches /\ HoldsOf(remote[b], j)
    BY <1>1 DEF AllSaid, Said
  <2>2. PICK i \in DOMAIN remote[b] : remote[b][i].by = j
    BY <2>1 DEF HoldsOf
  <2>3. <<b, i>> \in UNION {{<<x, k>> : k \in DOMAIN remote[x]} : x \in Branches}
    BY <2>1, <2>2
  <2>4. <<b, i>> \in Pushed(j)
    BY <2>2, <2>3 DEF Pushed
  <2> QED
    BY <2>4
<1> QED
  BY <1>1 DEF AllSaid, Said, HoldsOf

\* Local and remote branches keep what they hold.
LEMMA HoldingStays ==
  ASSUME TypeOK, Underway, [Next]_vars, NEW b \in Branches, NEW j
  PROVE  /\ HoldsOf(local[b], j) => HoldsOf(local'[b], j)
         /\ HoldsOf(remote[b], j) => HoldsOf(remote'[b], j)
<1>1. TypeOK'
  BY TypeStep
<1>2. /\ local[b] \in Histories /\ remote[b] \in Histories
      /\ local'[b] \in Histories /\ remote'[b] \in Histories
  BY <1>1 DEF TypeOK
<1>3. /\ local[b] \in Seq(Commits) /\ remote[b] \in Seq(Commits)
      /\ local'[b] \in Seq(Commits) /\ remote'[b] \in Seq(Commits)
  BY <1>2, HistoryTyped
<1> QED
  BY <1>3, StepKeepsCommits, RemoteGrows, HoldsInLonger

LEMMA CarriedStep ==
  ASSUME TypeOK, Underway, Carried, AllSaid, [Next]_vars
  PROVE  Carried'
<1> USE DEF refs, papers, working, histories, Underway
<1>a. \A b \in Branches : \A j : /\ HoldsOf(local[b], j) => HoldsOf(local'[b], j)
                                 /\ HoldsOf(remote[b], j) => HoldsOf(remote'[b], j)
  BY HoldingStays
<1>b. app.pc # "idle" => app.job \in Jobs /\ app.branch \in Branches
  BY DEF Placed
<1>1. CASE app' = app
  BY <1>1, <1>a, <1>b DEF Carried, Adding
<1>2. CASE app'.pc \in {"idle", "fetch", "build"}
  BY <1>2 DEF Carried
<1>3. ASSUME NEW j \in Jobs, Approve(j) PROVE Carried'
  <2>1. CASE app'.pc = "repush"
    <3>1. CASE app' = app
      BY <1>1, <3>1
    <3>2. CASE app' # app
      <4>1. app' = [Idle EXCEPT !.job = j, !.branch = BranchFor(j),
                      !.pc = IF Adding(j) THEN "fetch" ELSE IF OnlyPushOwed(j) THEN "repush" ELSE "build"]
              /\ local' = local
        BY <1>3, <3>2 DEF Approve
      <4>2. app'.job = j /\ app'.branch = BranchFor(j) /\ OnlyPushOwed(j)
        BY <2>1, <4>1 DEF Idle
      <4>3. HoldsOf(local[BranchFor(j)], j)
        BY <4>2 DEF OnlyPushOwed, AllSaid, Said
      <4> QED
        BY <2>1, <4>1, <4>2, <4>3 DEF Carried
    <3> QED
      BY <3>1, <3>2
  <2>2. app' = app \/ app'.pc \in {"fetch", "build", "repush"}
    BY <1>3 DEF Approve, Idle
  <2> QED
    BY <1>1, <1>2, <2>1, <2>2
<1>4. CASE Build
  <2>1. CASE IsRef(Upstream) /\ ~Mixed(Upstream) /\ BranchReady(Upstream)
    <3> DEFINE new == CommitOf(app.job, Upstream)
    <3>1. app' = [app EXCEPT !.pc = "scan", !.old = local[app.branch], !.new = new]
      BY <1>4, <2>1 DEF Build
    <3>2. app'.pc = "scan" /\ app'.job = app.job /\ app'.new = new
      BY <3>1 DEF TypeOK
    <3>3. Upstream \in Seq(Commits)
      BY <1>4, <1>b, ApprovePushAssumption, HistoryTyped DEF Build, Upstream, TypeOK
    <3>4. Len(Upstream) + 1 \in DOMAIN new /\ new[Len(Upstream) + 1].by = app.job
      BY <3>3 DEF CommitOf
    <3>5. HoldsOf(new, app.job)
      BY <3>4 DEF HoldsOf
    <3> QED
      BY <3>2, <3>5 DEF Carried
  <2>2. CASE ~(IsRef(Upstream) /\ ~Mixed(Upstream) /\ BranchReady(Upstream))
    BY <1>2, <1>4, <2>2 DEF Build, Idle
  <2> QED
    BY <2>1, <2>2
<1>5. CASE ScanClean
  <2>1. /\ app'.pc = (IF Adding(app.job) THEN "push" ELSE "branch")
        /\ app'.job = app.job /\ app'.branch = app.branch /\ app'.new = app.new
    BY <1>5 DEF ScanClean, TypeOK
  <2> QED
    BY <1>5, <2>1 DEF Carried, ScanClean, Adding
<1>6. CASE MakeBranch
  <2>1. app'.pc = "push" /\ app'.job = app.job /\ app'.branch = app.branch
          /\ app'.new = app.new /\ local'[app.branch] = app.new
    BY <1>6, <1>b DEF MakeBranch, TypeOK
  <2> QED
    BY <1>6, <2>1 DEF Carried, MakeBranch
<1>7. CASE Push
  <2>1. app'.pc \in {"move", "record"} /\ app'.job = app.job /\ app'.branch = app.branch
          /\ app'.new = app.new /\ remote'[app.branch] = app.new
    BY <1>7, <1>b DEF Push, Published, TypeOK
  <2> QED
    BY <1>7, <2>1 DEF Carried, Push
<1>8. CASE MoveBranch
  <2>1. app'.pc = "record" /\ app'.job = app.job /\ app'.branch = app.branch /\ remote' = remote
    BY <1>8 DEF MoveBranch, TypeOK
  <2> QED
    BY <1>8, <2>1 DEF Carried, MoveBranch
<1>9. CASE PushAgain
  <2>1. CASE app' = Idle
    BY <1>2, <2>1 DEF Idle
  <2>2. CASE app' # Idle
    <3>1. app'.pc = "record" /\ app'.job = app.job /\ app'.branch = app.branch
            /\ remote'[app.branch] = local[app.branch]
      BY <1>9, <2>2, <1>b DEF PushAgain, Published, TypeOK
    <3> QED
      BY <1>9, <3>1 DEF Carried, PushAgain
  <2> QED
    BY <2>1, <2>2
<1>10. \/ app' = app \/ app'.pc \in {"idle", "fetch", "build"} \/ \E j \in Jobs : Approve(j)
       \/ Build \/ ScanClean \/ MakeBranch \/ Push \/ MoveBranch \/ PushAgain
  <2>1. FetchIssue => app'.pc \in {"idle", "build"}
    BY DEF FetchIssue, Idle, TypeOK
  <2>2. ScanFinds \/ PushFails \/ WritePushed \/ Crash => app'.pc = "idle"
    BY DEF ScanFinds, PushFails, WritePushed, Crash, Idle
  <2>3. /\ \A j \in Jobs : StartRun(j) \/ StartReview(j) => app' = app
        /\ \A ok \in BOOLEAN : EndRun(ok) \/ EndReview(ok) => app' = app
        /\ \A f \in Files : PersonEdits(f) \/ PersonUndoes(f) \/ PersonCommits(f) => app' = app
        /\ \A b \in TeamBranches : \A f \in Files : TeamPushes(b, f) => app' = app
        /\ PersonFetches \/ PersonPulls \/ UNCHANGED vars => app' = app
    BY DEF StartRun, StartReview, EndRun, EndReview, PersonEdits, PersonUndoes, PersonCommits,
           TeamPushes, PersonFetches, PersonPulls, vars
  <2> QED
    BY <2>1, <2>2, <2>3 DEF Next
<1> QED
  BY <1>1, <1>2, <1>3, <1>4, <1>5, <1>6, <1>7, <1>8, <1>9, <1>10

LEMMA AllSaidStep ==
  ASSUME TypeOK, Underway, Carried, AllSaid, [Next]_vars
  PROVE  AllSaid'
<1> USE DEF refs, papers, working, histories, Underway
<1> SUFFICES ASSUME NEW j \in Jobs PROVE Said(j)'
  BY DEF AllSaid
<1>a. \A b \in Branches : /\ HoldsOf(local[b], j) => HoldsOf(local'[b], j)
                          /\ HoldsOf(remote[b], j) => HoldsOf(remote'[b], j)
  BY HoldingStays
<1>b. Said(j) /\ (app.pc # "idle" => app.job \in Jobs /\ app.branch \in Branches)
  BY DEF AllSaid, Placed
<1>1. CASE review'[j].state = review[j].state /\ review'[j].branch = review[j].branch
  BY <1>1, <1>a, <1>b DEF Said, Adding
<1>2. CASE review'[j].state = "pending-review"
  BY <1>2 DEF Said
<1>3. CASE PushFails
  <2>1. CASE app.job = j
    <3>1. review'[j].state = "push-failed" /\ review'[j].branch = app.branch /\ app.branch \in Branches
      BY <1>3, <1>b, <2>1 DEF PushFails, PushFailed, TypeOK
    <3>2. ~Adding(j) => HoldsOf(local'[app.branch], j)
      BY <1>3, <1>a, <1>b, <2>1 DEF PushFails, Carried
    <3> QED
      BY <3>1, <3>2 DEF Said, Adding
  <2>2. CASE app.job # j
    BY <1>1, <1>3, <2>2 DEF PushFails, PushFailed, TypeOK
  <2> QED
    BY <2>1, <2>2
<1>4. CASE WritePushed
  <2>1. CASE app.job = j
    <3>1. review'[j].state = "pushed" /\ review'[j].branch = app.branch /\ app.branch \in Branches
      BY <1>4, <1>b, <2>1 DEF WritePushed, TypeOK
    <3>2. HoldsOf(remote'[app.branch], j)
      BY <1>4, <1>a, <1>b, <2>1 DEF WritePushed, Carried
    <3> QED
      BY <3>1, <3>2 DEF Said
  <2>2. CASE app.job # j
    BY <1>1, <1>4, <2>2 DEF WritePushed, TypeOK
  <2> QED
    BY <2>1, <2>2
<1>5. CASE ScanFinds
  <2>1. review'[j].state = "pending-review" \/ review'[j] = review[j]
    BY <1>5 DEF ScanFinds, TypeOK
  <2> QED
    BY <1>1, <1>2, <2>1
<1>6. CASE \E ok \in BOOLEAN : EndRun(ok)
  <2>1. review'[j].state = review[j].state /\ review'[j].branch = review[j].branch
    BY <1>6 DEF EndRun, Record, TypeOK
  <2> QED
    BY <1>1, <2>1
<1>7. CASE \E i \in Jobs : Approve(i)
  <2>1. review'[j].state = review[j].state /\ review'[j].branch = review[j].branch
    BY <1>7 DEF Approve, TypeOK
  <2> QED
    BY <1>1, <2>1
<1>8. \/ review' = review \/ PushFails \/ WritePushed \/ ScanFinds
      \/ \E ok \in BOOLEAN : EndRun(ok)
      \/ \E i \in Jobs : Approve(i)
  BY DEF Next, vars, StartRun, StartReview, EndReview, FetchIssue, Build, ScanClean, MakeBranch,
         Push, MoveBranch, PushAgain, PersonEdits, PersonUndoes, PersonCommits, PersonFetches,
         PersonPulls, TeamPushes, Crash
<1> QED
  BY <1>1, <1>3, <1>4, <1>5, <1>6, <1>7, <1>8

-----------------------------------------------------------------------------
(* What is pushed was tested and read *)

Vetted(j, c, t, r) == c \in t[j] /\ \E d \in r[j] : d.to = c
HistoryVetted(h, t, r) ==
  \A i \in DOMAIN h : h[i].by \in Jobs => Vetted(h[i].by, h[i].tree[FileOf[h[i].by]], t, r)

\* Every commit of a job that is anywhere, the one under way included.
AllVetted ==
  /\ \A b \in Branches : /\ HistoryVetted(local[b], tested, read)
                         /\ HistoryVetted(origin[b], tested, read)
                         /\ HistoryVetted(remote[b], tested, read)
  /\ app.pc \in {"scan", "branch", "push", "move"} => HistoryVetted(app.new, tested, read)

\* What the records vouch for; and from Approve's checks to its commit the
\* content is the one they were made on.
Vouched ==
  /\ run.job # NoJob => run.built = Content(run.job)
  /\ \A j \in Jobs : review[j].ran.ok => review[j].ran.of \in tested[j]
  /\ \A j \in Jobs : codeReview[j].ok => codeReview[j].of \in read[j]
  /\ app.pc \in {"fetch", "build"} => Vetted(app.job, Content(app.job), tested, read)

LEMMA NobodyElseIsAJob == Me \notin Jobs /\ Team \notin Jobs /\ NoJob \notin Jobs
  BY ApprovePushAssumption

LEMMA AppendVetted ==
  ASSUME NEW h \in Seq(Commits), NEW c, NEW t, NEW r, HistoryVetted(h, t, r),
         c.by \in Jobs => Vetted(c.by, c.tree[FileOf[c.by]], t, r), c \in Commits
  PROVE  HistoryVetted(Append(h, c), t, r)
<1> SUFFICES ASSUME NEW i \in DOMAIN Append(h, c), Append(h, c)[i].by \in Jobs
             PROVE  Vetted(Append(h, c)[i].by, Append(h, c)[i].tree[FileOf[Append(h, c)[i].by]], t, r)
  BY DEF HistoryVetted
<1>1. CASE i \in DOMAIN h
  <2>1. Append(h, c)[i] = h[i]
    BY <1>1
  <2> QED
    BY <1>1, <2>1 DEF HistoryVetted
<1>2. CASE i \notin DOMAIN h
  <2>1. Append(h, c)[i] = c
    BY <1>2
  <2> QED
    BY <2>1
<1> QED
  BY <1>1, <1>2

\* The histories of passed tests and clean code reviews only grow.
LEMMA VettingStays ==
  ASSUME TypeOK, [Next]_vars
  PROVE  /\ \A j, c : Vetted(j, c, tested, read) /\ j \in Jobs => Vetted(j, c, tested', read')
         /\ \A h : HistoryVetted(h, tested, read) => HistoryVetted(h, tested', read')
<1> USE DEF refs, papers, working, histories
<1>1. \A j \in Jobs : tested[j] \subseteq tested'[j] /\ read[j] \subseteq read'[j]
  <2>1. CASE \E ok \in BOOLEAN : EndRun(ok)
    BY <2>1 DEF EndRun, TypeOK
  <2>2. CASE \E ok \in BOOLEAN : EndReview(ok)
    BY <2>2 DEF EndReview, TypeOK
  <2>3. CASE tested' = tested /\ read' = read
    BY <2>3
  <2>4. \/ tested' = tested /\ read' = read
        \/ \E ok \in BOOLEAN : EndRun(ok)
        \/ \E ok \in BOOLEAN : EndReview(ok)
    BY DEF Next, vars, StartRun, StartReview, Approve, FetchIssue, Build, ScanClean, ScanFinds,
           MakeBranch, Push, PushFails, MoveBranch, PushAgain, WritePushed, PersonEdits,
           PersonUndoes, PersonCommits, PersonFetches, PersonPulls, TeamPushes, Crash
  <2> QED
    BY <2>1, <2>2, <2>3, <2>4
<1>2. ASSUME NEW j \in Jobs, NEW c, Vetted(j, c, tested, read)
      PROVE  Vetted(j, c, tested', read')
  BY <1>1, <1>2 DEF Vetted
<1> QED
  BY <1>2 DEF HistoryVetted

\* Nobody edits under a run of tests or an Approve.
LEMMA TreeStandsStill ==
  ASSUME ~EditsAnyTime, TypeOK, [Next]_vars, run.job # NoJob \/ app.pc # "idle"
  PROVE  tree' = tree
<1> USE DEF refs, papers, working, histories
<1>1. ~AtRest
  BY DEF AtRest
<1>2. /\ \A f \in Files : ~PersonEdits(f) /\ ~PersonUndoes(f)
      /\ ~PersonPulls
  BY <1>1 DEF PersonEdits, PersonUndoes, PersonPulls
<1> QED
  BY <1>2 DEF Next, vars, StartRun, StartReview, Approve, EndRun, EndReview, FetchIssue, Build,
       ScanClean, ScanFinds, MakeBranch, Push, PushFails, MoveBranch, PushAgain, WritePushed,
       PersonCommits, PersonFetches, TeamPushes, Crash

LEMMA VouchedStep ==
  ASSUME ~EditsAnyTime, TypeOK, Underway, Vouched, [Next]_vars
  PROVE  Vouched'
<1> USE DEF refs, papers, working, histories
<1>a. \A j, c : Vetted(j, c, tested, read) /\ j \in Jobs => Vetted(j, c, tested', read')
  BY VettingStays
<1>b. \A j \in Jobs : tree' = tree => Content(j)' = Content(j)
  BY DEF Content
<1>1. run'.job # NoJob => run'.built = Content(run.job)'
  <2>1. CASE \E j \in Jobs : StartRun(j)
    BY <2>1 DEF StartRun, Content
  <2>2. CASE \E ok \in BOOLEAN : EndRun(ok)
    BY <2>2 DEF EndRun
  <2>3. CASE run' = run
    BY <2>3, TreeStandsStill DEF Vouched, Content
  <2>4. \/ run' = run \/ \E j \in Jobs : StartRun(j)
        \/ \E ok \in BOOLEAN : EndRun(ok)
    BY DEF Next, vars, StartReview, Approve, EndReview, FetchIssue, Build, ScanClean, ScanFinds,
           MakeBranch, Push, PushFails, MoveBranch, PushAgain, WritePushed, PersonEdits,
           PersonUndoes, PersonCommits, PersonFetches, PersonPulls, TeamPushes, Crash
  <2> QED
    BY <2>1, <2>2, <2>3, <2>4
<1>2. ASSUME NEW j \in Jobs, review'[j].ran.ok PROVE review'[j].ran.of \in tested'[j]
  <2>1. CASE review'[j].ran = review[j].ran /\ tested' = tested
    BY <1>2, <2>1 DEF Vouched
  <2>2. ASSUME NEW ok \in BOOLEAN, EndRun(ok) PROVE review'[j].ran.of \in tested'[j]
    <3>1. CASE run.job = j /\ Runnable(j) /\ ok
      <4>1. review'[j].ran.of = Content(j) /\ tested'[j] = tested[j] \cup {run.built}
        BY <2>2, <3>1 DEF EndRun, Record, TypeOK
      <4>2. run.built = Content(j)
        BY <2>2, <3>1 DEF EndRun, Vouched
      <4> QED
        BY <4>1, <4>2
    <3>2. CASE run.job = j /\ Runnable(j) /\ ~ok
      BY <1>2, <2>2, <3>2 DEF EndRun, Record, TypeOK
    <3>3. CASE run.job # j \/ ~Runnable(j)
      <4>1. review'[j] = review[j] /\ tested[j] \subseteq tested'[j]
        BY <2>2, <3>3 DEF EndRun, Record, TypeOK
      <4> QED
        BY <1>2, <4>1 DEF Vouched
    <3> QED
      BY <3>1, <3>2, <3>3
  <2>3. \/ \E ok \in BOOLEAN : EndRun(ok)
        \/ tested' = tested /\ \/ review' = review \/ PushFails \/ WritePushed \/ ScanFinds
                               \/ \E i \in Jobs : Approve(i)
    BY DEF Next, vars, StartRun, StartReview, EndReview, FetchIssue, Build, ScanClean, MakeBranch,
           Push, MoveBranch, PushAgain, PersonEdits, PersonUndoes, PersonCommits, PersonFetches,
           PersonPulls, TeamPushes, Crash, PushFails, WritePushed, ScanFinds, Approve
  <2>4. review' = review \/ PushFails \/ WritePushed \/ ScanFinds \/ (\E i \in Jobs : Approve(i))
          => review'[j].ran = review[j].ran
    <3>1. review \in [Jobs -> ReviewType]
      BY DEF TypeOK, ReviewType
    <3>2. ASSUME NEW r \in ReviewType, NEW x, NEW y
          PROVE  /\ [r EXCEPT !.state = x].ran = r.ran
                 /\ [r EXCEPT !.state = x, !.branch = y].ran = r.ran
                 /\ [r EXCEPT !.shown = x].ran = r.ran
      BY DEF ReviewType
    <3>3. ASSUME NEW st, review' = [review EXCEPT ![app.job].state = st, ![app.job].branch = app.branch]
          PROVE  review'[j].ran = review[j].ran
      <4>1. review' = [k \in Jobs |-> IF k = app.job
                         THEN [review[k] EXCEPT !.state = st, !.branch = app.branch] ELSE review[k]]
        BY <3>1, <3>3
      <4>2. review'[j] = [review[j] EXCEPT !.state = st, !.branch = app.branch] \/ review'[j] = review[j]
        BY <4>1
      <4>3. [review[j] EXCEPT !.state = st, !.branch = app.branch].ran = review[j].ran
        BY <3>1, <3>2
      <4> QED
        BY <4>2, <4>3
    <3>4. PushFails \/ WritePushed => review'[j].ran = review[j].ran
      BY <3>3 DEF PushFails, PushFailed, WritePushed
    <3>5. ScanFinds => review'[j].ran = review[j].ran
      BY <3>1, <3>2 DEF ScanFinds
    <3>6. ASSUME NEW i \in Jobs, Approve(i) PROVE review'[j].ran = review[j].ran
      <4>1. review' = review \/ review' = [review EXCEPT ![i].shown = Content(i)]
        BY <3>6, Zenon DEF Approve
      <4>2. ASSUME review' = [review EXCEPT ![i].shown = Content(i)]
            PROVE  review' = [k \in Jobs |-> IF k = i THEN [review[k] EXCEPT !.shown = Content(i)]
                                                     ELSE review[k]]
        BY <3>1, <4>2
      <4>3. review'[j] = review[j] \/ review'[j] = [review[j] EXCEPT !.shown = Content(i)]
        BY <4>1, <4>2
      <4>4. [review[j] EXCEPT !.shown = Content(i)].ran = review[j].ran
        BY <3>1, <3>2
      <4> QED
        BY <4>3, <4>4, Zenon
    <3> QED
      BY <3>4, <3>5, <3>6
  <2> QED
    BY <2>1, <2>2, <2>3, <2>4
<1>3. ASSUME NEW j \in Jobs, codeReview'[j].ok PROVE codeReview'[j].of \in read'[j]
  <2>1. CASE codeReview' = codeReview /\ read' = read
    BY <1>3, <2>1 DEF Vouched
  <2>2. ASSUME NEW i \in Jobs, StartReview(i) PROVE codeReview'[j].of \in read'[j]
    <3>1. i # j /\ codeReview'[j] = codeReview[j] /\ read' = read
      BY <1>3, <2>2 DEF StartReview, TypeOK
    <3> QED
      BY <1>3, <3>1 DEF Vouched
  <2>3. ASSUME NEW ok \in BOOLEAN, EndReview(ok) PROVE codeReview'[j].of \in read'[j]
    <3>1. CASE reading.job = j
      BY <1>3, <2>3, <3>1 DEF EndReview, TypeOK
    <3>2. CASE reading.job # j
      <4>1. codeReview'[j] = codeReview[j] /\ read[j] \subseteq read'[j]
        BY <2>3, <3>2 DEF EndReview, TypeOK
      <4> QED
        BY <1>3, <4>1 DEF Vouched
    <3> QED
      BY <3>1, <3>2
  <2>4. \/ codeReview' = codeReview /\ read' = read
        \/ \E i \in Jobs : StartReview(i)
        \/ \E ok \in BOOLEAN : EndReview(ok)
    BY DEF Next, vars, StartRun, Approve, EndRun, FetchIssue, Build, ScanClean, ScanFinds,
           MakeBranch, Push, PushFails, MoveBranch, PushAgain, WritePushed, PersonEdits,
           PersonUndoes, PersonCommits, PersonFetches, PersonPulls, TeamPushes, Crash
  <2> QED
    BY <2>1, <2>2, <2>3, <2>4
<1>4. ASSUME app'.pc \in {"fetch", "build"}
      PROVE  Vetted(app'.job, Content(app.job)', tested', read')
  <2>1. ASSUME app'.job = app.job, app.pc \in {"fetch", "build"}
        PROVE  Vetted(app'.job, Content(app.job)', tested', read')
    <3>1. app.job \in Jobs /\ Vetted(app.job, Content(app.job), tested, read)
      BY <2>1 DEF Underway, Placed, Vouched
    <3>2. Content(app.job)' = Content(app.job)
      BY <2>1, TreeStandsStill DEF Content
    <3> QED
      BY <1>a, <2>1, <3>1, <3>2
  <2>2. ASSUME NEW j \in Jobs, Approve(j), app' # app
        PROVE  Vetted(app'.job, Content(app.job)', tested', read')
    <3>1. app'.job = j /\ tree' = tree /\ Green(j) /\ CaseChecked(j)
      BY <2>2 DEF Approve, Idle
    <3>2. Content(j) \in tested[j] /\ Shows(j) \in read[j]
      BY <3>1 DEF Green, CaseChecked, Vouched
    <3>3. Vetted(j, Content(j), tested, read)
      BY <3>2 DEF Vetted, Shows
    <3>4. Content(app.job)' = Content(j)
      BY <3>1 DEF Content
    <3> QED
      BY <1>a, <3>1, <3>3, <3>4
  <2>3. \/ app' = app
        \/ app'.job = app.job /\ app.pc \in {"fetch", "build"}
        \/ \E j \in Jobs : Approve(j)
    <3>1. FetchIssue => (app.pc = "fetch" /\ app'.job = app.job) \/ app' = Idle
      BY DEF FetchIssue, TypeOK
    <3>2. ScanFinds \/ PushFails \/ WritePushed \/ Crash => app' = Idle
      BY DEF ScanFinds, PushFails, WritePushed, Crash
    <3>3. Build \/ ScanClean \/ MakeBranch \/ Push \/ MoveBranch \/ PushAgain
            => app' = Idle \/ app'.pc \in {"scan", "push", "branch", "move", "record"}
      BY DEF Build, ScanClean, MakeBranch, Push, MoveBranch, PushAgain, TypeOK
    <3>4. /\ \A j \in Jobs : StartRun(j) \/ StartReview(j) => app' = app
          /\ \A ok \in BOOLEAN : EndRun(ok) \/ EndReview(ok) => app' = app
          /\ \A f \in Files : PersonEdits(f) \/ PersonUndoes(f) \/ PersonCommits(f) => app' = app
          /\ \A b \in TeamBranches : \A f \in Files : TeamPushes(b, f) => app' = app
          /\ PersonFetches \/ PersonPulls \/ UNCHANGED vars => app' = app
      BY DEF StartRun, StartReview, EndRun, EndReview, PersonEdits, PersonUndoes, PersonCommits,
             TeamPushes, PersonFetches, PersonPulls, vars
    <3>5. app' # Idle
      BY <1>4 DEF Idle
    <3> QED
      BY <1>4, <3>1, <3>2, <3>3, <3>4, <3>5 DEF Next
  <2> QED
    BY <1>4, <2>1, <2>2, <2>3
<1> QED
  BY <1>1, <1>2, <1>3, <1>4 DEF Vouched

LEMMA AllVettedStep ==
  ASSUME ~EditsAnyTime, TypeOK, Underway, Vouched, AllVetted, [Next]_vars
  PROVE  AllVetted'
<1> USE DEF refs, papers, working, histories
<1> DEFINE V(h) == HistoryVetted(h, tested, read)
           W(h) == HistoryVetted(h, tested', read')
<1>a. \A h : V(h) => W(h)
  BY VettingStays
<1>b. app.pc # "idle" => app.job \in Jobs /\ app.branch \in Branches
  BY DEF Underway, Placed
<1>c. head \in Branches /\ local[head] \in Histories /\ local[head] \in Seq(Commits) /\ IsRef(local[head])
  BY ApprovePushAssumption, HistoryTyped DEF TypeOK
<1>1. ASSUME NEW b \in Branches PROVE W(local'[b])
  <2>1. CASE local' = local
    BY <1>a, <2>1 DEF AllVetted
  <2>2. ASSUME NEW f \in Files, PersonCommits(f) PROVE W(local'[b])
    <3> DEFINE c == [by |-> Me, tree |-> [TreeOf(local[head]) EXCEPT ![f] = tree[f]]]
    <3>1. TreeOf(local[head]) \in Trees /\ tree \in Trees
      BY <1>c, HistoryTyped DEF TypeOK
    <3>2. c \in Commits /\ c.by \notin Jobs
      BY <3>1, NobodyElseIsAJob DEF Commits, Trees
    <3>3. V(Append(local[head], c))
      BY <1>c, <3>2, AppendVetted DEF AllVetted
    <3>4. local' = [local EXCEPT ![head] = Append(local[head], c)]
      BY <2>2 DEF PersonCommits
    <3>5. local'[b] = local[b] \/ local'[b] = Append(local[head], c)
      BY <1>c, <3>4 DEF TypeOK
    <3> QED
      BY <1>a, <3>3, <3>5 DEF AllVetted
  <2>3. CASE PersonPulls
    <3>1. local'[b] = local[b] \/ local'[b] = origin[head]
      BY <1>c, <2>3 DEF PersonPulls, TypeOK
    <3> QED
      BY <1>a, <1>c, <3>1 DEF AllVetted
  <2>4. CASE MakeBranch \/ MoveBranch
    <3>1. (local'[b] = local[b] \/ local'[b] = app.new) /\ V(app.new)
      BY <1>b, <2>4 DEF MakeBranch, MoveBranch, TypeOK, AllVetted
    <3> QED
      BY <1>a, <3>1 DEF AllVetted
  <2>5. \/ local' = local \/ \E f \in Files : PersonCommits(f)
        \/ PersonPulls \/ MakeBranch \/ MoveBranch
    BY DEF Next, vars, StartRun, StartReview, Approve, EndRun, EndReview, FetchIssue, Build,
           ScanClean, ScanFinds, Push, PushFails, PushAgain, WritePushed, PersonEdits,
           PersonUndoes, PersonFetches, TeamPushes, Crash
  <2> QED
    BY <2>1, <2>2, <2>3, <2>4, <2>5
<1>2. ASSUME NEW b \in Branches PROVE W(origin'[b]) /\ W(remote'[b])
  <2>1. CASE origin' = origin /\ remote' = remote
    BY <1>a, <2>1 DEF AllVetted
  <2>2. CASE FetchIssue
    <3>1. (origin'[b] = origin[b] \/ origin'[b] = remote[app.branch]) /\ remote' = remote
      BY <1>b, <2>2 DEF FetchIssue, TypeOK
    <3>2. app.branch \in Branches
      BY <1>b, <2>2 DEF FetchIssue
    <3> QED
      BY <1>a, <3>1, <3>2 DEF AllVetted
  <2>3. CASE PersonFetches
    BY <1>a, <2>3 DEF PersonFetches, AllVetted
  <2>4. CASE Push
    <3>1. /\ origin'[b] = origin[b] \/ origin'[b] = app.new
          /\ remote'[b] = remote[b] \/ remote'[b] = app.new
          /\ V(app.new)
      BY <2>4 DEF Push, Published, TypeOK, AllVetted
    <3> QED
      BY <1>a, <3>1 DEF AllVetted
  <2>5. CASE PushAgain
    <3>1. /\ origin'[b] = origin[b] \/ origin'[b] = local[app.branch]
          /\ remote'[b] = remote[b] \/ remote'[b] = local[app.branch]
      BY <2>5 DEF PushAgain, Published, TypeOK
    <3>2. V(local[app.branch])
      BY <1>b, <2>5 DEF PushAgain, AllVetted
    <3> QED
      BY <1>a, <3>1, <3>2 DEF AllVetted
  <2>6. ASSUME NEW x \in TeamBranches, NEW f \in Files, TeamPushes(x, f)
        PROVE  W(origin'[b]) /\ W(remote'[b])
    <3> DEFINE c == TeamCommit(remote[x], f)
    <3>1. x \in Branches /\ remote[x] \in Histories /\ IsRef(remote[x])
      BY <2>6, ApprovePushAssumption DEF TeamPushes, TypeOK
    <3>2. TreeOf(remote[x]) \in Trees /\ remote[x] \in Seq(Commits)
      BY <3>1, HistoryTyped
    <3>3. Edit(Team, done) \in Edits
      BY EditsTyped, ApprovePushAssumption DEF TypeOK
    <3>4. c \in Commits /\ c.by \notin Jobs
      BY <3>2, <3>3, NobodyElseIsAJob DEF TeamCommit, Commits, Trees
    <3>5. V(Append(remote[x], c))
      BY <3>1, <3>2, <3>4, AppendVetted DEF AllVetted
    <3>6. remote' = [remote EXCEPT ![x] = Append(remote[x], c)] /\ origin' = origin
      BY <2>6 DEF TeamPushes
    <3>7. remote'[b] = remote[b] \/ remote'[b] = Append(remote[x], c)
      BY <3>6 DEF TypeOK
    <3> QED
      BY <1>a, <3>5, <3>6, <3>7 DEF AllVetted
  <2>7. \/ origin' = origin /\ remote' = remote
        \/ FetchIssue \/ PersonFetches \/ Push \/ PushAgain
        \/ \E x \in TeamBranches : \E f \in Files : TeamPushes(x, f)
    BY DEF Next, vars, StartRun, StartReview, Approve, EndRun, EndReview, Build, ScanClean,
           ScanFinds, MakeBranch, MoveBranch, PushFails, WritePushed, PersonEdits, PersonUndoes,
           PersonCommits, PersonPulls, Crash
  <2> QED
    BY <2>1, <2>2, <2>3, <2>4, <2>5, <2>6, <2>7
<1>3. ASSUME app'.pc \in {"scan", "branch", "push", "move"} PROVE W(app'.new)
  <2>1. CASE app'.new = app.new /\ app.pc \in {"scan", "branch", "push", "move"}
    BY <1>a, <2>1 DEF AllVetted
  <2>2. CASE Build
    <3> DEFINE up == Upstream
               c == [by |-> app.job,
                     tree |-> [TreeOf(up) EXCEPT ![FileOf[app.job]] = Content(app.job)]]
    <3>1. IsRef(up) /\ app'.new = Append(up, c)
      BY <1>3, <2>2 DEF Build, CommitOf, Idle, TypeOK
    <3>2. app.job \in Jobs /\ FileOf[app.job] \in Files /\ Vetted(app.job, Content(app.job), tested, read)
      BY <1>b, <2>2, ApprovePushAssumption DEF Build, Vouched
    <3>3. up \in Histories /\ V(up)
      BY <1>b, <1>c, <2>2 DEF Build, Upstream, AllVetted, TypeOK
    <3>4. TreeOf(up) \in Trees /\ up \in Seq(Commits) /\ Content(app.job) \in SUBSET Edits
      BY <3>1, <3>2, <3>3, HistoryTyped, ShowsTyped
    <3>5. c \in Commits
      BY <3>2, <3>4 DEF Commits, Trees
    <3>6. c.tree[FileOf[c.by]] = Content(app.job)
      BY <3>2, <3>4 DEF Trees
    <3>7. V(Append(up, c))
      BY <3>2, <3>3, <3>4, <3>5, <3>6, AppendVetted
    <3> QED
      BY <1>a, <3>1, <3>7
  <2>3. Build \/ (app'.new = app.new /\ app.pc \in {"scan", "branch", "push", "move"})
    <3>1. ScanClean \/ MakeBranch \/ Push
            => app'.new = app.new /\ app.pc \in {"scan", "branch", "push"}
      BY DEF ScanClean, MakeBranch, Push, TypeOK
    <3>2. ScanFinds \/ PushFails \/ WritePushed \/ Crash => app' = Idle
      BY DEF ScanFinds, PushFails, WritePushed, Crash
    <3>3. FetchIssue \/ MoveBranch \/ PushAgain => app' = Idle \/ app'.pc \in {"build", "record"}
      BY DEF FetchIssue, MoveBranch, PushAgain, TypeOK
    <3>4. \A j \in Jobs : Approve(j) => app' = app \/ app'.pc \in {"fetch", "build", "repush"}
      BY DEF Approve, Idle
    <3>5. /\ \A j \in Jobs : StartRun(j) \/ StartReview(j) => app' = app
          /\ \A ok \in BOOLEAN : EndRun(ok) \/ EndReview(ok) => app' = app
          /\ \A f \in Files : PersonEdits(f) \/ PersonUndoes(f) \/ PersonCommits(f) => app' = app
          /\ \A b \in TeamBranches : \A f \in Files : TeamPushes(b, f) => app' = app
          /\ PersonFetches \/ PersonPulls \/ UNCHANGED vars => app' = app
      BY DEF StartRun, StartReview, EndRun, EndReview, PersonEdits, PersonUndoes, PersonCommits,
             TeamPushes, PersonFetches, PersonPulls, vars
    <3>6. Idle.pc = "idle"
      BY DEF Idle
    <3> QED
      BY <1>3, <3>1, <3>2, <3>3, <3>4, <3>5, <3>6 DEF Next
  <2> QED
    BY <2>1, <2>2, <2>3
<1> QED
  BY <1>1, <1>2, <1>3 DEF AllVetted

LEMMA VettingInvariant ==
  ASSUME ~EditsAnyTime
  PROVE  Spec => [](TypeOK /\ Underway /\ Vouched /\ AllVetted)
<1> DEFINE Inv == TypeOK /\ Underway /\ Vouched /\ AllVetted
<1>1. Init => Inv
  <2> SUFFICES ASSUME Init PROVE Vouched /\ AllVetted
    BY InitTyped
  <2>1. Vouched
    BY DEF Init, Idle, Vouched
  <2>2. ASSUME NEW h, h = Root \/ h = NoRef PROVE HistoryVetted(h, tested, read)
    <3>1. \A i \in DOMAIN h : h[i].by = Team
      BY <2>2 DEF Root, NoRef
    <3> QED
      BY <3>1, NobodyElseIsAJob DEF HistoryVetted
  <2>3. \A b \in Branches : /\ local[b] \in {Root, NoRef}
                            /\ origin[b] \in {Root, NoRef}
                            /\ remote[b] \in {Root, NoRef}
    BY DEF Init, Refs
  <2> QED
    BY <2>1, <2>2, <2>3 DEF Init, Idle, AllVetted
<1>2. Inv /\ [Next]_vars => Inv'
  BY TypeStep, UnderwayStep, VouchedStep, AllVettedStep
<1> QED
  BY <1>1, <1>2, PTL DEF Spec

LEMMA PushedIsVetted ==
  ASSUME TypeOK, AllVetted
  PROVE  \A j \in Jobs : \A bi \in Pushed(j) : Vetted(j, Held(j, bi), tested, read)
<1> SUFFICES ASSUME NEW j \in Jobs, NEW bi \in Pushed(j)
             PROVE  Vetted(j, Held(j, bi), tested, read)
  OBVIOUS
<1>1. PICK b \in Branches : bi \in {<<b, i>> : i \in DOMAIN remote[b]}
  BY DEF Pushed
<1>2. PICK i \in DOMAIN remote[b] : bi = <<b, i>>
  BY <1>1
<1>3. remote[b][i].by = j /\ Held(j, bi) = remote[b][i].tree[FileOf[j]]
  BY <1>2 DEF Pushed, Held
<1> QED
  BY <1>3 DEF AllVetted, HistoryVetted

-----------------------------------------------------------------------------
(* What a job pushes was shown *)

\* An issue branch has issuebranch.py's prefix (PREFIXES: issue/ or feature/),
\* the branches of Approve's own naming the policy's (policy.json: feature_).
IssueBranchesApart ==
  \A i, j \in Jobs : Adding(i) => IssueBranch[i] \notin {OwnBranch[j], StoryBranch[j]}

\* Approve's branch is the job's issue branch or one of its own; a branch of
\* its own that has got past the building of the commit is not the one
\* checked out.
Owned ==
  /\ app.pc # "idle" =>
       app.branch \in IF Adding(app.job) THEN {IssueBranch[app.job]}
                                         ELSE {OwnBranch[app.job], StoryBranch[app.job]}
  /\ app.pc = "repush" => ~Adding(app.job)
  /\ app.pc \in {"repush", "scan", "branch", "push"} /\ ~Adding(app.job) => app.branch # head
  /\ \A j \in Jobs : review[j].state = "push-failed" /\ ~Adding(j) => review[j].branch # head

\* The working tree has everything the branch checked out has, and what it is
\* about to be moved to has.
Covers(t, h) == \A f \in Files : TreeOf(h)[f] \subseteq t[f]
Built == app.pc \in {"scan", "branch", "push", "move"}
Covered ==
  /\ Covers(tree, local[head])
  /\ Built /\ app.branch = head => Covers(tree, app.new)

\* On the remote, the branch checked out loses no edit.
Grows(h) == \A i \in DOMAIN h : \A f \in Files : h[i].tree[f] \subseteq TreeOf(h)[f]
HeadGrows ==
  /\ Grows(origin[head]) /\ Grows(remote[head])
  /\ Built /\ app.branch = head => Grows(app.new)

\* The lines of commits that meet in Build: of the branch checked out, and of
\* each issue branch.
Lines == {head} \cup {IssueBranch[j] : j \in {i \in Jobs : Adding(i)}}
OnLine(b) == {origin[b], remote[b]} \cup (IF b = head THEN {local[head]} ELSE {})
               \cup (IF Built /\ app.branch = b THEN {app.new} ELSE {})
\* They start at Root, and go their own ways from the commit after it.
Starts(b, h, d) ==
  IsRef(h) =>
    /\ h[1] = Root[1]
    /\ Len(h) > 1 =>
         \/ h[2].by \in Jobs /\ IssueBranch[h[2].by] = b
         \/ h[2].by = Team /\ \A f \in Files : \A e \in h[2].tree[f] : e.n < d
         \/ h[2].by = Me /\ b = head
Apart(g, h) == Len(g) > 1 /\ Len(h) > 1 => g[2] # h[2]
LinesApart ==
  /\ \A b \in Lines : \A h \in OnLine(b) : Starts(b, h, done)
  /\ \A b, c \in Lines : b # c => \A g \in OnLine(b), h \in OnLine(c) : Apart(g, h)

\* The edits a job's commit adds to the commit it is on were approved.
HistoryShown(h, a) ==
  \A i \in DOMAIN h : h[i].by \in Jobs =>
    i > 1 /\ h[i].tree[FileOf[h[i].by]] \ h[i - 1].tree[FileOf[h[i].by]] \subseteq a[h[i].by]
AllShown ==
  /\ \A b \in Branches : /\ HistoryShown(local[b], approved)
                         /\ HistoryShown(origin[b], approved)
                         /\ HistoryShown(remote[b], approved)
  /\ Built => HistoryShown(app.new, approved)
  /\ app.pc \in {"fetch", "build"} =>
       Content(app.job) \ TreeOf(local[head])[FileOf[app.job]] \subseteq approved[app.job]

\* The steps that move a ref.
LEMMA RefsMove ==
  ASSUME [Next]_vars
  PROVE  /\ head' = head
         /\ \/ local' = local /\ origin' = origin /\ remote' = remote
            \/ FetchIssue \/ MakeBranch \/ Push \/ MoveBranch \/ PushAgain
            \/ PersonFetches \/ PersonPulls
            \/ \E f \in Files : PersonCommits(f)
            \/ \E b \in TeamBranches : \E f \in Files : TeamPushes(b, f)
  BY DEF Next, vars, refs, StartRun, StartReview, Approve, EndRun, EndReview, FetchIssue, Build,
         ScanClean, ScanFinds, MakeBranch, Push, PushFails, MoveBranch, PushAgain, WritePushed,
         PersonEdits, PersonUndoes, PersonCommits, PersonFetches, PersonPulls, TeamPushes, Crash

\* A commit under way was there before the step, or Build has just made it.
LEMMA CarriesOn ==
  ASSUME TypeOK, [Next]_vars, Built'
  PROVE  \/ Build
         \/ Built /\ app'.new = app.new /\ app'.branch = app.branch /\ app'.job = app.job
<1> USE DEF refs, papers, working, histories
<1>1. ScanClean \/ MakeBranch \/ Push
        => Built /\ app'.new = app.new /\ app'.branch = app.branch /\ app'.job = app.job
  BY DEF ScanClean, MakeBranch, Push, Built, TypeOK
<1>2. ScanFinds \/ PushFails \/ WritePushed \/ Crash => app' = Idle
  BY DEF ScanFinds, PushFails, WritePushed, Crash
<1>3. FetchIssue \/ MoveBranch \/ PushAgain => app' = Idle \/ app'.pc \in {"build", "record"}
  BY DEF FetchIssue, MoveBranch, PushAgain, TypeOK
<1>4. \A j \in Jobs : Approve(j) => app' = app \/ app'.pc \in {"fetch", "build", "repush"}
  BY DEF Approve, Idle
<1>5. /\ \A j \in Jobs : StartRun(j) \/ StartReview(j) => app' = app
      /\ \A ok \in BOOLEAN : EndRun(ok) \/ EndReview(ok) => app' = app
      /\ \A f \in Files : PersonEdits(f) \/ PersonUndoes(f) \/ PersonCommits(f) => app' = app
      /\ \A b \in TeamBranches : \A f \in Files : TeamPushes(b, f) => app' = app
      /\ PersonFetches \/ PersonPulls \/ UNCHANGED vars => app' = app
  BY DEF StartRun, StartReview, EndRun, EndReview, PersonEdits, PersonUndoes, PersonCommits,
         TeamPushes, PersonFetches, PersonPulls, vars
<1>6. app' # Idle /\ app'.pc \in {"scan", "branch", "push", "move"}
  BY DEF Built, Idle
<1> QED
  BY <1>1, <1>2, <1>3, <1>4, <1>5, <1>6 DEF Next, Built

\* What Build makes: the job's content, on the remote branch it is built on.
LEMMA BuildMakes ==
  ASSUME TypeOK, Underway, Build, Built'
  PROVE  /\ app.job \in Jobs /\ FileOf[app.job] \in Files /\ app.branch \in Branches
         /\ app'.job = app.job /\ app'.branch = app.branch
         /\ Upstream \in Histories /\ Upstream \in Seq(Commits) /\ IsRef(Upstream)
         /\ ~Mixed(Upstream) /\ BranchReady(Upstream)
         /\ \E c \in Commits :
              /\ app'.new = Append(Upstream, c) /\ c.by = app.job
              /\ \A f \in Files : c.tree[f] = IF f = FileOf[app.job] THEN Content(app.job)
                                                                     ELSE TreeOf(Upstream)[f]
<1> DEFINE up == Upstream
           c == [by |-> app.job,
                 tree |-> [TreeOf(up) EXCEPT ![FileOf[app.job]] = Content(app.job)]]
<1>1. app.job \in Jobs /\ FileOf[app.job] \in Files /\ app.branch \in Branches /\ head \in Branches
  BY ApprovePushAssumption DEF Underway, Placed, Build, TypeOK
<1>2. app' # Idle
  BY DEF Built, Idle
<1>3. /\ IsRef(up) /\ ~Mixed(up) /\ BranchReady(up)
      /\ app' = [app EXCEPT !.pc = "scan", !.old = local[app.branch], !.new = CommitOf(app.job, up)]
  BY <1>2 DEF Build
<1>4. app'.job = app.job /\ app'.branch = app.branch /\ app'.new = CommitOf(app.job, up)
  BY <1>3 DEF TypeOK
<1>5. up \in Histories
  BY <1>1 DEF Upstream, TypeOK
<1>6. TreeOf(up) \in Trees /\ up \in Seq(Commits) /\ Content(app.job) \in SUBSET Edits
  BY <1>1, <1>3, <1>5, HistoryTyped, ShowsTyped
<1>7. c \in Commits /\ c.by = app.job
  BY <1>1, <1>6 DEF Commits, Trees
<1>8. \A f \in Files : c.tree[f] = IF f = FileOf[app.job] THEN Content(app.job) ELSE TreeOf(up)[f]
  BY <1>1, <1>6 DEF Trees
<1>9. app'.new = Append(up, c)
  BY <1>4 DEF CommitOf
<1> QED
  BY <1>1, <1>3, <1>4, <1>5, <1>6, <1>7, <1>8, <1>9

LEMMA TreeOfAppend ==
  ASSUME NEW h \in Seq(Commits), NEW c \in Commits
  PROVE  /\ TreeOf(Append(h, c)) = c.tree /\ Append(h, c) \in Seq(Commits)
         /\ Len(Append(h, c)) = Len(h) + 1 /\ Append(h, c)[Len(h) + 1] = c
         /\ \A i \in DOMAIN h : Append(h, c)[i] = h[i]
         /\ \A i \in DOMAIN Append(h, c) : i \in DOMAIN h \/ i = Len(h) + 1
  BY DEF TreeOf, Last

\* What a teammate's push adds.
LEMMA TeamAdds ==
  ASSUME TypeOK, NEW b \in TeamBranches, NEW f \in Files, TeamPushes(b, f)
  PROVE  /\ b \in Branches /\ remote[b] \in Seq(Commits) /\ IsRef(remote[b])
         /\ TeamCommit(remote[b], f) \in Commits
         /\ remote' = [remote EXCEPT ![b] = Append(remote[b], TeamCommit(remote[b], f))]
         /\ local' = local /\ origin' = origin /\ app' = app /\ done' = done + 1 /\ done \in Nat
         /\ \A x \in Files : TeamCommit(remote[b], f).tree[x]
                               = TreeOf(remote[b])[x] \cup (IF x = f THEN {Edit(Team, done)} ELSE {})
<1>1. b \in Branches /\ remote[b] \in Histories /\ IsRef(remote[b])
  BY ApprovePushAssumption DEF TeamPushes, TypeOK
<1>2. TreeOf(remote[b]) \in Trees /\ remote[b] \in Seq(Commits)
  BY <1>1, HistoryTyped
<1>3. Edit(Team, done) \in Edits /\ done \in Nat
  BY EditsTyped, ApprovePushAssumption DEF TypeOK
<1>4. TeamCommit(remote[b], f) \in Commits
  BY <1>2, <1>3 DEF TeamCommit, Commits, Trees
<1>5. \A x \in Files : TeamCommit(remote[b], f).tree[x]
                         = TreeOf(remote[b])[x] \cup (IF x = f THEN {Edit(Team, done)} ELSE {})
  BY <1>2 DEF TeamCommit, Trees
<1> QED
  BY <1>1, <1>2, <1>3, <1>4, <1>5 DEF TeamPushes, refs, working

LEMMA OwnedStep ==
  ASSUME TypeOK, Underway, Owned, [Next]_vars
  PROVE  Owned'
<1> USE DEF refs, papers, working, histories
<1> DEFINE Its(a) == a.branch \in IF Adding(a.job) THEN {IssueBranch[a.job]}
                                                   ELSE {OwnBranch[a.job], StoryBranch[a.job]}
<1>a. head' = head /\ IsRef(local[head]) /\ head \in Branches
  BY RefsMove, ApprovePushAssumption DEF TypeOK
<1>b. app.pc # "idle" => app.job \in Jobs /\ app.branch \in Branches
  BY DEF Underway, Placed
<1>1. ASSUME NEW j \in Jobs, Approve(j), app' # app
      PROVE  /\ Its(app') /\ (app'.pc = "repush" => ~Adding(app'.job) /\ app'.branch # head)
             /\ app'.pc \in {"fetch", "build", "repush"}
  <2>1. app' = [Idle EXCEPT !.job = j, !.branch = BranchFor(j),
                  !.pc = IF Adding(j) THEN "fetch" ELSE IF OnlyPushOwed(j) THEN "repush" ELSE "build"]
    BY <1>1 DEF Approve
  <2>2. /\ app'.job = j /\ app'.branch = BranchFor(j) /\ app'.pc \in {"fetch", "build", "repush"}
        /\ app'.pc = "repush" => OnlyPushOwed(j)
    BY <2>1 DEF Idle
  <2>3. Its(app')
    BY <2>2 DEF BranchFor
  <2>4. app'.pc = "repush" => ~Adding(j) /\ BranchFor(j) # head
    BY <2>2 DEF OnlyPushOwed, Owned
  <2> QED
    BY <2>2, <2>3, <2>4
<1>2. \/ app' = app \/ app'.pc = "idle"
      \/ \E j \in Jobs : Approve(j) /\ app' # app
      \/ app.pc # "idle" /\ app'.job = app.job /\ app'.branch = app.branch
         /\ \/ app'.pc \in {"build", "move", "record"} \/ Built' \/ app'.pc = app.pc
  <2>1. ScanClean \/ MakeBranch \/ Push =>
          /\ Built' \/ app'.pc = "record"
          /\ app'.branch = app.branch /\ app'.job = app.job
    BY DEF ScanClean, MakeBranch, Push, Built, TypeOK
  <2>2. ScanFinds \/ PushFails \/ WritePushed \/ Crash => app'.pc = "idle"
    BY DEF ScanFinds, PushFails, WritePushed, Crash, Idle
  <2>3. FetchIssue \/ MoveBranch \/ PushAgain
          => app'.pc = "idle" \/ (app'.pc \in {"build", "record"} /\ app'.branch = app.branch /\ app'.job = app.job)
    BY DEF FetchIssue, MoveBranch, PushAgain, Idle, TypeOK
  <2>4. Build => app'.pc = "idle" \/ (app'.pc = "scan" /\ app'.branch = app.branch /\ app'.job = app.job)
    BY DEF Build, Idle, TypeOK
  <2>5. /\ \A j \in Jobs : StartRun(j) \/ StartReview(j) => app' = app
        /\ \A ok \in BOOLEAN : EndRun(ok) \/ EndReview(ok) => app' = app
        /\ \A f \in Files : PersonEdits(f) \/ PersonUndoes(f) \/ PersonCommits(f) => app' = app
        /\ \A b \in TeamBranches : \A f \in Files : TeamPushes(b, f) => app' = app
        /\ PersonFetches \/ PersonPulls \/ UNCHANGED vars => app' = app
    BY DEF StartRun, StartReview, EndRun, EndReview, PersonEdits, PersonUndoes, PersonCommits,
           TeamPushes, PersonFetches, PersonPulls, vars
  <2>6. ScanClean \/ MakeBranch \/ Push \/ FetchIssue \/ MoveBranch \/ PushAgain \/ Build => app.pc # "idle"
    BY DEF ScanClean, MakeBranch, Push, FetchIssue, MoveBranch, PushAgain, Build
  <2>7. CASE Next
    BY <2>1, <2>2, <2>3, <2>4, <2>5, <2>6, <2>7 DEF Next, Built
  <2> QED
    BY <2>5, <2>7
<1>3. app'.pc # "idle" => Its(app')
  BY <1>1, <1>2 DEF Owned
<1>4. app'.pc = "repush" => ~Adding(app'.job)
  BY <1>1, <1>2 DEF Owned, Built
<1>5. ASSUME app'.pc \in {"repush", "scan", "branch", "push"}, ~Adding(app'.job)
      PROVE  app'.branch # head
  <2>1. CASE Build /\ Built'
    BY <1>5, <1>a, <2>1, BuildMakes DEF BranchReady
  <2>2. CASE Built' /\ ~Build
    BY <1>5, <2>2, CarriesOn DEF Owned, Built, Underway, OnItsPath
  <2>3. CASE ~Built'
    BY <1>1, <1>2, <1>5, <2>3 DEF Owned, Built
  <2> QED
    BY <2>1, <2>2, <2>3
<1>6. ASSUME NEW j \in Jobs, review'[j].state = "push-failed", ~Adding(j)
      PROVE  review'[j].branch # head
  <2>1. CASE review'[j].state = review[j].state /\ review'[j].branch = review[j].branch
    BY <1>6, <2>1 DEF Owned
  <2>2. CASE PushFails
    <3>1. CASE app.job = j
      <4>1. review'[j].branch = app.branch
        BY <1>b, <2>2, <3>1 DEF PushFails, PushFailed, TypeOK
      <4> QED
        BY <1>6, <2>2, <3>1, <4>1 DEF PushFails, Owned
    <3>2. CASE app.job # j
      BY <2>1, <2>2, <3>2 DEF PushFails, PushFailed, TypeOK
    <3> QED
      BY <3>1, <3>2
  <2>3. CASE WritePushed \/ ScanFinds
    <3>1. review'[j].state \in {"pushed", "pending-review"} \/ review'[j] = review[j]
      BY <2>3 DEF WritePushed, ScanFinds, TypeOK
    <3> QED
      BY <1>6, <2>1, <3>1
  <2>4. CASE \E ok \in BOOLEAN : EndRun(ok)
    <3>1. review'[j].state = review[j].state /\ review'[j].branch = review[j].branch
      BY <2>4 DEF EndRun, Record, TypeOK
    <3> QED
      BY <2>1, <3>1
  <2>5. CASE \E i \in Jobs : Approve(i)
    <3>1. review'[j].state = review[j].state /\ review'[j].branch = review[j].branch
      BY <2>5 DEF Approve, TypeOK
    <3> QED
      BY <2>1, <3>1
  <2>6. \/ review' = review \/ PushFails \/ WritePushed \/ ScanFinds
        \/ \E ok \in BOOLEAN : EndRun(ok)
        \/ \E i \in Jobs : Approve(i)
    BY DEF Next, vars, StartRun, StartReview, EndReview, FetchIssue, Build, ScanClean, MakeBranch,
           Push, MoveBranch, PushAgain, PersonEdits, PersonUndoes, PersonCommits, PersonFetches,
           PersonPulls, TeamPushes, Crash
  <2> QED
    BY <2>1, <2>2, <2>3, <2>4, <2>5, <2>6
<1> QED
  BY <1>a, <1>3, <1>4, <1>5, <1>6 DEF Owned, Adding

\* Built for the branch checked out: on what it is here, with what the tree has.
LEMMA BuiltHere ==
  ASSUME TypeOK, Underway, Covered, Build, Built', app.branch = head
  PROVE  /\ Adding(app.job) /\ Upstream = origin[head] /\ Upstream = local[head]
         /\ Covers(tree, app'.new)
<1>1. PICK c \in Commits :
        /\ app'.new = Append(Upstream, c) /\ c.by = app.job
        /\ \A f \in Files : c.tree[f] = IF f = FileOf[app.job] THEN Content(app.job)
                                                               ELSE TreeOf(Upstream)[f]
  BY BuildMakes
<1>2. BranchReady(Upstream) /\ Upstream \in Seq(Commits) /\ IsRef(local[head])
  BY BuildMakes DEF TypeOK
<1>3. Adding(app.job) /\ Upstream = local[head]
  BY <1>2 DEF BranchReady
<1>4. TreeOf(app'.new) = c.tree
  BY <1>1, <1>2, TreeOfAppend
<1>5. Covers(tree, Upstream)
  BY <1>3 DEF Covered
<1>6. ASSUME NEW f \in Files PROVE c.tree[f] \subseteq tree[f]
  BY <1>1, <1>5 DEF Covers, Content
<1> QED
  BY <1>3, <1>4, <1>6 DEF Covers, Upstream

LEMMA CoveredStep ==
  ASSUME ~EditsAnyTime, TypeOK, Underway, Owned, Covered, [Next]_vars
  PROVE  Covered'
<1> USE DEF refs, papers, working, histories
<1>a. /\ head' = head /\ head \in Branches /\ local[head] \in Histories /\ IsRef(local[head])
      /\ tree \in Trees /\ tree' \in Trees
  BY RefsMove, TypeStep, ApprovePushAssumption DEF TypeOK
<1>b. local[head] \in Seq(Commits) /\ TreeOf(local[head]) \in Trees
  BY <1>a, HistoryTyped
<1>c. Covers(tree, local[head])
  BY DEF Covered
<1>d. ASSUME local'[head] = local[head] PROVE Covers(tree', local'[head])
  <2>1. CASE tree' = tree
    BY <1>c, <1>d, <2>1
  <2>2. ASSUME NEW f \in Files, PersonEdits(f) \/ PersonUndoes(f)
        PROVE  Covers(tree', local'[head])
    <3>1. \A x \in Files : TreeOf(local[head])[x] \subseteq tree'[x]
      BY <1>a, <1>c, <2>2 DEF PersonEdits, PersonUndoes, Covers, Trees
    <3> QED
      BY <1>d, <3>1 DEF Covers
  <2>3. CASE PersonPulls
    <3>1. local'[head] = origin[head] /\ IsStrictPrefix(local[head], origin[head])
      BY <1>a, <2>3 DEF PersonPulls, TypeOK
    <3> QED
      BY <1>d, <3>1 DEF IsStrictPrefix
  <2>4. \/ tree' = tree \/ PersonPulls
        \/ \E f \in Files : PersonEdits(f) \/ PersonUndoes(f)
    BY DEF Next, vars, StartRun, StartReview, Approve, EndRun, EndReview, FetchIssue, Build,
           ScanClean, ScanFinds, MakeBranch, Push, PushFails, MoveBranch, PushAgain, WritePushed,
           PersonCommits, PersonFetches, TeamPushes, Crash
  <2> QED
    BY <2>1, <2>2, <2>3, <2>4
<1>1. Covers(tree', local'[head])
  <2>1. CASE local' = local
    BY <1>d, <2>1
  <2>2. ASSUME NEW f \in Files, PersonCommits(f) PROVE Covers(tree', local'[head])
    <3> DEFINE c == [by |-> Me, tree |-> [TreeOf(local[head]) EXCEPT ![f] = tree[f]]]
    <3>1. c \in Commits
      BY <1>a, <1>b DEF Commits, Trees
    <3>2. local'[head] = Append(local[head], c) /\ tree' = tree
      BY <1>a, <2>2 DEF PersonCommits, TypeOK
    <3>3. TreeOf(local'[head]) = c.tree
      BY <1>b, <3>1, <3>2, TreeOfAppend
    <3>4. \A x \in Files : c.tree[x] \subseteq tree[x]
      BY <1>b, <1>c DEF Covers, Trees
    <3> QED
      BY <3>2, <3>3, <3>4 DEF Covers
  <2>3. CASE PersonPulls
    <3>1. /\ local'[head] = origin[head]
          /\ tree' = [f \in Files |-> IF TreeOf(origin[head])[f] # TreeOf(local[head])[f]
                                      THEN TreeOf(origin[head])[f] ELSE tree[f]]
      BY <1>a, <2>3 DEF PersonPulls, TypeOK
    <3>2. \A f \in Files : TreeOf(origin[head])[f] \subseteq tree'[f]
      BY <1>c, <3>1 DEF Covers
    <3> QED
      BY <3>1, <3>2 DEF Covers
  <2>4. CASE MakeBranch
    <3>1. app.branch # head /\ local' = [local EXCEPT ![app.branch] = app.new]
      BY <2>4 DEF MakeBranch, Owned, Underway, OnItsPath
    <3> QED
      BY <1>a, <1>d, <3>1 DEF TypeOK
  <2>5. CASE MoveBranch
    <3>1. tree' = tree /\ app.pc = "move"
      BY <2>5 DEF MoveBranch
    <3>2. local'[head] = local[head] \/ (app.branch = head /\ local'[head] = app.new)
      BY <1>a, <2>5 DEF MoveBranch, TypeOK
    <3> QED
      BY <1>d, <3>1, <3>2 DEF Covered, Built
  <2>6. local' = local \/ PersonPulls \/ MakeBranch \/ MoveBranch \/ \E f \in Files : PersonCommits(f)
    BY RefsMove DEF FetchIssue, Push, PushAgain, PersonFetches, TeamPushes
  <2> QED
    BY <2>1, <2>2, <2>3, <2>4, <2>5, <2>6
<1>2. ASSUME Built', app'.branch = head PROVE Covers(tree', app'.new)
  <2>1. app.pc # "idle"
    BY <1>2, CarriesOn DEF Built, Build
  <2>2. tree' = tree
    BY <2>1, TreeStandsStill
  <2>3. CASE Build
    BY <1>2, <2>2, <2>3, BuildMakes, BuiltHere
  <2>4. CASE ~Build
    BY <1>2, <2>2, <2>4, CarriesOn DEF Covered
  <2> QED
    BY <2>3, <2>4
<1> QED
  BY <1>a, <1>1, <1>2 DEF Covered

LEMMA AppendGrows ==
  ASSUME NEW h \in Seq(Commits), NEW c \in Commits, Grows(h),
         \A f \in Files : TreeOf(h)[f] \subseteq c.tree[f]
  PROVE  Grows(Append(h, c))
<1> SUFFICES ASSUME NEW i \in DOMAIN Append(h, c), NEW f \in Files
             PROVE  Append(h, c)[i].tree[f] \subseteq c.tree[f]
  BY TreeOfAppend DEF Grows
<1>1. CASE i \in DOMAIN h
  BY <1>1, TreeOfAppend DEF Grows
<1>2. CASE i = Len(h) + 1
  BY <1>2, TreeOfAppend
<1> QED
  BY <1>1, <1>2, TreeOfAppend

LEMMA GrowsStep ==
  ASSUME TypeOK, Underway, Owned, Covered, HeadGrows, [Next]_vars
  PROVE  HeadGrows'
<1> USE DEF refs, papers, working, histories
<1>a. head' = head /\ head \in Branches
  BY RefsMove, ApprovePushAssumption DEF TypeOK
<1>1. Grows(origin'[head]) /\ Grows(remote'[head])
  <2>1. CASE origin' = origin /\ remote' = remote
    BY <2>1 DEF HeadGrows
  <2>2. CASE FetchIssue
    <3>1. (origin'[head] = origin[head] \/ origin'[head] = remote[head]) /\ remote' = remote
      BY <1>a, <2>2 DEF FetchIssue, TypeOK
    <3> QED
      BY <3>1 DEF HeadGrows
  <2>3. CASE PersonFetches
    BY <2>3 DEF PersonFetches, HeadGrows
  <2>4. CASE Push
    <3>1. /\ origin'[head] = origin[head] \/ (app.branch = head /\ origin'[head] = app.new)
          /\ remote'[head] = remote[head] \/ (app.branch = head /\ remote'[head] = app.new)
          /\ Built
      BY <1>a, <2>4 DEF Push, Published, TypeOK, Built
    <3> QED
      BY <3>1 DEF HeadGrows
  <2>5. CASE PushAgain
    <3>1. app.branch # head
      BY <2>5 DEF PushAgain, Owned
    <3>2. origin'[head] = origin[head] /\ remote'[head] = remote[head]
      BY <1>a, <2>5, <3>1 DEF PushAgain, Published, TypeOK
    <3> QED
      BY <3>2 DEF HeadGrows
  <2>6. ASSUME NEW b \in TeamBranches, NEW f \in Files, TeamPushes(b, f)
        PROVE  Grows(origin'[head]) /\ Grows(remote'[head])
    <3>1. CASE b = head
      <4>a. /\ remote[b] \in Seq(Commits) /\ TeamCommit(remote[b], f) \in Commits
            /\ \A x \in Files : TeamCommit(remote[b], f).tree[x]
                                  = TreeOf(remote[b])[x] \cup (IF x = f THEN {Edit(Team, done)} ELSE {})
        BY <2>6, TeamAdds
      <4>b. \A x \in Files : TreeOf(remote[b])[x] \subseteq TeamCommit(remote[b], f).tree[x]
        BY <4>a
      <4>c. Grows(remote[b])
        BY <3>1 DEF HeadGrows
      <4>1. Grows(Append(remote[b], TeamCommit(remote[b], f)))
        BY <4>a, <4>b, <4>c, AppendGrows
      <4>2. remote'[head] = Append(remote[b], TeamCommit(remote[b], f)) /\ origin' = origin
        BY <1>a, <2>6, <3>1, TeamAdds DEF TypeOK
      <4> QED
        BY <4>1, <4>2 DEF HeadGrows
    <3>2. CASE b # head
      <4>1. remote'[head] = remote[head] /\ origin' = origin
        BY <1>a, <2>6, <3>2, TeamAdds DEF TypeOK
      <4> QED
        BY <4>1 DEF HeadGrows
    <3> QED
      BY <3>1, <3>2
  <2>7. \/ origin' = origin /\ remote' = remote
        \/ FetchIssue \/ PersonFetches \/ Push \/ PushAgain
        \/ \E b \in TeamBranches : \E f \in Files : TeamPushes(b, f)
    BY RefsMove DEF MakeBranch, MoveBranch, PersonCommits, PersonPulls
  <2> QED
    BY <2>1, <2>2, <2>3, <2>4, <2>5, <2>6, <2>7
<1>2. ASSUME Built', app'.branch = head PROVE Grows(app'.new)
  <2>1. CASE Build
    <3>1. PICK c \in Commits :
            /\ app'.new = Append(Upstream, c) /\ c.by = app.job
            /\ \A f \in Files : c.tree[f] = IF f = FileOf[app.job] THEN Content(app.job)
                                                                   ELSE TreeOf(Upstream)[f]
      BY <1>2, <2>1, BuildMakes
    <3>2. app.branch = head /\ Upstream \in Seq(Commits)
      BY <1>2, <2>1, BuildMakes
    <3>3. Upstream = origin[head] /\ Upstream = local[head]
      BY <1>2, <2>1, <3>2, BuiltHere
    <3>4. \A f \in Files : TreeOf(Upstream)[f] \subseteq c.tree[f]
      BY <3>1, <3>3 DEF Covered, Covers, Content
    <3> QED
      BY <3>1, <3>2, <3>3, <3>4, AppendGrows DEF HeadGrows
  <2>2. CASE ~Build
    BY <1>2, <2>2, CarriesOn DEF HeadGrows
  <2> QED
    BY <2>1, <2>2
<1> QED
  BY <1>a, <1>1, <1>2 DEF HeadGrows

\* A step makes one commit at most that starts a line, and that one is of its
\* line alone: the person's, a job's of the branch, or the team's last.
Fresh(x, g, c, d) ==
  \/ c.by \in Jobs /\ IssueBranch[c.by] = x
  \/ c.by = Me /\ x = head
  \/ /\ c.by = Team
     /\ \E f \in Files : Edit(Team, d) \in c.tree[f]
     /\ \A f \in Files : c.tree[f] \subseteq TreeOf(g)[f] \cup {Edit(Team, d)}
Adds(x, g, c) ==
  /\ x \in Branches /\ g \in OnLine(x) /\ g \in Seq(Commits) /\ IsRef(g) /\ c \in Commits
  /\ Fresh(x, g, c, done)
  /\ c.by = Team => done' = done + 1

LEMMA MeIsNotTeam == Me # Team
<1> SUFFICES ASSUME Me = Team PROVE FALSE
  OBVIOUS
<1>1. {Me, Team, NoJob} = {Me} \cup {NoJob}
  OBVIOUS
<1>2. IsFiniteSet({Me}) /\ Cardinality({Me}) = 1
  BY FS_Singleton
<1>3. Cardinality({Me} \cup {NoJob}) \in {1, 2}
  BY <1>2, FS_AddElement
<1>4. Cardinality({Me, Team, NoJob}) = 3
  BY ApprovePushAssumption
<1>5. Cardinality({Me} \cup {NoJob}) = 3
  BY <1>1, <1>4, Zenon
<1>6. 3 \notin {1, 2}
  OBVIOUS
<1> QED
  BY <1>3, <1>5, <1>6, Zenon

\* A line's first commit is not another's.
LEMMA FreshIsApart ==
  ASSUME TypeOK, LinesApart, NEW x \in Lines, NEW g, NEW c, Adds(x, g, c), Len(g) = 1,
         NEW b \in Lines, b # x, NEW h \in OnLine(b), Len(h) > 1
  PROVE  c # h[2]
<1>1. IsRef(h)
  BY DEF IsRef, NoRef
<1>2. \/ h[2].by \in Jobs /\ IssueBranch[h[2].by] = b
      \/ h[2].by = Team /\ \A f \in Files : \A e \in h[2].tree[f] : e.n < done
      \/ h[2].by = Me /\ b = head
  BY <1>1 DEF LinesApart, Starts
<1>3. ~(Edit(Team, done).n < done)
  BY ApprovePushAssumption DEF Edit, TypeOK
<1> QED
  BY <1>2, <1>3, MeIsNotTeam, NobodyElseIsAJob DEF Adds, Fresh

LEMMA SecondOfAppend ==
  ASSUME NEW g \in Seq(Commits), IsRef(g), NEW c \in Commits
  PROVE  /\ Len(g) = 1 \/ Len(g) > 1
         /\ Append(g, c)[1] = g[1]
         /\ Len(g) > 1 => Append(g, c)[2] = g[2] /\ g[2] \in Commits
         /\ Len(g) = 1 => Append(g, c)[2] = c
<1>1. Len(g) \in Nat /\ Len(g) # 0
  BY DEF IsRef, NoRef
<1>2. Len(g) = 1 \/ Len(g) > 1
  BY <1>1
<1>3. 1 \in DOMAIN g /\ (Len(g) > 1 => 2 \in DOMAIN g)
  BY <1>2
<1>4. \A i \in DOMAIN g : Append(g, c)[i] = g[i] /\ g[i] \in Commits
  OBVIOUS
<1>5. Append(g, c)[Len(g) + 1] = c
  OBVIOUS
<1> QED
  BY <1>2, <1>3, <1>4, <1>5

LEMMA LongerStarts ==
  ASSUME TypeOK, TypeOK', LinesApart, NEW x \in Lines, NEW g, NEW c, Adds(x, g, c), done <= done'
  PROVE  Starts(x, Append(g, c), done')
<1> DEFINE n == Append(g, c)
<1> SUFFICES Starts(x, n, done')
  OBVIOUS
<1>1. /\ g \in Seq(Commits) /\ c \in Commits /\ IsRef(g) /\ g \in OnLine(x)
      /\ done \in Nat /\ done' \in Nat
  BY ApprovePushAssumption DEF Adds, TypeOK
<1>2. Len(g) = 1 \/ Len(g) > 1
  BY <1>1, SecondOfAppend
<1>3. /\ n[1] = g[1]
      /\ Len(g) > 1 => n[2] = g[2] /\ g[2] \in Commits
      /\ Len(g) = 1 => n[2] = c
  BY <1>1, SecondOfAppend
<1> HIDE DEF n
<1>4. Starts(x, g, done)
  BY <1>1 DEF LinesApart
<1>5. n[1] = Root[1]
  BY <1>1, <1>3, <1>4 DEF Starts
<1>6. CASE Len(g) > 1
  <2>1. \/ g[2].by \in Jobs /\ IssueBranch[g[2].by] = x
        \/ g[2].by = Team /\ \A f \in Files : \A e \in g[2].tree[f] : e.n < done
        \/ g[2].by = Me /\ x = head
    BY <1>1, <1>4, <1>6 DEF Starts
  <2>2. ASSUME NEW f \in Files, NEW e \in g[2].tree[f], e.n < done PROVE e.n < done'
    <3>1. e \in Edits
      BY <1>3, <1>6 DEF Commits, Trees
    <3>2. e.n \in Nat
      BY <3>1 DEF Edits
    <3> QED
      BY <1>1, <2>2, <3>2
  <2> QED
    BY <1>3, <1>5, <1>6, <2>1, <2>2 DEF Starts
<1>7. CASE Len(g) = 1
  <2>1. g[1] = Root[1] /\ Root[1].tree = [f \in Files |-> {}]
    <3>1. g[1] = Root[1]
      BY <1>1, <1>4 DEF Starts
    <3> QED
      BY <3>1 DEF Root
  <2>2. \A f \in Files : TreeOf(g)[f] = {}
    BY <1>7, <2>1 DEF TreeOf, Last
  <2>3. \/ c.by \in Jobs /\ IssueBranch[c.by] = x
        \/ c.by = Me /\ x = head
        \/ c.by = Team /\ done' = done + 1 /\ \A f \in Files : \A e \in c.tree[f] : e = Edit(Team, done)
    BY <2>2 DEF Adds, Fresh
  <2>4. Edit(Team, done).n = done
    BY DEF Edit
  <2>5. \/ c.by \in Jobs /\ IssueBranch[c.by] = x
        \/ c.by = Me /\ x = head
        \/ c.by = Team /\ \A f \in Files : \A e \in c.tree[f] : e.n < done'
    BY <1>1, <2>3, <2>4
  <2> QED
    BY <1>3, <1>5, <1>7, <2>5 DEF Starts
<1> QED
  BY <1>2, <1>6, <1>7

LEMMA LongerIsApart ==
  ASSUME TypeOK, LinesApart, NEW x \in Lines, NEW g, NEW c, Adds(x, g, c),
         NEW b \in Lines, b # x, NEW h \in OnLine(b)
  PROVE  Apart(Append(g, c), h) /\ Apart(h, Append(g, c))
<1> DEFINE n == Append(g, c)
<1> SUFFICES Apart(n, h) /\ Apart(h, n)
  OBVIOUS
<1>1. g \in Seq(Commits) /\ c \in Commits /\ IsRef(g) /\ g \in OnLine(x)
  BY DEF Adds
<1>2. Len(g) = 1 \/ Len(g) > 1
  BY <1>1, SecondOfAppend
<1>3. /\ Len(g) > 1 => n[2] = g[2]
      /\ Len(g) = 1 => n[2] = c
  BY <1>1, SecondOfAppend
<1> HIDE DEF n
<1>4. Apart(g, h)
  BY <1>1 DEF LinesApart
<1>5. Len(g) = 1 /\ Len(h) > 1 => c # h[2]
  BY FreshIsApart
<1> QED
  BY <1>2, <1>3, <1>4, <1>5 DEF Apart

\* What is on the lines after a step, from what was.
LEMMA LinesKeepApart ==
  ASSUME TypeOK, TypeOK', LinesApart, head' = head, done <= done',
         \/ \A b \in Lines : OnLine(b)' \subseteq OnLine(b)
         \/ \E x, g, c : /\ Adds(x, g, c)
                         /\ \A b \in Lines : OnLine(b)' \subseteq
                              OnLine(b) \cup (IF b = x THEN {Append(g, c)} ELSE {})
  PROVE  LinesApart'
<1>a. done \in Nat /\ done' \in Nat /\ Lines' = Lines
  BY ApprovePushAssumption DEF TypeOK, Lines, Adding
<1>b. \A b, h, d : Starts(b, h, d) => Starts(b, h, d)'
  BY DEF Starts
<1>c. ASSUME NEW b \in Lines, NEW h \in OnLine(b) PROVE Starts(b, h, done')
  <2>1. Starts(b, h, done)
    BY DEF LinesApart
  <2>2. b \in Branches
    BY ApprovePushAssumption DEF Lines, Adding, TypeOK
  <2>3. h \in Histories
    BY <2>2 DEF OnLine, TypeOK, Built
  <2>4. h \in Seq(Commits)
    BY <2>3, HistoryTyped
  <2>5. ASSUME Len(h) > 1, NEW f \in Files, NEW e \in h[2].tree[f], e.n < done PROVE e.n < done'
    <3>1. h[2] \in Commits
      BY <2>4, <2>5
    <3>2. e \in Edits
      BY <2>5, <3>1 DEF Commits, Trees
    <3>3. e.n \in Nat
      BY <3>2 DEF Edits
    <3> QED
      BY <1>a, <2>5, <3>3
  <2> QED
    BY <2>1, <2>5 DEF Starts
<1>1. CASE \A b \in Lines : OnLine(b)' \subseteq OnLine(b)
  <2>1. \A b \in Lines : \A h \in OnLine(b)' : Starts(b, h, done')
    BY <1>c, <1>1
  <2>2. \A b, c \in Lines : b # c => \A g \in OnLine(b)', h \in OnLine(c)' : Apart(g, h)
    BY <1>1 DEF LinesApart
  <2> QED
    BY <1>a, <2>1, <2>2 DEF LinesApart, Starts
<1>2. ASSUME NEW x, NEW g, NEW c, Adds(x, g, c),
             \A b \in Lines : OnLine(b)' \subseteq
               OnLine(b) \cup (IF b = x THEN {Append(g, c)} ELSE {})
      PROVE  LinesApart'
  <2> DEFINE n == Append(g, c)
  <2>1. x \in Lines => Starts(x, n, done')
    BY <1>2, LongerStarts
  <2>2. x \in Lines => \A b \in Lines : b # x => \A h \in OnLine(b) : Apart(n, h) /\ Apart(h, n)
    BY <1>2, LongerIsApart
  <2>3. \A b \in Lines : \A h \in OnLine(b)' : h \in OnLine(b) \/ (b = x /\ h = n)
    BY <1>2
  <2> HIDE DEF n
  <2>4. \A b \in Lines : \A h \in OnLine(b)' : Starts(b, h, done')
    BY <1>c, <2>1, <2>3
  <2>5. \A b, d \in Lines : b # d => \A k \in OnLine(b)', h \in OnLine(d)' : Apart(k, h)
    BY <2>2, <2>3 DEF LinesApart
  <2> QED
    BY <1>a, <2>4, <2>5 DEF LinesApart, Starts
<1> QED
  BY <1>1, <1>2

\* Whatever a ref of a line becomes, and the commit under way to it, is one of
\* the line's already, but for the commits the three next lemmas are about.
LEMMA NoNews ==
  ASSUME IssueBranchesApart, TypeOK, Underway, Owned, [Next]_vars,
         \A f \in Files : ~PersonCommits(f),
         \A b \in TeamBranches : \A f \in Files : ~TeamPushes(b, f),
         NEW b \in Lines, ~(Build /\ Built' /\ app'.branch = b)
  PROVE  OnLine(b)' \subseteq OnLine(b)
<1> USE DEF refs, papers, working, histories
<1>a. head' = head /\ head \in Branches /\ b \in Branches
  BY RefsMove, ApprovePushAssumption DEF TypeOK, Lines, Adding
<1>b. app.pc # "idle" => app.job \in Jobs /\ app.branch \in Branches
  BY DEF Underway, Placed
<1>1. Built' /\ app'.branch = b => app'.new \in OnLine(b)
  BY CarriesOn DEF OnLine
<1>2. origin[b] \in OnLine(b) /\ remote[b] \in OnLine(b) /\ (b = head => local[head] \in OnLine(b))
  BY DEF OnLine
<1>3. origin'[b] \in OnLine(b) /\ remote'[b] \in OnLine(b)
  <2>1. CASE origin' = origin /\ remote' = remote
    BY <1>2, <2>1
  <2>2. CASE FetchIssue
    <3>1. (origin'[b] = origin[b] \/ origin'[b] = remote[b]) /\ remote' = remote
      BY <1>a, <2>2 DEF FetchIssue, TypeOK
    <3> QED
      BY <1>2, <3>1
  <2>3. CASE PersonFetches
    BY <1>2, <2>3 DEF PersonFetches
  <2>4. CASE Push
    <3>1. /\ origin'[b] = origin[b] \/ (app.branch = b /\ origin'[b] = app.new)
          /\ remote'[b] = remote[b] \/ (app.branch = b /\ remote'[b] = app.new)
          /\ Built
      BY <1>a, <2>4 DEF Push, Published, TypeOK, Built
    <3>2. app.branch = b => app.new \in OnLine(b)
      BY <3>1 DEF OnLine
    <3> QED
      BY <1>2, <3>1, <3>2
  <2>5. CASE PushAgain
    <3>1. app.pc = "repush" /\ app.job \in Jobs
      BY <1>b, <2>5 DEF PushAgain
    <3>2. app.branch # head /\ app.branch \in {OwnBranch[app.job], StoryBranch[app.job]}
      BY <3>1 DEF Owned
    <3>3. app.branch # b
      BY <3>1, <3>2 DEF IssueBranchesApart, Lines
    <3>4. origin'[b] = origin[b] /\ remote'[b] = remote[b]
      BY <1>a, <2>5, <3>3 DEF PushAgain, Published, TypeOK
    <3> QED
      BY <1>2, <3>4
  <2>6. \/ origin' = origin /\ remote' = remote
        \/ FetchIssue \/ PersonFetches \/ Push \/ PushAgain
    BY RefsMove DEF MakeBranch, MoveBranch, PersonPulls
  <2> QED
    BY <2>1, <2>2, <2>3, <2>4, <2>5, <2>6
<1>4. b = head => local'[head] \in OnLine(b)
  <2>1. CASE local' = local
    BY <1>2, <2>1
  <2>2. CASE PersonPulls
    <3>1. local'[head] = origin[head]
      BY <1>a, <2>2 DEF PersonPulls, TypeOK
    <3> QED
      BY <1>2, <3>1
  <2>3. CASE MakeBranch
    <3>1. app.branch # head
      BY <2>3 DEF MakeBranch, Owned, Underway, OnItsPath
    <3>2. local'[head] = local[head]
      BY <1>a, <2>3, <3>1 DEF MakeBranch, TypeOK
    <3> QED
      BY <1>2, <3>2
  <2>4. CASE MoveBranch
    <3>1. local'[head] = local[head] \/ (app.branch = head /\ local'[head] = app.new)
      BY <1>a, <2>4 DEF MoveBranch, TypeOK
    <3>2. Built
      BY <2>4 DEF MoveBranch, Built
    <3> QED
      BY <1>2, <3>1, <3>2 DEF OnLine
  <2>5. local' = local \/ PersonPulls \/ MakeBranch \/ MoveBranch
    BY RefsMove DEF FetchIssue, Push, PushAgain, PersonFetches
  <2> QED
    BY <2>1, <2>2, <2>3, <2>4, <2>5
<1>5. OnLine(b)' = {origin'[b], remote'[b]} \cup (IF b = head THEN {local'[head]} ELSE {})
                     \cup (IF Built' /\ app'.branch = b THEN {app'.new} ELSE {})
  BY <1>a DEF OnLine
<1> QED
  BY <1>1, <1>3, <1>4, <1>5

\* The person's commit is on the branch checked out,
LEMMA PersonsNews ==
  ASSUME TypeOK, LinesApart, NEW f \in Files, PersonCommits(f)
  PROVE  \E x, g, c : /\ Adds(x, g, c)
                      /\ \A b \in Lines : OnLine(b)' \subseteq
                           OnLine(b) \cup (IF b = x THEN {Append(g, c)} ELSE {})
<1> DEFINE g == local[head]
           c == [by |-> Me, tree |-> [TreeOf(g) EXCEPT ![f] = tree[f]]]
<1>1. head \in Branches /\ g \in Histories /\ IsRef(g)
  BY ApprovePushAssumption DEF TypeOK
<1>2. g \in Seq(Commits) /\ TreeOf(g) \in Trees /\ tree \in Trees
  BY <1>1, HistoryTyped DEF TypeOK
<1>3. c \in Commits /\ c.by = Me
  BY <1>2 DEF Commits, Trees
<1>4. /\ origin' = origin /\ remote' = remote /\ app' = app /\ head' = head
      /\ local' = [local EXCEPT ![head] = Append(g, c)]
  BY DEF PersonCommits, working
<1>5. local'[head] = Append(g, c)
  BY <1>1, <1>4 DEF TypeOK
<1>6. Adds(head, g, c)
  BY <1>1, <1>2, <1>3, MeIsNotTeam DEF Adds, Fresh, OnLine
<1> HIDE DEF c
<1>7. ASSUME NEW b \in Lines
      PROVE  OnLine(b)' \subseteq OnLine(b) \cup (IF b = head THEN {Append(g, c)} ELSE {})
  BY <1>4, <1>5 DEF OnLine, Built
<1> QED
  BY <1>6, <1>7

\* the team's on its branch,
LEMMA TeamsNews ==
  ASSUME TypeOK, LinesApart, NEW t \in TeamBranches, NEW f \in Files, TeamPushes(t, f)
  PROVE  \E x, g, c : /\ Adds(x, g, c)
                      /\ \A b \in Lines : OnLine(b)' \subseteq
                           OnLine(b) \cup (IF b = x THEN {Append(g, c)} ELSE {})
<1> DEFINE g == remote[t]
           c == TeamCommit(g, f)
<1>1. /\ t \in Branches /\ g \in Seq(Commits) /\ IsRef(g) /\ c \in Commits
      /\ remote' = [remote EXCEPT ![t] = Append(g, c)]
      /\ local' = local /\ origin' = origin /\ app' = app /\ done' = done + 1
      /\ \A x \in Files : c.tree[x] = TreeOf(g)[x] \cup (IF x = f THEN {Edit(Team, done)} ELSE {})
  BY TeamAdds
<1>2. c.by = Team /\ head' = head
  BY DEF TeamCommit, TeamPushes, refs
<1>3. Adds(t, g, c)
  BY <1>1, <1>2 DEF Adds, Fresh, OnLine
<1> HIDE DEF c
<1>4. ASSUME NEW b \in Lines
      PROVE  OnLine(b)' \subseteq OnLine(b) \cup (IF b = t THEN {Append(g, c)} ELSE {})
  <2>1. b \in Branches
    BY ApprovePushAssumption DEF Lines, Adding, TypeOK
  <2>2. remote'[b] = remote[b] \/ (b = t /\ remote'[b] = Append(g, c))
    BY <1>1, <2>1 DEF TypeOK
  <2> QED
    BY <1>1, <1>2, <2>2 DEF OnLine, Built
<1> QED
  BY <1>3, <1>4

\* and a job's, if on a line, on the job's issue branch.
LEMMA JobsNews ==
  ASSUME IssueBranchesApart, TypeOK, Underway, Owned, LinesApart, Build, Built',
         app'.branch \in Lines
  PROVE  \E x, g, c : /\ Adds(x, g, c)
                      /\ \A b \in Lines : OnLine(b)' \subseteq
                           OnLine(b) \cup (IF b = x THEN {Append(g, c)} ELSE {})
<1> DEFINE x == app.branch
           g == Upstream
<1>1. PICK c \in Commits :
        /\ app'.new = Append(g, c) /\ c.by = app.job
        /\ \A f \in Files : c.tree[f] = IF f = FileOf[app.job] THEN Content(app.job)
                                                               ELSE TreeOf(g)[f]
  BY BuildMakes
<1>2. /\ app.job \in Jobs /\ x \in Branches /\ app'.branch = x
      /\ g \in Seq(Commits) /\ IsRef(g) /\ BranchReady(g)
  BY BuildMakes
<1>3. app.pc = "build" /\ IsRef(local[head])
  BY DEF Build, TypeOK
<1>4. Adding(app.job)
  <2> SUFFICES ASSUME ~Adding(app.job) PROVE FALSE
    OBVIOUS
  <2>1. x # head
    BY <1>2, <1>3 DEF BranchReady
  <2>2. x \in {OwnBranch[app.job], StoryBranch[app.job]}
    BY <1>3 DEF Owned
  <2> QED
    BY <1>2, <2>1, <2>2 DEF IssueBranchesApart, Lines
<1>5. x = IssueBranch[app.job] /\ g = origin[x]
  BY <1>3, <1>4 DEF Owned, Upstream
<1>6. Adds(x, g, c)
  BY <1>1, <1>2, <1>5, NobodyElseIsAJob DEF Adds, Fresh, OnLine
<1>7. origin' = origin /\ remote' = remote /\ local' = local /\ head' = head
  BY DEF Build, refs
<1> HIDE DEF x, g
<1>8. ASSUME NEW b \in Lines
      PROVE  OnLine(b)' \subseteq OnLine(b) \cup (IF b = x THEN {Append(g, c)} ELSE {})
  BY <1>1, <1>2, <1>7 DEF OnLine
<1> QED
  BY <1>6, <1>8

LEMMA LinesStep ==
  ASSUME IssueBranchesApart, TypeOK, Underway, Owned, LinesApart, [Next]_vars
  PROVE  LinesApart'
<1>1. TypeOK' /\ head' = head
  BY TypeStep, RefsMove
<1>2. done <= done'
  <2>1. done' = done \/ done' = done + 1
    BY DEF Next, vars, StartRun, StartReview, Approve, EndRun, EndReview, FetchIssue, Build,
           ScanClean, ScanFinds, MakeBranch, Push, PushFails, MoveBranch, PushAgain, WritePushed,
           PersonEdits, PersonUndoes, PersonCommits, PersonFetches, PersonPulls, TeamPushes, Crash
  <2>2. done \in Nat
    BY ApprovePushAssumption DEF TypeOK
  <2> QED
    BY <2>1, <2>2
<1>3. CASE \E f \in Files : PersonCommits(f)
  BY <1>1, <1>2, <1>3, PersonsNews, LinesKeepApart
<1>4. CASE \E b \in TeamBranches : \E f \in Files : TeamPushes(b, f)
  BY <1>1, <1>2, <1>4, TeamsNews, LinesKeepApart
<1>5. CASE Build /\ Built' /\ app'.branch \in Lines
  BY <1>1, <1>2, <1>5, JobsNews, LinesKeepApart
<1>6. CASE ~(\/ \E f \in Files : PersonCommits(f)
             \/ \E b \in TeamBranches : \E f \in Files : TeamPushes(b, f)
             \/ Build /\ Built' /\ app'.branch \in Lines)
  <2>1. \A b \in Lines : OnLine(b)' \subseteq OnLine(b)
    BY <1>6, NoNews
  <2> QED
    BY <1>1, <1>2, <2>1, LinesKeepApart
<1> QED
  BY <1>3, <1>4, <1>5, <1>6

\* What Approve let through is still all that Build adds: the remote branch
\* has the job's file as the branch here has it, or continues that branch --
\* as the line checked out, which loses nothing, or as an issue branch that
\* shares the root alone with it.
LEMMA BuiltIsShown ==
  ASSUME TypeOK, Underway, Owned, HeadGrows, LinesApart, AllShown, Build, Built'
  PROVE  Content(app.job) \ TreeOf(Upstream)[FileOf[app.job]] \subseteq approved[app.job]
<1> DEFINE F == FileOf[app.job]
           l == local[head]
           up == Upstream
<1>1. /\ app.job \in Jobs /\ F \in Files /\ app.branch \in Branches
      /\ up \in Seq(Commits) /\ IsRef(up) /\ ~Mixed(up)
  BY BuildMakes
<1>2. head \in Branches /\ l \in Seq(Commits) /\ IsRef(l) /\ app.pc = "build"
  BY ApprovePushAssumption, HistoryTyped DEF TypeOK, Build
<1>3. Content(app.job) \ TreeOf(l)[F] \subseteq approved[app.job]
  BY <1>2 DEF AllShown
<1>4. CASE TreeOf(up)[F] = TreeOf(l)[F]
  BY <1>3, <1>4
<1>5. CASE TreeOf(up)[F] # TreeOf(l)[F]
  <2>1. IsPrefix(l, up)
    BY <1>1, <1>5 DEF Mixed
  <2>2. Len(l) \in Nat /\ Len(l) > 0 /\ Len(l) <= Len(up) /\ Len(up) \in Nat
    BY <1>1, <1>2, <2>1 DEF IsPrefix, IsRef, NoRef
  <2>2a. Len(l) = 1 \/ Len(l) > 1
    <3>1. \A n \in Nat : n > 0 => n = 1 \/ n > 1
      OBVIOUS
    <3> QED
      BY <2>2, <3>1, Zenon
  <2>3. \A i \in 1..Len(l) : l[i] = up[i]
    <3> SUFFICES ASSUME NEW i \in 1..Len(l) PROVE l[i] = up[i]
      OBVIOUS
    <3>1. l[i] = SubSeq(l, 1, Len(l))[i] /\ up[i] = SubSeq(up, 1, Len(l))[i]
      BY <1>1, <1>2, <2>2
    <3> QED
      BY <3>1, <2>1 DEF IsPrefix
  <2>4. TreeOf(l)[F] \subseteq TreeOf(up)[F]
    <3>1. CASE up = origin[head]
      <4>1. Len(l) \in DOMAIN up /\ l[Len(l)] = up[Len(l)]
        BY <1>1, <2>2, <2>3
      <4> HIDE DEF l, up, F
      <4>2. up[Len(l)].tree[F] \subseteq TreeOf(up)[F]
        BY <1>1, <3>1, <4>1 DEF HeadGrows, Grows
      <4> QED
        BY <4>1, <4>2 DEF TreeOf, Last
    <3>2. CASE up # origin[head]
      <4>1. Adding(app.job) /\ app.branch # head /\ up = origin[app.branch]
        BY <3>2 DEF Upstream
      <4>2. app.branch \in Lines /\ head \in Lines
        BY <1>1, <1>2, <4>1 DEF Owned, Lines
      <4>3. up \in OnLine(app.branch) /\ l \in OnLine(head)
        BY <4>1 DEF OnLine
      <4>4. Apart(l, up) /\ Starts(head, l, done)
        BY <4>1, <4>2, <4>3 DEF LinesApart
      <4>5. Len(l) > 1 => Len(up) > 1 /\ l[2] = up[2]
        BY <2>2, <2>3
      <4>6. Len(l) = 1
        <5> HIDE DEF l, up
        <5>1. Len(l) = 1 \/ Len(l) > 1
          BY <2>2a
        <5>2. ~(Len(l) > 1 /\ Len(up) > 1 /\ l[2] = up[2])
          BY <4>4, Zenon DEF Apart
        <5> QED
          BY <4>5, <5>1, <5>2, Zenon
      <4>7. l[1] = Root[1] /\ Root[1].tree = [f \in Files |-> {}]
        <5>1. l[1] = Root[1]
          BY <1>2, <4>4 DEF Starts
        <5> QED
          BY <5>1 DEF Root
      <4> HIDE DEF l, up, F
      <4>8. TreeOf(l) = [f \in Files |-> {}]
        BY <4>6, <4>7 DEF TreeOf, Last
      <4> QED
        BY <1>1, <4>8
    <3> QED
      BY <3>1, <3>2
  <2> QED
    BY <1>3, <2>4
<1> QED
  BY <1>4, <1>5

LEMMA AppendShown ==
  ASSUME NEW h \in Seq(Commits), NEW c \in Commits, NEW a, HistoryShown(h, a), IsRef(h),
         c.by \in Jobs => c.tree[FileOf[c.by]] \ TreeOf(h)[FileOf[c.by]] \subseteq a[c.by]
  PROVE  HistoryShown(Append(h, c), a)
<1> DEFINE n == Append(h, c)
<1>1. /\ Len(h) \in Nat /\ Len(h) > 0 /\ DOMAIN h = 1..Len(h)
      /\ DOMAIN n = 1..(Len(h) + 1) /\ n[Len(h) + 1] = c
      /\ \A i \in 1..Len(h) : n[i] = h[i]
  BY DEF IsRef, NoRef
<1>2. TreeOf(h) = h[Len(h)].tree
  BY DEF TreeOf, Last
<1> SUFFICES ASSUME NEW i \in DOMAIN n, n[i].by \in Jobs
             PROVE  i > 1 /\ n[i].tree[FileOf[n[i].by]] \ n[i - 1].tree[FileOf[n[i].by]]
                               \subseteq a[n[i].by]
  BY DEF HistoryShown
<1> HIDE DEF n
<1>3. CASE i \in 1..Len(h)
  <2>1. n[i] = h[i] /\ i > 1
    BY <1>1, <1>3 DEF HistoryShown
  <2>2. n[i - 1] = h[i - 1]
    BY <1>1, <1>3, <2>1
  <2> QED
    BY <1>1, <1>3, <2>1, <2>2 DEF HistoryShown
<1>4. CASE i = Len(h) + 1
  <2>1. i > 1 /\ n[i] = c /\ n[i - 1] = h[Len(h)]
    BY <1>1, <1>4
  <2> QED
    BY <1>2, <2>1
<1> QED
  BY <1>1, <1>3, <1>4

\* The history of approvals only grows.
LEMMA ShowingStays ==
  ASSUME TypeOK, [Next]_vars
  PROVE  /\ \A j \in Jobs : approved[j] \subseteq approved'[j]
         /\ \A h : HistoryShown(h, approved) => HistoryShown(h, approved')
<1>1. CASE approved' = approved
  BY <1>1
<1>2. CASE \E i \in Jobs : Approve(i)
  <2>1. PICK i \in Jobs : \/ approved' = approved
                         \/ approved' = [approved EXCEPT ![i] = @ \cup (Shows(i).to \ Shows(i).from)]
    BY <1>2, Zenon DEF Approve
  <2> DEFINE more == Shows(i).to \ Shows(i).from
  <2>a. approved \in [Jobs -> SUBSET Edits]
    BY DEF TypeOK
  <2> HIDE DEF more
  <2>2. \A j \in Jobs : approved[j] \subseteq approved'[j]
    <3>1. CASE approved' = [approved EXCEPT ![i] = @ \cup more]
      BY <2>a, <3>1
    <3> QED
      BY <2>1, <3>1 DEF more
  <2> QED
    BY <2>2 DEF HistoryShown
<1> QED
  BY <1>1, <1>2 DEF Next, vars, histories, StartRun, StartReview, EndRun, EndReview, FetchIssue,
         Build, ScanClean, ScanFinds, MakeBranch, Push, PushFails, MoveBranch, PushAgain,
         WritePushed, PersonEdits, PersonUndoes, PersonCommits, PersonFetches, PersonPulls,
         TeamPushes, Crash

\* From Approve's checks to its commit: the tree stands still, and the branch
\* here gains by the person's commits alone.
LEMMA ShownUntilBuilt ==
  ASSUME ~EditsAnyTime, TypeOK, Underway, Covered, AllShown, [Next]_vars,
         app'.pc \in {"fetch", "build"}
  PROVE  Content(app.job)' \ TreeOf(local'[head])[FileOf[app'.job]] \subseteq approved'[app'.job]
<1> USE DEF refs, papers, working, histories
<1>a. /\ head' = head /\ head \in Branches /\ local[head] \in Histories /\ IsRef(local[head])
      /\ tree \in Trees
  BY RefsMove, ApprovePushAssumption DEF TypeOK
<1>1. ASSUME NEW j \in Jobs, Approve(j), app' # app
      PROVE  Content(app.job)' \ TreeOf(local'[head])[FileOf[app'.job]] \subseteq approved'[app'.job]
  <2>1. /\ app'.job = j /\ tree' = tree /\ local' = local
        /\ approved' = [approved EXCEPT ![j] = @ \cup (Shows(j).to \ Shows(j).from)]
    BY <1>1 DEF Approve, Idle
  <2>2. Content(j) \ TreeOf(local[head])[FileOf[j]] \subseteq approved'[j]
    BY <2>1 DEF Shows, TypeOK
  <2>3. Content(app.job)' = Content(j)
    BY <2>1 DEF Content
  <2> QED
    BY <2>1, <2>2, <2>3
<1>2. ASSUME app'.job = app.job, app.pc \in {"fetch", "build"}
      PROVE  Content(app.job)' \ TreeOf(local'[head])[FileOf[app'.job]] \subseteq approved'[app'.job]
  <2>1. /\ app.job \in Jobs /\ FileOf[app.job] \in Files
        /\ Content(app.job) \ TreeOf(local[head])[FileOf[app.job]] \subseteq approved[app.job]
    BY <1>2, ApprovePushAssumption DEF AllShown, Underway, Placed
  <2>2. Content(app.job)' = Content(app.job)
    BY <1>2, TreeStandsStill DEF Content
  <2>3. approved[app.job] \subseteq approved'[app.job]
    BY <2>1, ShowingStays
  <2>4. CASE local' = local
    BY <1>2, <2>1, <2>2, <2>3, <2>4
  <2>5. ASSUME NEW f \in Files, PersonCommits(f)
        PROVE  TreeOf(local[head])[FileOf[app.job]] \subseteq TreeOf(local'[head])[FileOf[app.job]]
    <3> DEFINE c == [by |-> Me, tree |-> [TreeOf(local[head]) EXCEPT ![f] = tree[f]]]
    <3>1. local[head] \in Seq(Commits) /\ TreeOf(local[head]) \in Trees
      BY <1>a, HistoryTyped
    <3>2. c \in Commits
      BY <1>a, <3>1 DEF Commits, Trees
    <3>3. local'[head] = Append(local[head], c)
      BY <1>a, <2>5 DEF PersonCommits, TypeOK
    <3>4. TreeOf(local'[head]) = c.tree
      BY <3>1, <3>2, <3>3, TreeOfAppend
    <3>5. \A x \in Files : TreeOf(local[head])[x] \subseteq c.tree[x]
      BY <3>1 DEF Covered, Covers, Trees
    <3> QED
      BY <2>1, <3>4, <3>5
  <2>6. local' = local \/ \E f \in Files : PersonCommits(f)
    <3>1. ~MakeBranch /\ ~MoveBranch /\ ~PersonPulls
      BY <1>2 DEF MakeBranch, MoveBranch, PersonPulls
    <3> QED
      BY <3>1, RefsMove DEF FetchIssue, Push, PushAgain, PersonFetches, TeamPushes
  <2> QED
    BY <1>2, <2>1, <2>2, <2>3, <2>4, <2>5, <2>6
<1>3. \/ \E j \in Jobs : Approve(j) /\ app' # app
      \/ app'.job = app.job /\ app.pc \in {"fetch", "build"}
  <2>1. FetchIssue => (app.pc = "fetch" /\ app'.job = app.job) \/ app' = Idle
    BY DEF FetchIssue, TypeOK
  <2>2. ScanFinds \/ PushFails \/ WritePushed \/ Crash => app' = Idle
    BY DEF ScanFinds, PushFails, WritePushed, Crash
  <2>3. Build \/ ScanClean \/ MakeBranch \/ Push \/ MoveBranch \/ PushAgain
          => app' = Idle \/ app'.pc \in {"scan", "push", "branch", "move", "record"}
    BY DEF Build, ScanClean, MakeBranch, Push, MoveBranch, PushAgain, TypeOK
  <2>4. /\ \A j \in Jobs : StartRun(j) \/ StartReview(j) => app' = app
        /\ \A ok \in BOOLEAN : EndRun(ok) \/ EndReview(ok) => app' = app
        /\ \A f \in Files : PersonEdits(f) \/ PersonUndoes(f) \/ PersonCommits(f) => app' = app
        /\ \A b \in TeamBranches : \A f \in Files : TeamPushes(b, f) => app' = app
        /\ PersonFetches \/ PersonPulls \/ UNCHANGED vars => app' = app
    BY DEF StartRun, StartReview, EndRun, EndReview, PersonEdits, PersonUndoes, PersonCommits,
           TeamPushes, PersonFetches, PersonPulls, vars
  <2>5. app' # Idle
    BY DEF Idle
  <2> QED
    BY <2>1, <2>2, <2>3, <2>4, <2>5 DEF Next
<1> QED
  BY <1>1, <1>2, <1>3

LEMMA ShownStep ==
  ASSUME ~EditsAnyTime, TypeOK, Underway, Owned, Covered, HeadGrows, LinesApart, AllShown,
         [Next]_vars
  PROVE  AllShown'
<1> USE DEF refs, papers, working, histories
<1> DEFINE V(h) == HistoryShown(h, approved)
           W(h) == HistoryShown(h, approved')
<1>a. \A h : V(h) => W(h)
  BY ShowingStays
<1>b. app.pc # "idle" => app.job \in Jobs /\ app.branch \in Branches
  BY DEF Underway, Placed
<1>c. /\ head' = head /\ head \in Branches /\ local[head] \in Histories
      /\ local[head] \in Seq(Commits) /\ IsRef(local[head])
  BY RefsMove, ApprovePushAssumption, HistoryTyped DEF TypeOK
<1>1. ASSUME NEW b \in Branches PROVE W(local'[b])
  <2>1. CASE local' = local
    BY <1>a, <2>1 DEF AllShown
  <2>2. ASSUME NEW f \in Files, PersonCommits(f) PROVE W(local'[b])
    <3> DEFINE c == [by |-> Me, tree |-> [TreeOf(local[head]) EXCEPT ![f] = tree[f]]]
    <3>1. TreeOf(local[head]) \in Trees /\ tree \in Trees
      BY <1>c, HistoryTyped DEF TypeOK
    <3>2. c \in Commits /\ c.by \notin Jobs
      BY <3>1, NobodyElseIsAJob DEF Commits, Trees
    <3>3. V(Append(local[head], c))
      BY <1>c, <3>2, AppendShown DEF AllShown
    <3>4. local' = [local EXCEPT ![head] = Append(local[head], c)]
      BY <2>2 DEF PersonCommits
    <3>5. local'[b] = local[b] \/ local'[b] = Append(local[head], c)
      BY <1>c, <3>4 DEF TypeOK
    <3> QED
      BY <1>a, <3>3, <3>5 DEF AllShown
  <2>3. CASE PersonPulls
    <3>1. local'[b] = local[b] \/ local'[b] = origin[head]
      BY <1>c, <2>3 DEF PersonPulls, TypeOK
    <3> QED
      BY <1>a, <1>c, <3>1 DEF AllShown
  <2>4. CASE MakeBranch \/ MoveBranch
    <3>1. (local'[b] = local[b] \/ local'[b] = app.new) /\ V(app.new)
      BY <1>b, <2>4 DEF MakeBranch, MoveBranch, TypeOK, AllShown, Built
    <3> QED
      BY <1>a, <3>1 DEF AllShown
  <2>5. local' = local \/ PersonPulls \/ MakeBranch \/ MoveBranch \/ \E f \in Files : PersonCommits(f)
    BY RefsMove DEF FetchIssue, Push, PushAgain, PersonFetches, TeamPushes
  <2> QED
    BY <2>1, <2>2, <2>3, <2>4, <2>5
<1>2. ASSUME NEW b \in Branches PROVE W(origin'[b]) /\ W(remote'[b])
  <2>1. CASE origin' = origin /\ remote' = remote
    BY <1>a, <2>1 DEF AllShown
  <2>2. CASE FetchIssue
    <3>1. (origin'[b] = origin[b] \/ origin'[b] = remote[app.branch]) /\ remote' = remote
      BY <1>b, <2>2 DEF FetchIssue, TypeOK
    <3>2. app.branch \in Branches
      BY <1>b, <2>2 DEF FetchIssue
    <3> QED
      BY <1>a, <3>1, <3>2 DEF AllShown
  <2>3. CASE PersonFetches
    BY <1>a, <2>3 DEF PersonFetches, AllShown
  <2>4. CASE Push
    <3>1. /\ origin'[b] = origin[b] \/ origin'[b] = app.new
          /\ remote'[b] = remote[b] \/ remote'[b] = app.new
          /\ V(app.new)
      BY <2>4 DEF Push, Published, TypeOK, AllShown, Built
    <3> QED
      BY <1>a, <3>1 DEF AllShown
  <2>5. CASE PushAgain
    <3>1. /\ origin'[b] = origin[b] \/ origin'[b] = local[app.branch]
          /\ remote'[b] = remote[b] \/ remote'[b] = local[app.branch]
      BY <2>5 DEF PushAgain, Published, TypeOK
    <3>2. V(local[app.branch])
      BY <1>b, <2>5 DEF PushAgain, AllShown
    <3> QED
      BY <1>a, <3>1, <3>2 DEF AllShown
  <2>6. ASSUME NEW x \in TeamBranches, NEW f \in Files, TeamPushes(x, f)
        PROVE  W(origin'[b]) /\ W(remote'[b])
    <3> DEFINE g == remote[x]
               c == TeamCommit(g, f)
    <3>1. /\ x \in Branches /\ g \in Seq(Commits) /\ IsRef(g) /\ c \in Commits
          /\ remote' = [remote EXCEPT ![x] = Append(g, c)] /\ origin' = origin
      BY <2>6, TeamAdds
    <3>2. c.by \notin Jobs
      BY NobodyElseIsAJob DEF TeamCommit
    <3>3. V(g)
      BY <3>1 DEF AllShown
    <3> HIDE DEF c
    <3>4. V(Append(g, c))
      BY <3>1, <3>2, <3>3, AppendShown
    <3>5. remote'[b] = remote[b] \/ remote'[b] = Append(g, c)
      BY <3>1 DEF TypeOK
    <3> QED
      BY <1>a, <3>1, <3>4, <3>5 DEF AllShown
  <2>7. \/ origin' = origin /\ remote' = remote
        \/ FetchIssue \/ PersonFetches \/ Push \/ PushAgain
        \/ \E x \in TeamBranches : \E f \in Files : TeamPushes(x, f)
    BY RefsMove DEF MakeBranch, MoveBranch, PersonCommits, PersonPulls
  <2> QED
    BY <2>1, <2>2, <2>3, <2>4, <2>5, <2>6, <2>7
<1>3. ASSUME Built' PROVE W(app'.new)
  <2>1. CASE Build
    <3> DEFINE up == Upstream
    <3>1. PICK c \in Commits :
            /\ app'.new = Append(up, c) /\ c.by = app.job
            /\ \A f \in Files : c.tree[f] = IF f = FileOf[app.job] THEN Content(app.job)
                                                                   ELSE TreeOf(up)[f]
      BY <1>3, <2>1, BuildMakes
    <3>2. app.job \in Jobs /\ FileOf[app.job] \in Files /\ up \in Seq(Commits) /\ IsRef(up)
            /\ app.branch \in Branches
      BY <1>3, <2>1, BuildMakes
    <3>3. c.tree[FileOf[c.by]] \ TreeOf(up)[FileOf[c.by]] \subseteq approved[c.by]
      BY <1>3, <2>1, <3>1, <3>2, BuiltIsShown
    <3>4. V(up)
      BY <1>c, <3>2 DEF Upstream, AllShown
    <3>5. V(Append(up, c))
      BY <3>1, <3>2, <3>3, <3>4, AppendShown
    <3> QED
      BY <1>a, <3>1, <3>5
  <2>2. CASE ~Build
    BY <1>3, <1>a, <2>2, CarriesOn DEF AllShown
  <2> QED
    BY <2>1, <2>2
<1>4. ASSUME app'.pc \in {"fetch", "build"}
      PROVE  Content(app.job)' \ TreeOf(local'[head])[FileOf[app'.job]] \subseteq approved'[app'.job]
  BY <1>4, ShownUntilBuilt
<1> QED
  BY <1>c, <1>1, <1>2, <1>3, <1>4 DEF AllShown

LEMMA ShowingInit ==
  ASSUME Init
  PROVE  Owned /\ Covered /\ HeadGrows /\ LinesApart /\ AllShown
<1>1. /\ app = Idle /\ ~Built /\ app.pc = "idle" /\ head \in Branches
      /\ tree \in Trees /\ local[head] = Root
  BY InitTyped, ApprovePushAssumption DEF Init, Idle, Built, TypeOK, Refs
<1>2. \A b \in Branches : /\ local[b] \in {Root, NoRef} /\ origin[b] \in {Root, NoRef}
                          /\ remote[b] \in {Root, NoRef}
  BY DEF Init, Refs
<1>3. /\ Len(Root) = 1 /\ DOMAIN Root = {1} /\ Root[1].by = Team
      /\ TreeOf(Root) = [f \in Files |-> {}] /\ Root[1].tree = [f \in Files |-> {}]
      /\ DOMAIN NoRef = {} /\ Len(NoRef) = 0
  BY DEF Root, NoRef, TreeOf, Last
<1>4. Owned
  BY <1>1 DEF Init, Owned
<1>5. Covered
  BY <1>1, <1>3 DEF Covered, Covers
<1>6. Grows(Root) /\ Grows(NoRef)
  BY <1>3 DEF Grows
<1>7. HeadGrows
  BY <1>1, <1>2, <1>6 DEF HeadGrows
<1>8. Lines \subseteq Branches
  BY <1>1, ApprovePushAssumption DEF Lines, Adding
<1>9. \A b \in Lines : OnLine(b) \subseteq {Root, NoRef}
  BY <1>1, <1>2, <1>8 DEF OnLine
<1>10. \A b, d : Starts(b, Root, d) /\ Starts(b, NoRef, d)
  BY <1>3 DEF Starts, IsRef
<1>11. \A g, h \in {Root, NoRef} : Apart(g, h)
  BY <1>3 DEF Apart
<1>12. LinesApart
  BY <1>9, <1>10, <1>11 DEF LinesApart
<1>13. \A a : HistoryShown(Root, a) /\ HistoryShown(NoRef, a)
  BY <1>3, NobodyElseIsAJob DEF HistoryShown
<1>14. AllShown
  BY <1>1, <1>2, <1>13 DEF AllShown
<1> QED
  BY <1>4, <1>5, <1>7, <1>12, <1>14

-----------------------------------------------------------------------------

\* cmd_approve and its surroundings keep every ref, record and step of
\* Approve within its type, for any number of jobs, branches and files.
THEOREM ApproveTypes == Spec => []TypeOK
<1>1. TypeOK /\ Underway /\ [Next]_vars => TypeOK' /\ Underway'
  BY TypeStep, UnderwayStep
<1> QED
  BY <1>1, InitTyped, PTL DEF Spec

\* No step of cmd_approve, of the person or of the team loses a commit of a
\* local branch: update-ref with the value the commit was built on is enough
\* whatever is committed meanwhile.
THEOREM CommitsStay == Spec => LocalCommitsStay
<1>1. TypeOK /\ Underway /\ [Next]_vars => TypeOK' /\ Underway'
  BY TypeStep, UnderwayStep
<1>2. TypeOK /\ Underway /\ [Next]_vars
        => [\A b \in Branches : IsPrefix(local[b], local'[b])]_vars
  BY StepKeepsCommits
<1> QED
  BY <1>1, <1>2, InitTyped, PTL DEF Spec, LocalCommitsStay

\* What review.json says of a push is true, through failed pushes, retries,
\* deaths of the command and whatever the person and the team do: "pushed"
\* names a remote branch that holds a commit of the job, and "push-failed" a
\* branch of its own that holds the commit still to be pushed.
THEOREM ReviewIsTrue == Spec => []WhatIsSaidIsThere
<1> DEFINE Inv == TypeOK /\ Underway /\ Carried /\ AllSaid
<1>1. Init => Inv
  <2>1. Init => Carried /\ AllSaid
    BY DEF Init, Idle, Carried, AllSaid, Said
  <2> QED
    BY <2>1, InitTyped
<1>2. Inv /\ [Next]_vars => Inv'
  BY TypeStep, UnderwayStep, CarriedStep, AllSaidStep
<1>3. Inv => WhatIsSaidIsThere
  BY SaidIsThere
<1> QED
  BY <1>1, <1>2, <1>3, PTL DEF Spec

\* require_green_run, when nobody edits under a run or an Approve: whatever
\* happens to commits, branches, pushes and the command itself, what is on the
\* remote under a job's name passed that job's tests as it is there.
THEOREM PushedPassedItsTests ==
  ASSUME ~EditsAnyTime
  PROVE  Spec => []PushedWasTested
<1>1. TypeOK /\ AllVetted => PushedWasTested
  BY PushedIsVetted DEF PushedWasTested, Vetted
<1> QED
  BY <1>1, VettingInvariant, PTL

\* require_case_check, under the same assumption: the AI Agent found no case
\* fault in that content.
THEOREM PushedPassedItsReview ==
  ASSUME ~EditsAnyTime
  PROVE  Spec => []PushedWasRead
<1>1. TypeOK /\ AllVetted => PushedWasRead
  BY PushedIsVetted DEF PushedWasRead, Vetted
<1> QED
  BY <1>1, VettingInvariant, PTL

\* "What you approve is what you saw", when nobody edits under an Approve and
\* no issue branch has a name of Approve's own: a commit pushed for a job adds
\* to the commit it is on only edits of diffs that were shown and approved,
\* whatever the person committed, pulled or left unpushed and whatever the
\* team pushed, on any number of branches.
THEOREM NothingUnseen ==
  ASSUME ~EditsAnyTime, IssueBranchesApart
  PROVE  Spec => []OnlyWhatWasShown
<1> DEFINE Inv == /\ TypeOK /\ Underway
                  /\ Owned /\ Covered /\ HeadGrows /\ LinesApart /\ AllShown
<1>1. Init => Inv
  BY InitTyped, ShowingInit
<1>2. Inv /\ [Next]_vars => Inv'
  BY TypeStep, UnderwayStep, OwnedStep, CoveredStep, GrowsStep, LinesStep, ShownStep
<1>3. Inv => OnlyWhatWasShown
  <2> SUFFICES ASSUME AllShown, NEW j \in Jobs, NEW bi \in Pushed(j)
               PROVE  Held(j, bi) \ HeldBefore(j, bi) \subseteq approved[j]
    BY DEF OnlyWhatWasShown
  <2>1. PICK b \in Branches : bi \in {<<b, i>> : i \in DOMAIN remote[b]}
    BY DEF Pushed
  <2>2. PICK i \in DOMAIN remote[b] : bi = <<b, i>>
    BY <2>1
  <2>3. remote[b][i].by = j
    BY <2>2 DEF Pushed
  <2>4. /\ Held(j, bi) = remote[b][i].tree[FileOf[j]]
        /\ HeldBefore(j, bi) = remote[b][i - 1].tree[FileOf[j]]
    BY <2>2 DEF Held, HeldBefore
  <2> QED
    BY <2>3, <2>4 DEF AllShown, HistoryShown
<1> QED
  BY <1>1, <1>2, <1>3, PTL DEF Spec

=============================================================================
