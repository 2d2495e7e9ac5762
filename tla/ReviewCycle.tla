----------------------------- MODULE ReviewCycle -----------------------------
(***************************************************************************)
(* A change the AI Agent makes, from the call to what is undone            *)
(* (tools/agent/loop.py: cmd_generate, cmd_followup, cmd_discard).         *)
(*                                                                         *)
(* Commands are processes of their own: the workbench runs one of them at  *)
(* a time, a terminal may start another, and RepoLock keeps two out of the *)
(* one working tree. A run saves what the tree was (pre-state.json, pre/), *)
(* writes "generating" in review.json, calls the agent, judges what        *)
(* changed by content, and ends with a change that waits for review or     *)
(* with the tree put back. A follow-up works on the waiting change, and    *)
(* measures from the first run's saved state.                              *)
(*                                                                         *)
(* The tree is a content for each file; git is HEAD's content for each     *)
(* (a commit is what HEAD became). Generated files are treated as tracked  *)
(* ones: both are put back from a copy, or removed. The approve and the    *)
(* push are not in this module.                                            *)
(***************************************************************************)
EXTENDS Naturals, FiniteSets

CONSTANTS
  Jobs,
  Files, Roots,            \* all files; those under the scope's write_roots
  Texts, Absent,           \* what a file holds, or that there is none
  Clean,                   \* dirty_paths does not list the file; no copy of it
  FirstTree,               \* what HEAD and the tree hold at first
  Procs, NoProc,           \* command processes
  Attempts,                \* repair_attempts: calls a run may make
  RepeatDiscard,           \* policy repeat_discard
  \* The environment of a run:
  Commands,                \* which of "generate", "followup", "discard" are used
  AgentFiles, AgentPuts,   \* files an agent writes, and what it puts in them
  PersonFiles, PersonPuts, \* the same for the person, with nothing waiting
  BesideFiles,             \* files the person edits while a change waits
  PersonCommits,           \* whether the person commits
  CommitsIn, TimeoutsIn,   \* commands in which the agent commits / runs out of time
  Careful,                 \* the person does as the reason of a rejection says
  MaxRuns, MaxEdits, MaxCrashes   \* bounds

Contents == Texts \cup {Absent}

ASSUME ReviewCycleAssumption ==
  /\ Jobs # {} /\ Roots \subseteq Files
  /\ Absent \notin Texts /\ Clean \notin Contents
  /\ FirstTree \in [Files -> Contents]
  /\ NoProc \notin Procs
  /\ Attempts \in Nat \ {0}
  /\ Commands \subseteq {"generate", "followup", "discard"}
  /\ {RepeatDiscard, PersonCommits, Careful} \subseteq BOOLEAN
  /\ AgentFiles \in [Jobs -> SUBSET Files]
  /\ PersonFiles \cup BesideFiles \subseteq Files
  /\ AgentPuts \cup PersonPuts \subseteq Contents
  /\ {MaxRuns, MaxEdits, MaxCrashes} \subseteq Nat

Waiting == {"pending-review", "verify-failed"}
Entries == Contents \cup {Clean}
Nothing == [f \in Files |-> Clean]
NoReview == [state |-> "none", created |-> {}, modified |-> {}, hashes |-> Nothing,
             needs |-> FALSE, alive |-> FALSE, base |-> FirstTree]

VARIABLES
  tree,      \* the working tree
  head,      \* HEAD
  review,    \* review.json of each job
  before,    \* pre-state.json: what dirty_paths said before the run
  copies,    \* pre/: the files kept then
  lock,      \* the process that holds RepoLock
  proc,      \* the command processes
  bridge,    \* jobs whose agent may still write after its call was given up
  runs, edits, crashes,    \* how often, for the bounds
  own,       \* history: the tree as it would be without any agent
  mainline   \* history: HEAD as the person last made it

vars == <<tree, head, review, before, copies, lock, proc, bridge,
          runs, edits, crashes, own, mainline>>

IdleProc == [pc |-> "idle", cmd |-> "none", job |-> CHOOSE j \in Jobs : TRUE,
             prior |-> NoReview, rev |-> NoReview, kept |-> Nothing,
             attempt |-> 0, callHead |-> FirstTree, settled |-> FirstTree,
             start |-> FirstTree, undone |-> FALSE, cancelled |-> FALSE, todo |-> {}]

-----------------------------------------------------------------------------
(* What git and the saved state say of the tree *)

\* dirty_paths: each changed path with its content.
Dirty == [f \in Files |-> IF tree[f] = head[f] THEN Clean ELSE tree[f]]

\* Every path whose content is not what it was before the run.
Touched(b) == {f \in Files : b[f] # Dirty[f]}

\* classify_tracked and split_created.
Outside(b) == Touched(b) \ Roots
Deleted(b) == {f \in Touched(b) \cap Roots : Dirty[f] = Absent}
Changed(b) == (Touched(b) \cap Roots) \ Deleted(b)
Created(b) == {f \in Changed(b) : b[f] = Clean /\ head[f] = Absent}
Modified(b) == Changed(b) \ Created(b)

\* backup: a file the paths name, if there is one.
Copied(b) == [f \in Files |-> IF b[f] = Clean \/ tree[f] = Absent THEN Clean ELSE tree[f]]

\* restore_tracked: the copy, else HEAD's, else gone if the run made it.
RestoredFromHead(j, f) ==
  IF head[f] # Absent THEN head[f] ELSE IF before[j][f] = Clean THEN Absent ELSE tree[f]

Restored(j, f) == IF copies[j][f] # Clean THEN copies[j][f] ELSE RestoredFromHead(j, f)

PutBackAll(j) == [f \in Files |-> IF f \in Touched(before[j]) THEN Restored(j, f) ELSE tree[f]]

\* undo() of a follow-up that forgets the change already read.
UndoneToTheFirst(p) == PutBackAll(proc[p].job)

\* undo(): and for a follow-up, the change that waited is written back.
Undone(p) ==
  [f \in Files |-> IF proc[p].kept[f] # Clean THEN proc[p].kept[f]
                   ELSE PutBackAll(proc[p].job)[f]]

Working(p) == lock = p
Settled(j) == review[j].state \in {"none", "discarded", "rejected"} /\ ~review[j].needs
WaitingFiles == UNION {review[j].created \cup review[j].modified :
                         j \in {i \in Jobs : review[i].state \in Waiting}}

Init ==
  /\ tree = FirstTree /\ head = FirstTree
  /\ review = [j \in Jobs |-> NoReview]
  /\ before = [j \in Jobs |-> Nothing]
  /\ copies = [j \in Jobs |-> Nothing]
  /\ lock = NoProc
  /\ proc = [p \in Procs |-> IdleProc]
  /\ bridge = {}
  /\ runs = 0 /\ edits = 0 /\ crashes = 0
  /\ own = FirstTree /\ mainline = FirstTree

-----------------------------------------------------------------------------
(* A command reads the review before it takes the lock *)

\* What cmd_generate, cmd_followup and cmd_discard refuse at once.
Admits(cmd, r) ==
  CASE cmd = "generate" -> r.state \notin Waiting \cup {"generating"}
    [] cmd = "followup" -> r.state \in Waiting
    [] OTHER -> TRUE

\* "put the branch back by hand", "End the AI Agent bridge process FIRST ...
\* then use Discard".
AsTold(cmd, j) ==
  /\ bridge = {}
  /\ cmd = "discard" => head = mainline
  /\ cmd # "discard" => ~review[j].needs

Enter(p, cmd, j) ==
  /\ proc[p].pc = "idle" /\ Admits(cmd, review[j])
  /\ cmd # "discard" => runs < MaxRuns
  /\ Careful => AsTold(cmd, j)
  /\ proc' = [proc EXCEPT ![p] = [IdleProc EXCEPT !.pc = "entering", !.cmd = cmd,
                                                  !.job = j, !.prior = review[j]]]
  /\ UNCHANGED <<tree, head, review, before, copies, lock, bridge, runs, edits, crashes, own, mainline>>

\* The lock with nobody looked for.
LockTaken(p) == lock' = p

\* RepoLock.__enter__: non-blocking.
LockFree(p) == lock = NoProc /\ lock' = p

LockedOut(p) ==
  /\ proc[p].pc = "entering" /\ lock # NoProc
  /\ proc' = [proc EXCEPT ![p] = IdleProc]
  /\ UNCHANGED <<tree, head, review, before, copies, lock, bridge, runs, edits, crashes, own, mainline>>

-----------------------------------------------------------------------------
(* _generate: a first run, or a follow-up on the change that waits *)

\* A first run measures from the tree as it is. A follow-up from what the
\* first run saved, and what the person made since in the write roots joins it.
Baseline(p) ==
  LET j == proc[p].job
      mine == proc[p].prior.created \cup proc[p].prior.modified
  IN IF proc[p].cmd = "generate" THEN Dirty
     ELSE [f \in Files |-> IF f \in Roots \ mine /\ Dirty[f] # Clean THEN Dirty[f] ELSE before[j][f]]

TakeBaseline(p) ==
  LET j == proc[p].job
      follow == proc[p].cmd = "followup"
      mine == proc[p].prior.created \cup proc[p].prior.modified
      base == Baseline(p)
  IN
  /\ proc[p].pc = "entering" /\ proc[p].cmd # "discard" /\ LockFree(p)
  /\ runs < MaxRuns
  /\ before' = [before EXCEPT ![j] = base]
  /\ copies' = [copies EXCEPT ![j] =
                  IF follow THEN [f \in Files |-> IF base[f] \notin {before[j][f], Absent}
                                                  THEN base[f] ELSE copies[j][f]]
                  ELSE Copied(base)]
  /\ proc' = [proc EXCEPT
                ![p].pc = "announcing",
                ![p].rev = [NoReview EXCEPT !.state = "generating",
                              !.base = IF follow THEN proc[p].prior.base ELSE head],
                ![p].kept = [f \in Files |-> IF follow /\ f \in mine /\ tree[f] # Absent
                                             THEN tree[f] ELSE Clean],
                ![p].start = tree]
  /\ runs' = runs + 1
  /\ UNCHANGED <<tree, head, review, bridge, edits, crashes, own, mainline>>

\* The review written only when the run ends.
AnnounceUnwritten(p) ==
  /\ proc[p].pc = "announcing"
  /\ proc' = [proc EXCEPT ![p].pc = "calling", ![p].attempt = 1, ![p].callHead = head]
  /\ UNCHANGED <<tree, head, review, before, copies, lock, bridge, runs, edits, crashes, own, mainline>>

\* Written before the agent is called, so that a run that dies can be undone.
Announce(p) ==
  /\ proc[p].pc = "announcing"
  /\ review' = [review EXCEPT ![proc[p].job] = proc[p].rev]
  /\ proc' = [proc EXCEPT ![p].pc = "calling", ![p].attempt = 1, ![p].callHead = head]
  /\ UNCHANGED <<tree, head, before, copies, lock, bridge, runs, edits, crashes, own, mainline>>

AgentWrites(p, f, c) ==
  /\ proc[p].pc = "calling" /\ f \in AgentFiles[proc[p].job] /\ tree[f] # c
  /\ tree' = [tree EXCEPT ![f] = c]
  /\ UNCHANGED <<head, review, before, copies, lock, proc, bridge, runs, edits, crashes, own, mainline>>

AgentCommits(p) ==
  /\ proc[p].pc = "calling" /\ proc[p].cmd \in CommitsIn /\ head # tree
  /\ head' = tree
  /\ UNCHANGED <<tree, review, before, copies, lock, proc, bridge, runs, edits, crashes, own, mainline>>

\* head_forbidden: HEAD moved during the call, or, in the first call of a
\* first run, since the baseline.
HeadForbidden(p) ==
  \/ head # proc[p].callHead
  \/ head # proc[p].rev.base /\ proc[p].cmd = "generate" /\ proc[p].attempt = 1

\* Nothing is reverted: "put the branch back by hand".
HeadMoved(p) ==
  /\ proc[p].pc = "calling" /\ HeadForbidden(p)
  /\ proc' = [proc EXCEPT ![p].pc = "rejecting", ![p].rev.needs = TRUE, ![p].undone = FALSE]
  /\ UNCHANGED <<tree, head, review, before, copies, lock, bridge, runs, edits, crashes, own, mainline>>

\* The call finished: what it changed is judged.
SameAsBefore(p) ==
  LET b == before[proc[p].job]
      keeps == {f \in Files : proc[p].kept[f] # Clean}
  IN /\ keeps # {} /\ Changed(b) \subseteq keeps
     /\ \A f \in keeps : tree[f] = proc[p].kept[f]

ChangedNoFile(p) == Changed(before[proc[p].job]) = {} \/ SameAsBefore(p)

BrokeARule(p) == Outside(before[proc[p].job]) \cup Deleted(before[proc[p].job]) # {}

Finished(p) == proc[p].pc = "calling" /\ ~HeadForbidden(p)

\* The base follows a HEAD that moved between the calls.
Measured(p) == [proc[p].rev EXCEPT !.base = head]
Rebased(p) == review' = IF head = proc[p].rev.base THEN review
                        ELSE [review EXCEPT ![proc[p].job] = Measured(p)]

RuleBroken(p) ==
  /\ Finished(p) /\ BrokeARule(p)
  /\ proc' = [proc EXCEPT ![p].pc = "undoing", ![p].rev = Measured(p)]
  /\ Rebased(p)
  /\ UNCHANGED <<tree, head, before, copies, lock, bridge, runs, edits, crashes, own, mainline>>

\* An answer, or no more attempts: nothing to put back.
NoChange(p) ==
  /\ Finished(p) /\ ~BrokeARule(p) /\ ChangedNoFile(p)
  /\ proc' = [proc EXCEPT ![p].pc = "rejecting", ![p].rev = Measured(p), ![p].undone = FALSE]
  /\ Rebased(p)
  /\ UNCHANGED <<tree, head, before, copies, lock, bridge, runs, edits, crashes, own, mainline>>

\* The next call of the same run: not counted, one too many, and as it is.
NextAttemptUncounted(p, r) ==
  proc' = [proc EXCEPT ![p].pc = "calling", ![p].callHead = head, ![p].rev = r]

NextAttemptOneMore(p, r) ==
  /\ proc[p].attempt <= Attempts
  /\ proc' = [proc EXCEPT ![p].pc = "calling", ![p].callHead = head, ![p].rev = r,
                          ![p].attempt = proc[p].attempt + 1]

NextAttempt(p, r) ==
  /\ proc[p].attempt < Attempts
  /\ proc' = [proc EXCEPT ![p].pc = "calling", ![p].callHead = head, ![p].rev = r,
                          ![p].attempt = proc[p].attempt + 1]

AskAgain(p) ==
  /\ Finished(p) /\ ~BrokeARule(p) /\ ChangedNoFile(p) /\ NextAttempt(p, Measured(p))
  /\ Rebased(p)
  /\ UNCHANGED <<tree, head, before, copies, lock, bridge, runs, edits, crashes, own, mainline>>

ToVerify(p) ==
  LET b == before[proc[p].job] IN
  /\ Finished(p) /\ ~BrokeARule(p) /\ ~ChangedNoFile(p)
  /\ proc' = [proc EXCEPT ![p].pc = "verifying",
                ![p].rev = [Measured(p) EXCEPT !.created = Created(b), !.modified = Modified(b)]]
  /\ Rebased(p)
  /\ UNCHANGED <<tree, head, before, copies, lock, bridge, runs, edits, crashes, own, mainline>>

\* The files' hashes are of what was verified.
Hashed(p) ==
  LET r == proc[p].rev IN
  [r EXCEPT !.hashes = [f \in Files |-> IF f \in r.created \cup r.modified THEN tree[f] ELSE Clean]]

Ends(p) == lock' = NoProc /\ proc' = [proc EXCEPT ![p] = IdleProc]

Held(p, state) ==
  /\ proc[p].pc = "verifying"
  /\ review' = [review EXCEPT ![proc[p].job] = [Hashed(p) EXCEPT !.state = state]]
  /\ Ends(p)
  /\ UNCHANGED <<tree, head, before, copies, bridge, runs, edits, crashes, own, mainline>>

Verified(p) == Held(p, "pending-review")

\* The attempts are used up, or the errors did not change.
VerifyFailed(p) == Held(p, "verify-failed")

\* The verify failed with another output than the last attempt's.
Repair(p) ==
  /\ proc[p].pc = "verifying"
  /\ NextAttempt(p, Hashed(p))
  /\ UNCHANGED <<tree, head, review, before, copies, lock, bridge, runs, edits, crashes, own, mainline>>

-----------------------------------------------------------------------------
(* A call that failed, and the putting back *)

CallFails(p) ==
  /\ Finished(p)
  /\ proc' = [proc EXCEPT ![p].pc = "undoing"]
  /\ UNCHANGED <<tree, head, review, before, copies, lock, bridge, runs, edits, crashes, own, mainline>>

\* The time limit: the tree is put back at once; the run was cancelled for
\* certain, or not, and its bridge may go on writing.
TimesOut(p) ==
  /\ Finished(p) /\ proc[p].cmd \in TimeoutsIn
  /\ tree' = Undone(p)
  /\ \E writes, cancelled \in BOOLEAN :
       /\ bridge' = IF writes THEN bridge \cup {proc[p].job} ELSE bridge
       /\ proc' = [proc EXCEPT ![p].pc = "settling", ![p].settled = Undone(p),
                               ![p].cancelled = cancelled]
  /\ UNCHANGED <<head, review, before, copies, lock, runs, edits, crashes, own, mainline>>

BridgeWrites(j, f, c) ==
  /\ j \in bridge /\ f \in AgentFiles[j] /\ tree[f] # c
  /\ tree' = [tree EXCEPT ![f] = c]
  /\ UNCHANGED <<head, review, before, copies, lock, proc, bridge, runs, edits, crashes, own, mainline>>

BridgeEnds(j) ==
  /\ j \in bridge
  /\ bridge' = bridge \ {j}
  /\ UNCHANGED <<tree, head, review, before, copies, lock, proc, runs, edits, crashes, own, mainline>>

\* Only what was seen to be written late.
StillAliveIfSeen(p) == tree # proc[p].settled

\* Written late, or not confirmed stopped.
StillAlive(p) == tree # proc[p].settled \/ ~proc[p].cancelled

\* After the wait: put back again. (A cancelled run has stopped by then.)
Settle(p) ==
  LET alive == StillAlive(p) IN
  /\ proc[p].pc = "settling"
  /\ proc[p].cancelled => proc[p].job \notin bridge
  /\ tree' = Undone(p)
  /\ proc' = [proc EXCEPT ![p].pc = "rejecting", ![p].undone = TRUE,
                          ![p].rev.needs = alive, ![p].rev.alive = alive]
  /\ UNCHANGED <<head, review, before, copies, lock, bridge, runs, edits, crashes, own, mainline>>

Undo(p) ==
  /\ proc[p].pc = "undoing"
  /\ tree' = Undone(p)
  /\ proc' = [proc EXCEPT ![p].pc = "rejecting", ![p].undone = TRUE]
  /\ UNCHANGED <<head, review, before, copies, lock, bridge, runs, edits, crashes, own, mainline>>

\* reject(): a follow-up's change waits as it was; a first run is rejected,
\* without the files once they are put back.
Rejected(p) ==
  LET r == [proc[p].rev EXCEPT !.state = "rejected"] IN
  IF proc[p].cmd = "followup" THEN proc[p].prior
  ELSE IF proc[p].undone THEN [r EXCEPT !.created = {}, !.modified = {}, !.hashes = Nothing]
  ELSE r

Reject(p) ==
  /\ proc[p].pc = "rejecting"
  /\ review' = [review EXCEPT ![proc[p].job] = Rejected(p)]
  /\ Ends(p)
  /\ UNCHANGED <<tree, head, before, copies, bridge, runs, edits, crashes, own, mainline>>

-----------------------------------------------------------------------------
(* _discard, with the review as it was read before the lock *)

Again(r) == RepeatDiscard /\ r.alive
WholeRun(r) ==
  \/ r.state = "generating"
  \/ r.state = "rejected" /\ r.needs
  \/ r.state = "discarded" /\ Again(r)

TakeDiscard(p) ==
  LET r == proc[p].prior IN
  /\ proc[p].pc = "entering" /\ proc[p].cmd = "discard" /\ LockFree(p)
  /\ WholeRun(r) \/ r.state \in Waiting
  /\ proc' = [proc EXCEPT ![p].pc = "discarding",
                ![p].todo = IF WholeRun(r) THEN Touched(before[proc[p].job])
                            ELSE r.created \cup r.modified]
  /\ UNCHANGED <<tree, head, review, before, copies, bridge, runs, edits, crashes, own, mainline>>

NothingToDiscard(p) ==
  LET r == proc[p].prior IN
  /\ proc[p].pc = "entering" /\ proc[p].cmd = "discard" /\ lock = NoProc
  /\ ~WholeRun(r) /\ r.state \notin Waiting
  /\ proc' = [proc EXCEPT ![p] = IdleProc]
  /\ UNCHANGED <<tree, head, review, before, copies, lock, bridge, runs, edits, crashes, own, mainline>>

\* A modified file goes back to the last commit, whoever had changed it.
DiscardedToHead(p, f) ==
  LET j == proc[p].job IN
  IF WholeRun(proc[p].prior) THEN Restored(j, f)
  ELSE IF f \in proc[p].prior.created THEN Absent
  ELSE IF head[f] # Absent THEN head[f] ELSE tree[f]

\* One file: of an unfinished run by the saved state, else what the run
\* created is removed and what it modified is the person's version again.
Discarded(p, f) ==
  LET j == proc[p].job IN
  IF WholeRun(proc[p].prior) THEN Restored(j, f)
  ELSE IF f \in proc[p].prior.created THEN Absent
  ELSE IF copies[j][f] # Clean THEN copies[j][f]
  ELSE IF head[f] # Absent THEN head[f] ELSE tree[f]

DiscardFile(p) ==
  /\ proc[p].pc = "discarding"
  /\ \E f \in proc[p].todo :
       /\ tree' = [tree EXCEPT ![f] = Discarded(p, f)]
       /\ proc' = [proc EXCEPT ![p].todo = proc[p].todo \ {f}]
  /\ UNCHANGED <<head, review, before, copies, lock, bridge, runs, edits, crashes, own, mainline>>

CloseDiscard(p) ==
  LET r == proc[p].prior IN
  /\ proc[p].pc = "discarding" /\ proc[p].todo = {}
  /\ review' = [review EXCEPT ![proc[p].job] =
                  [r EXCEPT !.state = "discarded",
                            !.needs = IF WholeRun(r) THEN Again(r) ELSE r.needs]]
  /\ Ends(p)
  /\ UNCHANGED <<tree, head, before, copies, bridge, runs, edits, crashes, own, mainline>>

-----------------------------------------------------------------------------
(* A process stopped or dead; the person *)

\* The lock is an OS lock: it is gone with the process. Its agent may not be.
Crash(p) ==
  /\ proc[p].pc \notin {"idle", "entering"} /\ crashes < MaxCrashes
  /\ crashes' = crashes + 1
  /\ lock' = NoProc
  /\ \E writes \in BOOLEAN :
       bridge' = IF writes /\ proc[p].pc = "calling" THEN bridge \cup {proc[p].job} ELSE bridge
  /\ proc' = [proc EXCEPT ![p] = IdleProc]
  /\ UNCHANGED <<tree, head, review, before, copies, runs, edits, own, mainline>>

\* No run is to be finished or discarded, and no agent is writing.
AtRest == lock = NoProc /\ bridge = {} /\ \A j \in Jobs : Settled(j) \/ review[j].state \in Waiting

PersonEdits(f, c) ==
  /\ AtRest /\ edits < MaxEdits /\ f \notin WaitingFiles /\ tree[f] # c
  /\ f \in IF \A j \in Jobs : Settled(j) THEN PersonFiles ELSE BesideFiles
  /\ tree' = [tree EXCEPT ![f] = c]
  /\ own' = [own EXCEPT ![f] = c]
  /\ edits' = edits + 1
  /\ UNCHANGED <<head, review, before, copies, lock, proc, bridge, runs, crashes, mainline>>

PersonCommitsFile(f) ==
  /\ PersonCommits /\ AtRest /\ f \notin WaitingFiles /\ tree[f] # head[f] /\ head = mainline
  /\ head' = [head EXCEPT ![f] = tree[f]]
  /\ mainline' = head'
  /\ UNCHANGED <<tree, review, before, copies, lock, proc, bridge, runs, edits, crashes, own>>

\* "put the branch back by hand"
PersonResets ==
  /\ lock = NoProc /\ head # mainline
  /\ head' = mainline
  /\ UNCHANGED <<tree, review, before, copies, lock, proc, bridge, runs, edits, crashes, own, mainline>>

-----------------------------------------------------------------------------
RunStep(p) ==
  \/ TakeBaseline(p) \/ Announce(p) \/ HeadMoved(p)
  \/ RuleBroken(p) \/ NoChange(p) \/ AskAgain(p) \/ ToVerify(p)
  \/ Verified(p) \/ VerifyFailed(p) \/ Repair(p)
  \/ CallFails(p) \/ TimesOut(p) \/ Settle(p) \/ Undo(p) \/ Reject(p)

DiscardStep(p) ==
  TakeDiscard(p) \/ NothingToDiscard(p) \/ DiscardFile(p) \/ CloseDiscard(p)

Next ==
  \/ \E p \in Procs : \E cmd \in Commands, j \in Jobs : Enter(p, cmd, j)
  \/ \E p \in Procs : LockedOut(p) \/ RunStep(p) \/ DiscardStep(p) \/ Crash(p)
  \/ \E p \in Procs : \E f \in Files, c \in AgentPuts : AgentWrites(p, f, c)
  \/ \E p \in Procs : AgentCommits(p)
  \/ \E j \in Jobs : BridgeEnds(j) \/ \E f \in Files, c \in AgentPuts : BridgeWrites(j, f, c)
  \/ \E f \in Files, c \in PersonPuts : PersonEdits(f, c)
  \/ \E f \in Files : PersonCommitsFile(f)
  \/ PersonResets

Spec == Init /\ [][Next]_vars

\* What the interpreter and git do comes to an end; so do an agent's calls
\* (cursor_deadline_seconds).
FairSpec ==
  /\ Spec
  /\ \A p \in Procs : WF_vars(RunStep(p)) /\ WF_vars(DiscardStep(p))
  /\ \A j \in Jobs : WF_vars(BridgeEnds(j))

-----------------------------------------------------------------------------
(* Properties *)

ReviewType == [state : {"none", "generating", "rejected", "verify-failed", "pending-review", "discarded"},
               created : SUBSET Files, modified : SUBSET Files, hashes : [Files -> Entries],
               needs : BOOLEAN, alive : BOOLEAN, base : [Files -> Contents]]

ProcType == [pc : {"idle", "entering", "announcing", "calling", "verifying", "undoing",
                   "settling", "rejecting", "discarding"},
             cmd : {"none", "generate", "followup", "discard"}, job : Jobs,
             prior : ReviewType, rev : ReviewType, kept : [Files -> Entries],
             attempt : 0..Attempts, callHead : [Files -> Contents],
             settled : [Files -> Contents], start : [Files -> Contents],
             undone : BOOLEAN, cancelled : BOOLEAN, todo : SUBSET Files]

TypeOK ==
  /\ {tree, head, own, mainline} \subseteq [Files -> Contents]
  /\ review \in [Jobs -> ReviewType]
  /\ {before, copies} \subseteq [Jobs -> [Files -> Entries]]
  /\ lock \in Procs \cup {NoProc}
  /\ proc \in [Procs -> ProcType]
  /\ bridge \subseteq Jobs
  /\ runs \in 0..MaxRuns /\ edits \in 0..MaxEdits /\ crashes \in 0..MaxCrashes

\* "Discard puts everything back": when no change is left to decide on and
\* nothing writes, the tree is what it would be without any agent -- after
\* failed runs, timeouts, crashes, follow-ups and discards in any order.
SettledIsYours ==
  lock = NoProc /\ bridge = {} /\ (\A j \in Jobs : Settled(j)) => tree = own

\* "A follow-up that fails undoes itself and nothing more": a follow-up that
\* has been put back leaves the tree as it found it (but for a file of the
\* person's that the waiting change had removed: see README, section 6).
FollowupUndoesItself ==
  \A p \in Procs : proc[p].pc = "rejecting" /\ proc[p].cmd = "followup" /\ proc[p].undone
                     /\ proc[p].job \notin bridge
    => \A f \in Files :
         \/ tree[f] = proc[p].start[f]
         \/ f \in proc[p].prior.modified /\ proc[p].start[f] = Absent

\* RepoLock: "One generate / approve / discard at a time in this working
\* tree", whatever commands were started and whichever died.
LockHeld == \A p \in Procs : proc[p].pc \notin {"idle", "entering"} => lock = p

\* "Written BEFORE the agent is called: if this process is stopped or dies
\* mid-run, discard can still put everything back": from an agent's first
\* write to the end of the putting back, the job says that a run is not
\* finished, whatever other commands were let in or turned away meanwhile.
RunIsRecorded ==
  \A p \in Procs : proc[p].pc \in {"calling", "verifying", "undoing", "settling", "rejecting"}
    => review[proc[p].job].state = "generating"

\* RepoLock: "Two jobs running together would each see the other's edits as
\* its own agent's violations": what a run finds changed, its own agent may
\* write.
OnlyItsOwnChanges ==
  \A p \in Procs : proc[p].pc \in {"calling", "verifying", "undoing"} /\ proc[p].cmd = "generate"
    => Touched(before[proc[p].job]) \subseteq AgentFiles[proc[p].job]

\* A run that is let in gives the tree up again, however its calls end:
\* the repairs are counted.
EveryRunEnds == \A p \in Procs : (lock = p) ~> (lock # p)

=============================================================================
