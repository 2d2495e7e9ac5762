-------------------------- MODULE ReviewCycleProofs --------------------------
(***************************************************************************)
(* Theorems about ReviewCycle, for any jobs, files, processes and bounds:  *)
(* the types, that the lock lets one command at a time into the tree, that *)
(* a run is on record from its agent's first write to the end of the       *)
(* putting back, that a run finds only its own agent's changes, and that   *)
(* the person's files come back from whatever runs did to them.            *)
(***************************************************************************)
EXTENDS ReviewCycle, TLAPS

LEMMA Constants ==
  /\ Contents \subseteq Entries /\ Clean \in Entries /\ Clean \notin Contents
  /\ \A e \in Entries : e # Clean => e \in Contents
  /\ Absent \in Contents
  /\ Nothing \in [Files -> Entries] /\ FirstTree \in [Files -> Contents]
  /\ AgentPuts \subseteq Contents /\ PersonPuts \subseteq Contents
  BY ReviewCycleAssumption DEF Contents, Entries, Nothing

LEMMA Numbers ==
  /\ 0 \in 0..Attempts /\ 1 \in 0..Attempts
  /\ \A n \in 0..Attempts : n < Attempts => n + 1 \in 0..Attempts
  /\ 0 \in 0..MaxRuns /\ \A n \in 0..MaxRuns : n < MaxRuns => n + 1 \in 0..MaxRuns
  /\ 0 \in 0..MaxEdits /\ \A n \in 0..MaxEdits : n < MaxEdits => n + 1 \in 0..MaxEdits
  /\ 0 \in 0..MaxCrashes /\ \A n \in 0..MaxCrashes : n < MaxCrashes => n + 1 \in 0..MaxCrashes
  BY ReviewCycleAssumption

LEMMA NoReviewTyped == NoReview \in ReviewType
  BY Constants DEF NoReview, ReviewType

LEMMA IdleTyped == IdleProc \in ProcType /\ IdleProc.pc = "idle"
<1>1. (CHOOSE j \in Jobs : TRUE) \in Jobs
  BY ReviewCycleAssumption, Zenon
<1> QED
  BY <1>1, Constants, NoReviewTyped, Numbers DEF IdleProc, ProcType

\* The trees that the putting back computes.
LEMMA TreesTyped ==
  ASSUME TypeOK, NEW p \in Procs
  PROVE  /\ Dirty \in [Files -> Entries]
         /\ \A j \in Jobs : \A f \in Files : Restored(j, f) \in Contents
         /\ \A j \in Jobs : PutBackAll(j) \in [Files -> Contents]
         /\ Undone(p) \in [Files -> Contents]
         /\ \A f \in Files : Discarded(p, f) \in Contents
<1>1. proc[p] \in ProcType
  BY DEF TypeOK
<1>2. /\ proc[p].job \in Jobs /\ proc[p].kept \in [Files -> Entries]
      /\ tree \in [Files -> Contents] /\ head \in [Files -> Contents]
  BY <1>1 DEF TypeOK, ProcType
<1>3. Dirty \in [Files -> Entries]
  BY <1>2, Constants DEF Dirty
<1>4. ASSUME NEW j \in Jobs, NEW f \in Files PROVE Restored(j, f) \in Contents
  <2>1. copies[j][f] \in Entries
    BY DEF TypeOK
  <2> QED
    BY <1>2, <2>1, Constants DEF Restored, RestoredFromHead
<1>5. ASSUME NEW j \in Jobs PROVE PutBackAll(j) \in [Files -> Contents]
  BY <1>2, <1>4 DEF PutBackAll
<1>6. Undone(p) \in [Files -> Contents]
  BY <1>2, <1>5, Constants DEF Undone
<1>7. ASSUME NEW f \in Files PROVE Discarded(p, f) \in Contents
  <2>1. copies[proc[p].job][f] \in Entries
    BY <1>2 DEF TypeOK
  <2> QED
    BY <1>2, <1>4, <2>1, Constants DEF Discarded
<1> QED
  BY <1>3, <1>4, <1>5, <1>6, <1>7

\* What a run measures: sets of files, and reviews of the types.
LEMMA MeasuredTyped ==
  ASSUME TypeOK, NEW p \in Procs
  PROVE  /\ Measured(p) \in ReviewType /\ Hashed(p) \in ReviewType
         /\ Rejected(p) \in ReviewType
         /\ \A j \in Jobs : /\ Created(before[j]) \in SUBSET Files
                            /\ Modified(before[j]) \in SUBSET Files
                            /\ Touched(before[j]) \in SUBSET Files
<1>1. proc[p] \in ProcType
  BY DEF TypeOK
<1>2. /\ proc[p].rev \in ReviewType /\ proc[p].prior \in ReviewType
      /\ head \in [Files -> Contents] /\ tree \in [Files -> Contents]
  BY <1>1 DEF TypeOK, ProcType
<1>3. Measured(p) \in ReviewType
  BY <1>2 DEF Measured, ReviewType
<1>4. Hashed(p) \in ReviewType
  <2> DEFINE h == [f \in Files |-> IF f \in proc[p].rev.created \cup proc[p].rev.modified
                                   THEN tree[f] ELSE Clean]
  <2>1. h \in [Files -> Entries]
    BY <1>2, Constants
  <2> HIDE DEF h
  <2>2. [proc[p].rev EXCEPT !.hashes = h] \in ReviewType
    BY <1>2, <2>1 DEF ReviewType
  <2> QED
    BY <2>2 DEF Hashed, h
<1>5. Rejected(p) \in ReviewType
  <2>1. [proc[p].rev EXCEPT !.state = "rejected"] \in ReviewType
    BY <1>2 DEF ReviewType
  <2>2. [[proc[p].rev EXCEPT !.state = "rejected"]
           EXCEPT !.created = {}, !.modified = {}, !.hashes = Nothing] \in ReviewType
    BY <2>1, Constants DEF ReviewType
  <2> QED
    BY <1>2, <2>1, <2>2 DEF Rejected
<1>6. \A j \in Jobs : /\ Created(before[j]) \in SUBSET Files
                      /\ Modified(before[j]) \in SUBSET Files
                      /\ Touched(before[j]) \in SUBSET Files
  BY DEF Created, Modified, Changed, Deleted, Touched
<1> QED
  BY <1>3, <1>4, <1>5, <1>6

\* The starting state has the types.
LEMMA InitTyped == Init => TypeOK
  BY Constants, NoReviewTyped, IdleTyped, Numbers DEF Init, TypeOK

\* The steps of a run keep the types.
LEMMA RunTyped ==
  ASSUME TypeOK, NEW p \in Procs, RunStep(p)
  PROVE  TypeOK'
<1> USE NoReviewTyped, IdleTyped, Numbers
<1>1. proc[p] \in ProcType /\ proc \in [Procs -> ProcType]
  BY DEF TypeOK
<1>2. /\ proc[p].job \in Jobs /\ proc[p].rev \in ReviewType /\ proc[p].prior \in ReviewType
      /\ proc[p].attempt \in 0..Attempts
      /\ {tree, head, own, mainline} \subseteq [Files -> Contents]
  BY <1>1 DEF TypeOK, ProcType
<1>a. CASE TakeBaseline(p)
  <2> DEFINE j == proc[p].job
             copy == IF proc[p].cmd = "followup"
                     THEN [f \in Files |-> IF Baseline(p)[f] \notin {before[j][f], Absent}
                                           THEN Baseline(p)[f] ELSE copies[j][f]]
                     ELSE Copied(Baseline(p))
             base == IF proc[p].cmd = "followup" THEN proc[p].prior.base ELSE head
             rev == [NoReview EXCEPT !.state = "generating", !.base = base]
             kept == [f \in Files |-> IF proc[p].cmd = "followup"
                                         /\ f \in proc[p].prior.created \cup proc[p].prior.modified
                                         /\ tree[f] # Absent
                                      THEN tree[f] ELSE Clean]
  <2>1. Baseline(p) \in [Files -> Entries]
    <3>1. before[j] \in [Files -> Entries]
      BY <1>2 DEF TypeOK
    <3> QED
      BY <3>1, TreesTyped DEF Baseline
  <2>2. copy \in [Files -> Entries]
    <3>1. copies[j] \in [Files -> Entries]
      BY <1>2 DEF TypeOK
    <3> QED
      BY <1>2, <2>1, <3>1, Constants DEF Copied
  <2>3. rev \in ReviewType
    BY <1>2 DEF ReviewType
  <2>4. kept \in [Files -> Entries]
    BY <1>2, Constants
  <2>5. /\ before' = [before EXCEPT ![j] = Baseline(p)]
        /\ copies' = [copies EXCEPT ![j] = copy]
        /\ proc' = [proc EXCEPT ![p].pc = "announcing", ![p].rev = rev, ![p].kept = kept,
                                ![p].start = tree]
        /\ lock' = p /\ runs < MaxRuns /\ runs' = runs + 1
        /\ UNCHANGED <<tree, head, review, bridge, edits, crashes, own, mainline>>
    BY <1>a DEF TakeBaseline, LockFree
  <2> HIDE DEF copy, rev, kept
  <2>6. proc' \in [Procs -> ProcType]
    <3>1. [proc[p] EXCEPT !.pc = "announcing", !.rev = rev, !.kept = kept, !.start = tree] \in ProcType
      BY <1>1, <1>2, <2>3, <2>4 DEF ProcType
    <3>2. proc' = [proc EXCEPT ![p] = [proc[p] EXCEPT !.pc = "announcing", !.rev = rev,
                                                      !.kept = kept, !.start = tree]]
      BY <1>1, <2>5
    <3> QED
      BY <1>1, <3>1, <3>2
  <2>7. before' \in [Jobs -> [Files -> Entries]] /\ copies' \in [Jobs -> [Files -> Entries]]
    BY <1>2, <2>1, <2>2, <2>5 DEF TypeOK
  <2> QED
    BY <1>2, <2>5, <2>6, <2>7 DEF TypeOK
<1>b. CASE Announce(p)
  <2>1. [proc[p] EXCEPT !.pc = "calling", !.attempt = 1, !.callHead = head] \in ProcType
    BY <1>1, <1>2 DEF ProcType
  <2>2. proc' \in [Procs -> ProcType]
    BY <1>1, <1>b, <2>1 DEF Announce
  <2>3. review' = [review EXCEPT ![proc[p].job] = proc[p].rev]
    BY <1>b DEF Announce
  <2>4. review' \in [Jobs -> ReviewType]
    BY <1>2, <2>3 DEF TypeOK
  <2>5. UNCHANGED <<tree, head, before, copies, lock, bridge, runs, edits, crashes, own, mainline>>
    BY <1>b DEF Announce
  <2> QED
    BY <2>2, <2>4, <2>5 DEF TypeOK
<1>c. CASE HeadMoved(p)
  <2>1. [proc[p].rev EXCEPT !.needs = TRUE] \in ReviewType
    BY <1>2 DEF ReviewType
  <2>2. [proc[p] EXCEPT !.pc = "rejecting", !.rev = [proc[p].rev EXCEPT !.needs = TRUE],
                        !.undone = FALSE] \in ProcType
    BY <1>1, <2>1 DEF ProcType
  <2>3. proc' = [proc EXCEPT ![p] = [proc[p] EXCEPT !.pc = "rejecting",
                               !.rev = [proc[p].rev EXCEPT !.needs = TRUE], !.undone = FALSE]]
    BY <1>1, <1>c DEF HeadMoved, ProcType
  <2>4. proc' \in [Procs -> ProcType]
    BY <1>1, <2>2, <2>3
  <2>5. UNCHANGED <<tree, head, review, before, copies, lock, bridge, runs, edits, crashes, own, mainline>>
    BY <1>c DEF HeadMoved
  <2> QED
    BY <2>4, <2>5 DEF TypeOK
<1>d. CASE RuleBroken(p)
  <2>1. Measured(p) \in ReviewType
    BY MeasuredTyped
  <2>2. review' \in [Jobs -> ReviewType]
    BY <1>1, <1>2, <1>d, <2>1 DEF TypeOK, RuleBroken, Rebased
  <2>3. [proc[p] EXCEPT !.pc = "undoing", !.rev = Measured(p)] \in ProcType
    BY <1>1, <2>1 DEF ProcType
  <2>4. proc' = [proc EXCEPT ![p] = [proc[p] EXCEPT !.pc = "undoing", !.rev = Measured(p)]]
    BY <1>1, <1>d DEF RuleBroken
  <2>5. proc' \in [Procs -> ProcType]
    BY <1>1, <2>3, <2>4
  <2>6. UNCHANGED <<tree, head, before, copies, lock, bridge, runs, edits, crashes, own, mainline>>
    BY <1>d DEF RuleBroken
  <2> QED
    BY <2>2, <2>5, <2>6 DEF TypeOK
<1>e. CASE NoChange(p)
  <2>1. Measured(p) \in ReviewType
    BY MeasuredTyped
  <2>2. review' \in [Jobs -> ReviewType]
    BY <1>1, <1>2, <1>e, <2>1 DEF TypeOK, NoChange, Rebased
  <2>3. [proc[p] EXCEPT !.pc = "rejecting", !.rev = Measured(p), !.undone = FALSE] \in ProcType
    BY <1>1, <2>1 DEF ProcType
  <2>4. proc' = [proc EXCEPT ![p] = [proc[p] EXCEPT !.pc = "rejecting", !.rev = Measured(p), !.undone = FALSE]]
    BY <1>1, <1>e DEF NoChange
  <2>5. proc' \in [Procs -> ProcType]
    BY <1>1, <2>3, <2>4
  <2>6. UNCHANGED <<tree, head, before, copies, lock, bridge, runs, edits, crashes, own, mainline>>
    BY <1>e DEF NoChange
  <2> QED
    BY <2>2, <2>5, <2>6 DEF TypeOK
<1>f. CASE AskAgain(p)
  <2>1. Measured(p) \in ReviewType
    BY MeasuredTyped
  <2>2. review' \in [Jobs -> ReviewType]
    BY <1>1, <1>2, <1>f, <2>1 DEF TypeOK, AskAgain, Rebased
  <2>3. proc[p].attempt + 1 \in 0..Attempts
    BY <1>2, <1>f DEF AskAgain, NextAttempt
  <2>4. [proc[p] EXCEPT !.pc = "calling", !.callHead = head, !.rev = Measured(p),
                        !.attempt = proc[p].attempt + 1] \in ProcType
    BY <1>1, <1>2, <2>1, <2>3 DEF ProcType
  <2>5. proc' = [proc EXCEPT ![p] = [proc[p] EXCEPT !.pc = "calling", !.callHead = head, !.rev = Measured(p),
                        !.attempt = proc[p].attempt + 1]]
    BY <1>1, <1>f DEF AskAgain, NextAttempt
  <2>6. proc' \in [Procs -> ProcType]
    BY <1>1, <2>4, <2>5
  <2>7. UNCHANGED <<tree, head, before, copies, lock, bridge, runs, edits, crashes, own, mainline>>
    BY <1>f DEF AskAgain
  <2> QED
    BY <2>2, <2>6, <2>7 DEF TypeOK
<1>g. CASE ToVerify(p)
  <2> DEFINE r == [Measured(p) EXCEPT !.created = Created(before[proc[p].job]),
                                      !.modified = Modified(before[proc[p].job])]
  <2>1. Measured(p) \in ReviewType
    BY MeasuredTyped
  <2>2. r \in ReviewType
    BY <1>2, <2>1, MeasuredTyped DEF ReviewType
  <2>3. review' \in [Jobs -> ReviewType]
    BY <1>1, <1>2, <1>g, <2>1 DEF TypeOK, ToVerify, Rebased
  <2>4. proc' = [proc EXCEPT ![p].pc = "verifying", ![p].rev = r]
    BY <1>g DEF ToVerify
  <2> HIDE DEF r
  <2>5. proc' \in [Procs -> ProcType]
    BY <1>1, <2>2, <2>4 DEF ProcType
  <2>6. UNCHANGED <<tree, head, before, copies, lock, bridge, runs, edits, crashes, own, mainline>>
    BY <1>g DEF ToVerify
  <2> QED
    BY <2>3, <2>5, <2>6 DEF TypeOK
<1>h. CASE Verified(p)
  <2>1. [Hashed(p) EXCEPT !.state = "pending-review"] \in ReviewType
    BY MeasuredTyped DEF ReviewType
  <2> QED
    BY <1>1, <1>2, <1>h, <2>1 DEF TypeOK, Verified, Held, Ends
<1>i. CASE VerifyFailed(p)
  <2>1. [Hashed(p) EXCEPT !.state = "verify-failed"] \in ReviewType
    BY MeasuredTyped DEF ReviewType
  <2> QED
    BY <1>1, <1>2, <1>i, <2>1 DEF TypeOK, VerifyFailed, Held, Ends
<1>j. CASE Repair(p)
  <2>1. Hashed(p) \in ReviewType
    BY MeasuredTyped
  <2>2. proc[p].attempt + 1 \in 0..Attempts
    BY <1>2, <1>j DEF Repair, NextAttempt
  <2>4. [proc[p] EXCEPT !.pc = "calling", !.callHead = head, !.rev = Hashed(p),
                        !.attempt = proc[p].attempt + 1] \in ProcType
    BY <1>1, <1>2, <2>1, <2>2 DEF ProcType
  <2>5. proc' = [proc EXCEPT ![p] = [proc[p] EXCEPT !.pc = "calling", !.callHead = head, !.rev = Hashed(p),
                        !.attempt = proc[p].attempt + 1]]
    BY <1>1, <1>j DEF Repair, NextAttempt
  <2>6. proc' \in [Procs -> ProcType]
    BY <1>1, <2>4, <2>5
  <2>7. UNCHANGED <<tree, head, review, before, copies, lock, bridge, runs, edits, crashes, own, mainline>>
    BY <1>j DEF Repair
  <2> QED
    BY <2>6, <2>7 DEF TypeOK
<1>k. CASE CallFails(p)
  BY <1>1, <1>k DEF TypeOK, CallFails, ProcType
<1>l. CASE TimesOut(p)
  <2>1. Undone(p) \in [Files -> Contents]
    BY TreesTyped
  <2>2. PICK writes \in BOOLEAN, cancelled \in BOOLEAN :
          /\ bridge' = IF writes THEN bridge \cup {proc[p].job} ELSE bridge
          /\ proc' = [proc EXCEPT ![p].pc = "settling", ![p].settled = Undone(p),
                                  ![p].cancelled = cancelled]
    BY <1>l DEF TimesOut
  <2>3. proc' \in [Procs -> ProcType]
    BY <1>1, <2>1, <2>2 DEF ProcType
  <2>4. tree' \in [Files -> Contents] /\ bridge' \subseteq Jobs
    BY <1>2, <1>l, <2>1, <2>2 DEF TypeOK, TimesOut
  <2> QED
    BY <1>2, <1>l, <2>3, <2>4 DEF TypeOK, TimesOut
<1>m. CASE Settle(p)
  <2> DEFINE r == [proc[p].rev EXCEPT !.needs = StillAlive(p), !.alive = StillAlive(p)]
  <2>1. Undone(p) \in [Files -> Contents]
    BY TreesTyped
  <2>2. StillAlive(p) \in BOOLEAN
    BY DEF StillAlive
  <2>3. r \in ReviewType
    BY <1>2, <2>2 DEF ReviewType
  <2>4. proc' = [proc EXCEPT ![p].pc = "rejecting", ![p].undone = TRUE, ![p].rev = r]
    <3>1. [proc[p] EXCEPT !.pc = "rejecting", !.undone = TRUE, !.rev.needs = StillAlive(p),
                          !.rev.alive = StillAlive(p)]
            = [proc[p] EXCEPT !.pc = "rejecting", !.undone = TRUE, !.rev = r]
      BY <1>1, <1>2 DEF ProcType, ReviewType
    <3> QED
      <4>1. proc' = [proc EXCEPT ![p].pc = "rejecting", ![p].undone = TRUE,
                                 ![p].rev.needs = StillAlive(p), ![p].rev.alive = StillAlive(p)]
        BY <1>m DEF Settle
      <4>2. proc' = [proc EXCEPT ![p] = [proc[p] EXCEPT !.pc = "rejecting", !.undone = TRUE,
                       !.rev.needs = StillAlive(p), !.rev.alive = StillAlive(p)]]
        BY <1>1, <4>1 DEF ProcType, ReviewType
      <4>3. proc' = [proc EXCEPT ![p] = [proc[p] EXCEPT !.pc = "rejecting", !.undone = TRUE, !.rev = r]]
        BY <3>1, <4>2, Zenon
      <4> QED
        BY <1>1, <4>3
  <2> HIDE DEF r
  <2>5. proc' \in [Procs -> ProcType]
    BY <1>1, <2>3, <2>4 DEF ProcType
  <2> QED
    BY <1>2, <1>m, <2>1, <2>5 DEF TypeOK, Settle
<1>n. CASE Undo(p)
  <2>1. Undone(p) \in [Files -> Contents]
    BY TreesTyped
  <2>2. proc' \in [Procs -> ProcType]
    BY <1>1, <1>n DEF Undo, ProcType
  <2> QED
    BY <1>2, <1>n, <2>1, <2>2 DEF TypeOK, Undo
<1>o. CASE Reject(p)
  <2>1. Rejected(p) \in ReviewType
    BY MeasuredTyped
  <2> QED
    BY <1>1, <1>2, <1>o, <2>1 DEF TypeOK, Reject, Ends
<1> QED
  BY <1>a, <1>b, <1>c, <1>d, <1>e, <1>f, <1>g, <1>h, <1>i, <1>j, <1>k, <1>l, <1>m, <1>n, <1>o DEF RunStep


\* So do the steps of a discard.
LEMMA DiscardTyped ==
  ASSUME TypeOK, NEW p \in Procs, DiscardStep(p)
  PROVE  TypeOK'
<1> USE IdleTyped
<1>1. proc[p] \in ProcType /\ proc \in [Procs -> ProcType]
  BY DEF TypeOK
<1>2. proc[p].job \in Jobs /\ proc[p].prior \in ReviewType /\ proc[p].todo \in SUBSET Files
  BY <1>1 DEF ProcType
<1>a. CASE TakeDiscard(p)
  <2> DEFINE todo == IF WholeRun(proc[p].prior) THEN Touched(before[proc[p].job])
                     ELSE proc[p].prior.created \cup proc[p].prior.modified
  <2>1. todo \in SUBSET Files
    BY <1>2, MeasuredTyped DEF ReviewType
  <2>2. proc' = [proc EXCEPT ![p].pc = "discarding", ![p].todo = todo]
    BY <1>a DEF TakeDiscard
  <2> HIDE DEF todo
  <2>3. proc' \in [Procs -> ProcType]
    BY <1>1, <2>1, <2>2 DEF ProcType
  <2> QED
    BY <1>a, <2>3 DEF TypeOK, TakeDiscard, LockFree
<1>b. CASE NothingToDiscard(p)
  BY <1>1, <1>b DEF TypeOK, NothingToDiscard
<1>c. CASE DiscardFile(p)
  <2>1. PICK f \in proc[p].todo : /\ tree' = [tree EXCEPT ![f] = Discarded(p, f)]
                                  /\ proc' = [proc EXCEPT ![p].todo = proc[p].todo \ {f}]
    BY <1>c DEF DiscardFile
  <2>2. tree' \in [Files -> Contents]
    BY <1>2, <2>1, TreesTyped DEF TypeOK
  <2>3. proc' \in [Procs -> ProcType]
    BY <1>1, <1>2, <2>1 DEF ProcType
  <2> QED
    BY <1>c, <2>2, <2>3 DEF TypeOK, DiscardFile
<1>d. CASE CloseDiscard(p)
  <2> DEFINE n == IF WholeRun(proc[p].prior) THEN Again(proc[p].prior) ELSE proc[p].prior.needs
             r == [proc[p].prior EXCEPT !.state = "discarded", !.needs = n]
  <2>1. n \in BOOLEAN
    BY <1>2 DEF Again, ReviewType
  <2> HIDE DEF n
  <2>2. r \in ReviewType
    BY <1>2, <2>1 DEF ReviewType
  <2>3. review' = [review EXCEPT ![proc[p].job] = r]
    BY <1>d DEF CloseDiscard, n
  <2> HIDE DEF r
  <2>4. review' \in [Jobs -> ReviewType]
    BY <2>2, <2>3 DEF TypeOK
  <2>5. proc' \in [Procs -> ProcType] /\ lock' = NoProc
    BY <1>1, <1>d DEF CloseDiscard, Ends
  <2>6. UNCHANGED <<tree, head, before, copies, bridge, runs, edits, crashes, own, mainline>>
    BY <1>d DEF CloseDiscard
  <2> QED
    BY <2>4, <2>5, <2>6 DEF TypeOK
<1> QED
  BY <1>a, <1>b, <1>c, <1>d DEF DiscardStep

\* And every other step: commands that come and go, agents, the person.
LEMMA TypeStep == TypeOK /\ [Next]_vars => TypeOK'
<1> SUFFICES ASSUME TypeOK, [Next]_vars PROVE TypeOK'
  OBVIOUS
<1> USE IdleTyped, Numbers, Constants
<1>1. ASSUME NEW p \in Procs, NEW cmd \in Commands, NEW j \in Jobs, Enter(p, cmd, j) PROVE TypeOK'
  <2>1. review[j] \in ReviewType /\ proc \in [Procs -> ProcType]
    BY DEF TypeOK
  <2>2. cmd \in {"generate", "followup", "discard"}
    BY ReviewCycleAssumption
  <2>3. [IdleProc EXCEPT !.pc = "entering", !.cmd = cmd, !.job = j, !.prior = review[j]] \in ProcType
    BY <2>1, <2>2 DEF ProcType
  <2> QED
    BY <1>1, <2>1, <2>3 DEF TypeOK, Enter
<1>2. ASSUME NEW p \in Procs, LockedOut(p) PROVE TypeOK'
  BY <1>2 DEF TypeOK, LockedOut
<1>3. ASSUME NEW p \in Procs, RunStep(p) PROVE TypeOK'
  BY <1>3, RunTyped
<1>4. ASSUME NEW p \in Procs, DiscardStep(p) PROVE TypeOK'
  BY <1>4, DiscardTyped
<1>5. ASSUME NEW p \in Procs, Crash(p) PROVE TypeOK'
  <2>1. proc[p].job \in Jobs /\ proc' \in [Procs -> ProcType]
    BY <1>5 DEF TypeOK, Crash, ProcType
  <2> QED
    BY <1>5, <2>1 DEF TypeOK, Crash
<1>6. ASSUME NEW p \in Procs, NEW f \in Files, NEW c \in AgentPuts, AgentWrites(p, f, c) PROVE TypeOK'
  BY <1>6 DEF TypeOK, AgentWrites
<1>7. ASSUME NEW p \in Procs, AgentCommits(p) PROVE TypeOK'
  BY <1>7 DEF TypeOK, AgentCommits
<1>8. ASSUME NEW j \in Jobs, BridgeEnds(j) PROVE TypeOK'
  BY <1>8 DEF TypeOK, BridgeEnds
<1>9. ASSUME NEW j \in Jobs, NEW f \in Files, NEW c \in AgentPuts, BridgeWrites(j, f, c) PROVE TypeOK'
  BY <1>9 DEF TypeOK, BridgeWrites
<1>10. ASSUME NEW f \in Files, NEW c \in PersonPuts, PersonEdits(f, c) PROVE TypeOK'
  BY <1>10 DEF TypeOK, PersonEdits
<1>11. ASSUME NEW f \in Files, PersonCommitsFile(f) PROVE TypeOK'
  BY <1>11 DEF TypeOK, PersonCommitsFile
<1>12. ASSUME PersonResets PROVE TypeOK'
  BY <1>12 DEF TypeOK, PersonResets
<1>13. ASSUME UNCHANGED vars PROVE TypeOK'
  BY <1>13 DEF TypeOK, vars
<1> QED
  BY <1>1, <1>2, <1>3, <1>4, <1>5, <1>6, <1>7, <1>8, <1>9, <1>10, <1>11, <1>12, <1>13 DEF Next

THEOREM TypeCorrect == Spec => []TypeOK
<1>1. Init => TypeOK
  BY InitTyped
<1>2. TypeOK /\ [Next]_vars => TypeOK'
  BY TypeStep
<1> QED
  BY <1>1, <1>2, PTL DEF Spec


-----------------------------------------------------------------------------
\* What RepoLock and the record rest on, inductive with the types: whoever is
\* past the lock holds it, and a run carries "generating" from its baseline on.
RunPhases == {"calling", "verifying", "undoing", "settling", "rejecting"}

CarriesGenerating ==
  \A p \in Procs : proc[p].pc \in RunPhases \cup {"announcing"} => proc[p].rev.state = "generating"

Recorded == LockHeld /\ CarriesGenerating /\ RunIsRecorded

LEMMA InitRecorded == Init => Recorded
  BY IdleTyped DEF Init, Recorded, LockHeld, CarriesGenerating, RunIsRecorded, RunPhases

\* Only p moves, and holds the lock before and after.
LEMMA KeptBusy ==
  ASSUME TypeOK, Recorded, NEW p \in Procs, NEW x,
         proc' = [proc EXCEPT ![p] = x], lock' = lock, lock = p,
         x.job = proc[p].job, x.rev.state = "generating" \/ x.pc = "discarding",
         x.pc # "announcing", x.pc \notin {"idle", "entering"},
         x.pc \in RunPhases => review'[x.job].state = "generating"
  PROVE  Recorded'
<1>1. proc \in [Procs -> ProcType]
  BY DEF TypeOK
<1>2. proc'[p] = x /\ \A q \in Procs \ {p} : proc'[q] = proc[q] /\ proc[q].pc \in {"idle", "entering"}
  BY <1>1 DEF Recorded, LockHeld
<1> QED
  BY <1>2 DEF Recorded, LockHeld, CarriesGenerating, RunIsRecorded, RunPhases

\* Only p moves, and is outside the tree afterwards.
LEMMA KeptAway ==
  ASSUME TypeOK, Recorded, NEW p \in Procs, NEW x,
         proc' = [proc EXCEPT ![p] = x], x.pc \in {"idle", "entering"},
         \/ review' = review /\ lock' = lock /\ proc[p].pc \in {"idle", "entering"}
         \/ lock = p
  PROVE  Recorded'
<1>1. proc \in [Procs -> ProcType]
  BY DEF TypeOK
<1>2. proc'[p] = x /\ \A q \in Procs \ {p} : proc'[q] = proc[q]
  BY <1>1
<1>3. CASE lock = p
  <2>1. \A q \in Procs : proc'[q].pc \in {"idle", "entering"}
    BY <1>2, <1>3 DEF Recorded, LockHeld
  <2> QED
    BY <2>1 DEF Recorded, LockHeld, CarriesGenerating, RunIsRecorded, RunPhases
<1>4. CASE review' = review /\ lock' = lock /\ proc[p].pc \in {"idle", "entering"}
  BY <1>2, <1>4 DEF Recorded, LockHeld, CarriesGenerating, RunIsRecorded, RunPhases
<1> QED
  BY <1>3, <1>4

\* Only p moves, and has just taken the free lock.
LEMMA KeptTaken ==
  ASSUME TypeOK, Recorded, NEW p \in Procs, NEW x,
         proc' = [proc EXCEPT ![p] = x], LockFree(p),
         \/ x.pc = "announcing" /\ x.rev.state = "generating"
         \/ x.pc = "discarding"
  PROVE  Recorded'
<1>1. proc \in [Procs -> ProcType]
  BY DEF TypeOK
<1>2. \A q \in Procs : proc[q].pc \in {"idle", "entering"}
  BY ReviewCycleAssumption DEF Recorded, LockHeld, LockFree
<1>3. proc'[p] = x /\ lock' = p /\ \A q \in Procs \ {p} : proc'[q] = proc[q]
  BY <1>1 DEF LockFree
<1> QED
  BY <1>2, <1>3 DEF Recorded, LockHeld, CarriesGenerating, RunIsRecorded, RunPhases

\* The steps of a run keep the record.
LEMMA RunRecorded ==
  ASSUME TypeOK, Recorded, NEW p \in Procs, RunStep(p)
  PROVE  Recorded'
<1> USE IdleTyped
<1>1. /\ proc[p] \in ProcType /\ proc \in [Procs -> ProcType] /\ proc[p].job \in Jobs
      /\ proc[p].rev \in ReviewType /\ review \in [Jobs -> ReviewType]
  BY DEF TypeOK, ProcType
<1>2. /\ proc[p].pc \notin {"idle", "entering"} => lock = p
      /\ proc[p].pc \in RunPhases \cup {"announcing"} => proc[p].rev.state = "generating"
      /\ proc[p].pc \in RunPhases => review[proc[p].job].state = "generating"
  BY DEF Recorded, LockHeld, CarriesGenerating, RunIsRecorded, RunPhases
<1>3. Measured(p).state = proc[p].rev.state /\ Hashed(p).state = proc[p].rev.state
  BY <1>1 DEF Measured, Hashed, ReviewType
<1>a. CASE TakeBaseline(p)
  <2> DEFINE base == IF proc[p].cmd = "followup" THEN proc[p].prior.base ELSE head
             rev == [NoReview EXCEPT !.state = "generating", !.base = base]
  <2>1. PICK kept : proc' = [proc EXCEPT ![p].pc = "announcing", ![p].rev = rev, ![p].kept = kept,
                                        ![p].start = tree]
    BY <1>a DEF TakeBaseline
  <2>2. rev.state = "generating" /\ LockFree(p)
    BY <1>a DEF TakeBaseline, NoReview
  <2> HIDE DEF rev
  <2> DEFINE x == [proc[p] EXCEPT !.pc = "announcing", !.rev = rev, !.kept = kept, !.start = tree]
  <2>3. proc' = [proc EXCEPT ![p] = x] /\ x.pc = "announcing" /\ x.rev = rev
    BY <1>1, <2>1 DEF ProcType
  <2> HIDE DEF x
  <2> QED
    BY <2>2, <2>3, KeptTaken
<1>b. CASE Announce(p)
  <2> DEFINE x == [proc[p] EXCEPT !.pc = "calling", !.attempt = 1, !.callHead = head]
  <2>1. proc[p].pc = "announcing"
    BY <1>b DEF Announce
  <2>2. /\ proc' = [proc EXCEPT ![p] = x] /\ lock' = lock /\ lock = p
        /\ x.job = proc[p].job /\ x.pc \notin {"idle", "entering", "announcing"}
        /\ x.rev.state = "generating"
    <3>1. proc' = [proc EXCEPT ![p] = x] /\ lock' = lock
      BY <1>1, <1>b DEF Announce
    <3>2. lock = p /\ proc[p].rev.state = "generating"
      BY <1>2, <1>3, <2>1 DEF RunPhases
    <3>3. x.job = proc[p].job /\ x.pc \notin {"idle", "entering", "announcing"}
      BY <1>1 DEF ProcType
    <3>4. x.rev.state = "generating"
      BY <1>1, <3>2 DEF ProcType, ReviewType
    <3> QED
      BY <3>1, <3>2, <3>3, <3>4
  <2>3. review'[proc[p].job].state = "generating"
    BY <1>1, <1>2, <1>3, <1>b, <2>1 DEF Announce, RunPhases, ReviewType
  <2> HIDE DEF x
  <2> QED
    BY <2>2, <2>3, KeptBusy
<1>c. CASE HeadMoved(p)
  <2> DEFINE x == [proc[p] EXCEPT !.pc = "rejecting", !.rev.needs = TRUE, !.undone = FALSE]
  <2>1. proc[p].pc = "calling"
    BY <1>c DEF HeadMoved
  <2>2. /\ proc' = [proc EXCEPT ![p] = x] /\ lock' = lock /\ lock = p
        /\ x.job = proc[p].job /\ x.pc \notin {"idle", "entering", "announcing"}
        /\ x.rev.state = "generating"
    <3>1. proc' = [proc EXCEPT ![p] = x] /\ lock' = lock
      BY <1>1, <1>c DEF HeadMoved
    <3>2. lock = p /\ proc[p].rev.state = "generating"
      BY <1>2, <1>3, <2>1 DEF RunPhases
    <3>3. x.job = proc[p].job /\ x.pc \notin {"idle", "entering", "announcing"}
      BY <1>1 DEF ProcType
    <3>4. x.rev.state = "generating"
      BY <1>1, <3>2 DEF ProcType, ReviewType
    <3> QED
      BY <3>1, <3>2, <3>3, <3>4
  <2>3. review'[proc[p].job].state = "generating"
    BY <1>1, <1>2, <1>3, <1>c, <2>1 DEF HeadMoved, RunPhases, ReviewType
  <2> HIDE DEF x
  <2> QED
    BY <2>2, <2>3, KeptBusy
<1>d. CASE RuleBroken(p)
  <2> DEFINE x == [proc[p] EXCEPT !.pc = "undoing", !.rev = Measured(p)]
  <2>1. proc[p].pc = "calling"
    BY <1>d DEF RuleBroken, Finished, Rebased
  <2>2. /\ proc' = [proc EXCEPT ![p] = x] /\ lock' = lock /\ lock = p
        /\ x.job = proc[p].job /\ x.pc \notin {"idle", "entering", "announcing"}
        /\ x.rev.state = "generating"
    <3>1. proc' = [proc EXCEPT ![p] = x] /\ lock' = lock
      BY <1>1, <1>d DEF RuleBroken, Finished, Rebased
    <3>2. lock = p /\ proc[p].rev.state = "generating"
      BY <1>2, <1>3, <2>1 DEF RunPhases
    <3>3. x.job = proc[p].job /\ x.pc \notin {"idle", "entering", "announcing"}
      BY <1>1 DEF ProcType
    <3>4. x.rev.state = "generating"
      BY <1>1, <3>2 DEF Measured, ProcType, ReviewType
    <3> QED
      BY <3>1, <3>2, <3>3, <3>4
  <2>3. review'[proc[p].job].state = "generating"
    BY <1>1, <1>2, <1>3, <1>d, <2>1 DEF RuleBroken, Finished, Rebased, RunPhases, ReviewType
  <2> HIDE DEF x
  <2> QED
    BY <2>2, <2>3, KeptBusy
<1>e. CASE NoChange(p)
  <2> DEFINE x == [proc[p] EXCEPT !.pc = "rejecting", !.rev = Measured(p), !.undone = FALSE]
  <2>1. proc[p].pc = "calling"
    BY <1>e DEF NoChange, Finished, Rebased
  <2>2. /\ proc' = [proc EXCEPT ![p] = x] /\ lock' = lock /\ lock = p
        /\ x.job = proc[p].job /\ x.pc \notin {"idle", "entering", "announcing"}
        /\ x.rev.state = "generating"
    <3>1. proc' = [proc EXCEPT ![p] = x] /\ lock' = lock
      BY <1>1, <1>e DEF NoChange, Finished, Rebased
    <3>2. lock = p /\ proc[p].rev.state = "generating"
      BY <1>2, <1>3, <2>1 DEF RunPhases
    <3>3. x.job = proc[p].job /\ x.pc \notin {"idle", "entering", "announcing"}
      BY <1>1 DEF ProcType
    <3>4. x.rev.state = "generating"
      BY <1>1, <3>2 DEF Measured, ProcType, ReviewType
    <3> QED
      BY <3>1, <3>2, <3>3, <3>4
  <2>3. review'[proc[p].job].state = "generating"
    BY <1>1, <1>2, <1>3, <1>e, <2>1 DEF NoChange, Finished, Rebased, RunPhases, ReviewType
  <2> HIDE DEF x
  <2> QED
    BY <2>2, <2>3, KeptBusy
<1>f. CASE AskAgain(p)
  <2> DEFINE x == [proc[p] EXCEPT !.pc = "calling", !.callHead = head, !.rev = Measured(p),
                                  !.attempt = proc[p].attempt + 1]
  <2>1. proc[p].pc = "calling"
    BY <1>f DEF AskAgain, Finished, Rebased, NextAttempt
  <2>2. /\ proc' = [proc EXCEPT ![p] = x] /\ lock' = lock /\ lock = p
        /\ x.job = proc[p].job /\ x.pc \notin {"idle", "entering", "announcing"}
        /\ x.rev.state = "generating"
    <3>1. proc' = [proc EXCEPT ![p] = x] /\ lock' = lock
      BY <1>1, <1>f DEF AskAgain, Finished, Rebased, NextAttempt
    <3>2. lock = p /\ proc[p].rev.state = "generating"
      BY <1>2, <1>3, <2>1 DEF RunPhases
    <3>3. x.job = proc[p].job /\ x.pc \notin {"idle", "entering", "announcing"}
      BY <1>1 DEF ProcType
    <3>4. x.rev.state = "generating"
      BY <1>1, <3>2 DEF Measured, ProcType, ReviewType
    <3> QED
      BY <3>1, <3>2, <3>3, <3>4
  <2>3. review'[proc[p].job].state = "generating"
    BY <1>1, <1>2, <1>3, <1>f, <2>1 DEF AskAgain, Finished, Rebased, NextAttempt, RunPhases, ReviewType
  <2> HIDE DEF x
  <2> QED
    BY <2>2, <2>3, KeptBusy
<1>g. CASE ToVerify(p)
  <2> DEFINE r == [Measured(p) EXCEPT !.created = Created(before[proc[p].job]),
                                      !.modified = Modified(before[proc[p].job])]
             x == [proc[p] EXCEPT !.pc = "verifying", !.rev = r]
  <2>1. proc[p].pc = "calling"
    BY <1>g DEF ToVerify, Finished
  <2>2. r.state = "generating"
    BY <1>2, <1>3, <2>1, MeasuredTyped DEF ReviewType, RunPhases
  <2>3. proc' = [proc EXCEPT ![p].pc = "verifying", ![p].rev = r] /\ lock' = lock
    BY <1>g DEF ToVerify
  <2>4. review'[proc[p].job].state = "generating"
    BY <1>1, <1>2, <1>3, <1>g, <2>1 DEF ToVerify, Rebased, RunPhases, ReviewType
  <2> HIDE DEF r
  <2>5. /\ proc' = [proc EXCEPT ![p] = x] /\ lock = p
        /\ x.job = proc[p].job /\ x.pc = "verifying" /\ x.rev = r
    BY <1>1, <1>2, <2>1, <2>3 DEF ProcType
  <2> HIDE DEF x
  <2> QED
    BY <2>2, <2>3, <2>4, <2>5, KeptBusy
<1>h. CASE Verified(p)
  <2>1. proc' = [proc EXCEPT ![p] = IdleProc] /\ lock = p
    BY <1>2, <1>h DEF Verified, Held, Ends
  <2> QED
    BY <2>1, KeptAway
<1>i. CASE VerifyFailed(p)
  <2>1. proc' = [proc EXCEPT ![p] = IdleProc] /\ lock = p
    BY <1>2, <1>i DEF VerifyFailed, Held, Ends
  <2> QED
    BY <2>1, KeptAway
<1>o. CASE Reject(p)
  <2>1. proc' = [proc EXCEPT ![p] = IdleProc] /\ lock = p
    BY <1>2, <1>o DEF Reject, Ends
  <2> QED
    BY <2>1, KeptAway
<1>j. CASE Repair(p)
  <2> DEFINE x == [proc[p] EXCEPT !.pc = "calling", !.callHead = head, !.rev = Hashed(p),
                                  !.attempt = proc[p].attempt + 1]
  <2>1. proc[p].pc = "verifying"
    BY <1>j DEF Repair, NextAttempt
  <2>2. /\ proc' = [proc EXCEPT ![p] = x] /\ lock' = lock /\ lock = p
        /\ x.job = proc[p].job /\ x.pc \notin {"idle", "entering", "announcing"}
        /\ x.rev.state = "generating"
    <3>1. proc' = [proc EXCEPT ![p] = x] /\ lock' = lock
      BY <1>1, <1>j DEF Repair, NextAttempt
    <3>2. lock = p /\ proc[p].rev.state = "generating"
      BY <1>2, <1>3, <2>1 DEF RunPhases
    <3>3. x.job = proc[p].job /\ x.pc \notin {"idle", "entering", "announcing"}
      BY <1>1 DEF ProcType
    <3>4. x.rev.state = "generating"
      BY <1>1, <3>2 DEF Hashed, ProcType, ReviewType
    <3> QED
      BY <3>1, <3>2, <3>3, <3>4
  <2>3. review'[proc[p].job].state = "generating"
    BY <1>1, <1>2, <1>3, <1>j, <2>1 DEF Repair, NextAttempt, RunPhases, ReviewType
  <2> HIDE DEF x
  <2> QED
    BY <2>2, <2>3, KeptBusy
<1>k. CASE CallFails(p)
  <2> DEFINE x == [proc[p] EXCEPT !.pc = "undoing"]
  <2>1. proc[p].pc = "calling"
    BY <1>k DEF CallFails, Finished
  <2>2. /\ proc' = [proc EXCEPT ![p] = x] /\ lock' = lock /\ lock = p
        /\ x.job = proc[p].job /\ x.pc \notin {"idle", "entering", "announcing"}
        /\ x.rev.state = "generating"
    <3>1. proc' = [proc EXCEPT ![p] = x] /\ lock' = lock
      BY <1>1, <1>k DEF CallFails, Finished
    <3>2. lock = p /\ proc[p].rev.state = "generating"
      BY <1>2, <1>3, <2>1 DEF RunPhases
    <3>3. x.job = proc[p].job /\ x.pc \notin {"idle", "entering", "announcing"}
      BY <1>1 DEF ProcType
    <3>4. x.rev.state = "generating"
      BY <1>1, <3>2 DEF ProcType, ReviewType
    <3> QED
      BY <3>1, <3>2, <3>3, <3>4
  <2>3. review'[proc[p].job].state = "generating"
    BY <1>1, <1>2, <1>3, <1>k, <2>1 DEF CallFails, Finished, RunPhases, ReviewType
  <2> HIDE DEF x
  <2> QED
    BY <2>2, <2>3, KeptBusy
<1>l. CASE TimesOut(p)
  <2>1. /\ proc[p].pc = "calling" /\ lock' = lock /\ review' = review
        /\ \E c \in BOOLEAN : proc' = [proc EXCEPT ![p].pc = "settling", ![p].settled = Undone(p),
                                                   ![p].cancelled = c]
    BY <1>l DEF TimesOut, Finished
  <2>2. PICK c \in BOOLEAN : proc' = [proc EXCEPT ![p].pc = "settling", ![p].settled = Undone(p),
                                                  ![p].cancelled = c]
    BY <2>1
  <2> DEFINE x == [proc[p] EXCEPT !.pc = "settling", !.settled = Undone(p), !.cancelled = c]
  <2>3. /\ proc' = [proc EXCEPT ![p] = x] /\ lock = p
        /\ x.job = proc[p].job /\ x.pc = "settling" /\ x.rev = proc[p].rev
    BY <1>1, <1>2, <2>1, <2>2 DEF ProcType
  <2> HIDE DEF x
  <2> QED
    BY <1>2, <2>1, <2>3, KeptBusy DEF RunPhases
<1>m. CASE Settle(p)
  <2> DEFINE x == [proc[p] EXCEPT !.pc = "rejecting", !.undone = TRUE,
                                  !.rev.needs = StillAlive(p), !.rev.alive = StillAlive(p)]
  <2>1. proc[p].pc = "settling"
    BY <1>m DEF Settle
  <2>2. /\ proc' = [proc EXCEPT ![p] = x] /\ lock' = lock /\ lock = p
        /\ x.job = proc[p].job /\ x.pc \notin {"idle", "entering", "announcing"}
        /\ x.rev.state = "generating"
    <3>1. proc' = [proc EXCEPT ![p] = x] /\ lock' = lock
      BY <1>1, <1>m DEF Settle
    <3>2. lock = p /\ proc[p].rev.state = "generating"
      BY <1>2, <1>3, <2>1 DEF RunPhases
    <3>3. x.job = proc[p].job /\ x.pc \notin {"idle", "entering", "announcing"}
      BY <1>1 DEF ProcType
    <3>4. x.rev.state = "generating"
      BY <1>1, <3>2 DEF ProcType, ReviewType
    <3> QED
      BY <3>1, <3>2, <3>3, <3>4
  <2>3. review'[proc[p].job].state = "generating"
    BY <1>1, <1>2, <1>3, <1>m, <2>1 DEF Settle, RunPhases, ReviewType
  <2> HIDE DEF x
  <2> QED
    BY <2>2, <2>3, KeptBusy
<1>n. CASE Undo(p)
  <2> DEFINE x == [proc[p] EXCEPT !.pc = "rejecting", !.undone = TRUE]
  <2>1. proc[p].pc = "undoing"
    BY <1>n DEF Undo
  <2>2. /\ proc' = [proc EXCEPT ![p] = x] /\ lock' = lock /\ lock = p
        /\ x.job = proc[p].job /\ x.pc \notin {"idle", "entering", "announcing"}
        /\ x.rev.state = "generating"
    <3>1. proc' = [proc EXCEPT ![p] = x] /\ lock' = lock
      BY <1>1, <1>n DEF Undo
    <3>2. lock = p /\ proc[p].rev.state = "generating"
      BY <1>2, <1>3, <2>1 DEF RunPhases
    <3>3. x.job = proc[p].job /\ x.pc \notin {"idle", "entering", "announcing"}
      BY <1>1 DEF ProcType
    <3>4. x.rev.state = "generating"
      BY <1>1, <3>2 DEF ProcType, ReviewType
    <3> QED
      BY <3>1, <3>2, <3>3, <3>4
  <2>3. review'[proc[p].job].state = "generating"
    BY <1>1, <1>2, <1>3, <1>n, <2>1 DEF Undo, RunPhases, ReviewType
  <2> HIDE DEF x
  <2> QED
    BY <2>2, <2>3, KeptBusy
<1> QED
  BY <1>a, <1>b, <1>c, <1>d, <1>e, <1>f, <1>g, <1>h, <1>i, <1>j, <1>k, <1>l, <1>m, <1>n, <1>o DEF RunStep

\* So does every other step.
LEMMA RecordedStep == TypeOK /\ Recorded /\ [Next]_vars => Recorded'
<1> SUFFICES ASSUME TypeOK, Recorded, [Next]_vars PROVE Recorded'
  OBVIOUS
<1> USE IdleTyped
<1>1. proc \in [Procs -> ProcType]
  BY DEF TypeOK
<1>2. \A p \in Procs : proc[p].pc \notin {"idle", "entering"} => lock = p
  BY DEF Recorded, LockHeld
<1>3. ASSUME UNCHANGED <<proc, lock, review>> PROVE Recorded'
  BY <1>3 DEF Recorded, LockHeld, CarriesGenerating, RunIsRecorded
<1>4. ASSUME NEW p \in Procs, NEW cmd \in Commands, NEW j \in Jobs, Enter(p, cmd, j) PROVE Recorded'
  <2> DEFINE x == [IdleProc EXCEPT !.pc = "entering", !.cmd = cmd, !.job = j, !.prior = review[j]]
  <2>1. /\ proc' = [proc EXCEPT ![p] = x] /\ x.pc = "entering"
        /\ review' = review /\ lock' = lock /\ proc[p].pc = "idle"
    BY <1>4 DEF Enter, ProcType
  <2> HIDE DEF x
  <2> QED
    BY <2>1, KeptAway
<1>5. ASSUME NEW p \in Procs, LockedOut(p) PROVE Recorded'
  BY <1>5, KeptAway DEF LockedOut
<1>6. ASSUME NEW p \in Procs, RunStep(p) PROVE Recorded'
  BY <1>6, RunRecorded
<1>7. ASSUME NEW p \in Procs, DiscardStep(p) PROVE Recorded'
  <2>a. CASE TakeDiscard(p)
    <3>1. PICK todo : proc' = [proc EXCEPT ![p].pc = "discarding", ![p].todo = todo]
      BY <2>a DEF TakeDiscard
    <3> DEFINE x == [proc[p] EXCEPT !.pc = "discarding", !.todo = todo]
    <3>2. LockFree(p) /\ proc' = [proc EXCEPT ![p] = x] /\ x.pc = "discarding"
      <4>1. LockFree(p)
        BY <2>a DEF TakeDiscard
      <4>2. proc' = [proc EXCEPT ![p] = x]
        BY <1>1, <3>1
      <4>3. x.pc = "discarding"
        BY <1>1 DEF ProcType
      <4> QED
        BY <4>1, <4>2, <4>3, Zenon
    <3> HIDE DEF x
    <3> QED
      BY <3>2, KeptTaken
  <2>b. CASE NothingToDiscard(p)
    BY <2>b, KeptAway DEF NothingToDiscard
  <2>c. CASE DiscardFile(p)
    <3>1. PICK f \in proc[p].todo : proc' = [proc EXCEPT ![p].todo = proc[p].todo \ {f}]
      BY <2>c DEF DiscardFile
    <3> DEFINE x == [proc[p] EXCEPT !.todo = proc[p].todo \ {f}]
    <3>2. /\ proc' = [proc EXCEPT ![p] = x] /\ x.pc = "discarding" /\ x.job = proc[p].job
          /\ lock' = lock /\ lock = p
      <4>1. proc[p].pc = "discarding" /\ lock' = lock
        BY <2>c DEF DiscardFile
      <4>2. proc' = [proc EXCEPT ![p] = x]
        BY <1>1, <3>1
      <4>3. x.pc = "discarding" /\ x.job = proc[p].job
        BY <1>1, <4>1 DEF ProcType
      <4>4. lock = p
        BY <1>2, <4>1
      <4> QED
        BY <4>1, <4>2, <4>3, <4>4, Zenon
    <3> HIDE DEF x
    <3> QED
      BY <3>2, KeptBusy DEF RunPhases
  <2>d. CASE CloseDiscard(p)
    BY <1>2, <2>d, KeptAway DEF CloseDiscard, Ends
  <2> QED
    BY <1>7, <2>a, <2>b, <2>c, <2>d DEF DiscardStep
<1>8. ASSUME NEW p \in Procs, Crash(p) PROVE Recorded'
  BY <1>2, <1>8, KeptAway DEF Crash
<1> QED
  BY <1>3, <1>4, <1>5, <1>6, <1>7, <1>8
  DEF Next, vars, AgentWrites, AgentCommits, BridgeEnds, BridgeWrites, PersonEdits,
      PersonCommitsFile, PersonResets

THEOREM OnRecord == Spec => [](TypeOK /\ Recorded)
<1>1. Init => TypeOK /\ Recorded
  BY InitTyped, InitRecorded
<1>2. TypeOK /\ Recorded /\ [Next]_vars => TypeOK' /\ Recorded'
  BY TypeStep, RecordedStep
<1> QED
  BY <1>1, <1>2, PTL DEF Spec

\* RepoLock: whatever commands are started, turned away or die, the one past
\* the lock holds it, so no two are in the tree.
THEOREM OneInTheTree == Spec => []LockHeld
<1>1. Recorded => LockHeld
  BY DEF Recorded
<1> QED
  BY <1>1, OnRecord, PTL

\* _generate: from the agent's first write to the end of the putting back
\* the job's review says that a run is not finished.
THEOREM RunsAreRecorded == Spec => []RunIsRecorded
<1>1. Recorded => RunIsRecorded
  BY DEF Recorded
<1> QED
  BY <1>1, OnRecord, PTL

-----------------------------------------------------------------------------
(* What a run finds changed is its own agent's, when no agent commits and   *)
(* no run was given up with its agent still writing                         *)

Alone == "generate" \notin CommitsIn /\ TimeoutsIn = {} /\ crashes = 0

\* From the saved state to the putting back.
Measuring(p) == proc[p].pc \in {"announcing", "calling", "verifying", "undoing"} /\ proc[p].cmd = "generate"

Ours ==
  Alone => /\ bridge = {}
           /\ \A p \in Procs : Measuring(p) => Touched(before[proc[p].job]) \subseteq AgentFiles[proc[p].job]

LEMMA InitOurs == Init => Ours
  BY IdleTyped DEF Init, Ours, Measuring

\* Nothing is written, and who measures was measuring the same run before.
LEMMA OursUntouched ==
  ASSUME Ours, NEW p \in Procs, UNCHANGED <<tree, head, before, bridge, crashes>>,
         \A q \in Procs \ {p} : proc'[q] = proc[q],
         Measuring(p)' => Measuring(p) /\ proc'[p].job = proc[p].job
  PROVE  Ours'
<1>1. \A b : Touched(b)' = {f \in Files : b[f] # Dirty[f]}
  BY DEF Touched, Dirty
<1>2. Alone' = Alone
  BY DEF Alone
<1>3. \A j : Touched(before[j])' = Touched(before[j])
  BY DEF Touched, Dirty
<1>4. \A q \in Procs : Measuring(q)' => Measuring(q) /\ proc'[q].job = proc[q].job
  BY DEF Measuring
<1> QED
  BY <1>2, <1>3, <1>4 DEF Ours

\* Nobody measures after the step.
LEMMA OursNone ==
  ASSUME Ours, UNCHANGED <<bridge, crashes>>, \A p \in Procs : ~Measuring(p)'
  PROVE  Ours'
<1>1. Alone' = Alone
  BY DEF Alone
<1> QED
  BY <1>1 DEF Ours

\* The lock is free, or another's: who does not hold it does not measure.
LEMMA OursAtRest ==
  ASSUME Recorded, Ours, lock = NoProc, UNCHANGED <<proc, bridge, crashes>>
  PROVE  Ours'
<1>1. \A p \in Procs : ~Measuring(p)'
  BY ReviewCycleAssumption DEF Recorded, LockHeld, Measuring
<1> QED
  BY <1>1, OursNone

LEMMA OnlyHolderMeasures ==
  ASSUME Recorded, NEW p \in Procs, NEW q \in Procs, proc[p].pc \notin {"idle", "entering"}, Measuring(q)
  PROVE  q = p
BY DEF Recorded, LockHeld, Measuring

LEMMA RunOurs ==
  ASSUME TypeOK, Recorded, Ours, NEW p \in Procs, RunStep(p)
  PROVE  Ours'
<1>1. proc[p] \in ProcType /\ proc \in [Procs -> ProcType] /\ proc[p].job \in Jobs
  BY DEF TypeOK, ProcType
<1>a. CASE TakeBaseline(p)
  <2>1. /\ lock = NoProc /\ UNCHANGED <<tree, head, bridge, crashes>>
        /\ before' = [before EXCEPT ![proc[p].job] = Baseline(p)]
    BY <1>a DEF TakeBaseline, LockFree
  <2>2. /\ \A q \in Procs \ {p} : proc'[q] = proc[q]
        /\ proc'[p].cmd = proc[p].cmd /\ proc'[p].job = proc[p].job
    BY <1>1, <1>a DEF TakeBaseline, ProcType
  <2>3. \A q \in Procs \ {p} : ~Measuring(q)'
    BY <2>1, <2>2, ReviewCycleAssumption DEF Recorded, LockHeld, Measuring
  <2>4. ASSUME Measuring(p)'
        PROVE  Touched(before[proc[p].job])' = {}
    <3>1. Baseline(p) = Dirty
      BY <2>2, <2>4 DEF Baseline, Measuring
    <3>2. before'[proc[p].job] = Dirty /\ Dirty' = Dirty
      BY <1>1, <2>1, <3>1 DEF TypeOK, Dirty
    <3> QED
      BY <2>2, <3>2 DEF Touched
  <2>5. Alone' = Alone
    BY <2>1 DEF Alone
  <2> QED
    BY <2>1, <2>3, <2>4, <2>5 DEF Ours
<1>b. CASE Settle(p) \/ Undo(p)
  <2>1. /\ UNCHANGED <<bridge, crashes>> /\ proc[p].pc \in {"settling", "undoing"}
        /\ \A q \in Procs \ {p} : proc'[q] = proc[q]
        /\ proc'[p].pc = "rejecting"
    BY <1>1, <1>b DEF Settle, Undo, ProcType
  <2>2. \A q \in Procs : ~Measuring(q)'
    BY <2>1, OnlyHolderMeasures DEF Measuring
  <2> QED
    BY <2>1, <2>2, OursNone
<1>c. CASE TimesOut(p)
  <2>1. TimeoutsIn # {} /\ crashes' = crashes
    BY <1>c DEF TimesOut
  <2> QED
    BY <2>1 DEF Ours, Alone
<1>d. CASE Verified(p) \/ VerifyFailed(p) \/ Reject(p)
  <2>1. /\ UNCHANGED <<tree, head, before, bridge, crashes>> /\ proc' = [proc EXCEPT ![p] = IdleProc]
    BY <1>d DEF Verified, VerifyFailed, Held, Reject, Ends
  <2>2. ~Measuring(p)' /\ \A q \in Procs \ {p} : proc'[q] = proc[q]
    BY <1>1, <2>1, IdleTyped DEF Measuring
  <2> QED
    BY <2>1, <2>2, OursUntouched
<1>e. CASE Announce(p) \/ HeadMoved(p) \/ CallFails(p)
  <2>1. /\ UNCHANGED <<tree, head, before, bridge, crashes>> /\ proc[p].pc \in {"announcing", "calling"}
    BY <1>e DEF Announce, HeadMoved, CallFails, Finished
  <2>2. /\ proc'[p].cmd = proc[p].cmd /\ proc'[p].job = proc[p].job
        /\ \A q \in Procs \ {p} : proc'[q] = proc[q]
    BY <1>1, <1>e DEF Announce, HeadMoved, CallFails, ProcType
  <2> QED
    BY <2>1, <2>2, OursUntouched DEF Measuring
<1>f. CASE RuleBroken(p) \/ NoChange(p) \/ AskAgain(p) \/ ToVerify(p) \/ Repair(p)
  <2>1. /\ UNCHANGED <<tree, head, before, bridge, crashes>> /\ proc[p].pc \in {"calling", "verifying"}
    BY <1>f DEF RuleBroken, NoChange, AskAgain, ToVerify, Repair, NextAttempt, Finished
  <2>2. /\ proc'[p].cmd = proc[p].cmd /\ proc'[p].job = proc[p].job
        /\ \A q \in Procs \ {p} : proc'[q] = proc[q]
    BY <1>1, <1>f DEF RuleBroken, NoChange, AskAgain, ToVerify, Repair, NextAttempt, ProcType
  <2> QED
    BY <2>1, <2>2, OursUntouched DEF Measuring
<1> QED
  BY <1>a, <1>b, <1>c, <1>d, <1>e, <1>f DEF RunStep

LEMMA OursStep ==
  ASSUME TypeOK, Recorded, Ours, [Next]_vars
  PROVE  Ours'
<1>1. proc \in [Procs -> ProcType]
  BY DEF TypeOK
<1>2. ASSUME NEW p \in Procs, NEW cmd \in Commands, NEW j \in Jobs, Enter(p, cmd, j) PROVE Ours'
  <2>1. /\ UNCHANGED <<tree, head, before, bridge, crashes>>
        /\ proc'[p].pc = "entering" /\ \A q \in Procs \ {p} : proc'[q] = proc[q]
    BY <1>1, <1>2, IdleTyped DEF Enter, ProcType
  <2> QED
    BY <2>1, OursUntouched DEF Measuring
<1>3. ASSUME NEW p \in Procs, LockedOut(p) PROVE Ours'
  <2>1. /\ UNCHANGED <<tree, head, before, bridge, crashes>>
        /\ proc'[p].pc = "idle" /\ \A q \in Procs \ {p} : proc'[q] = proc[q]
    BY <1>1, <1>3, IdleTyped DEF LockedOut
  <2> QED
    BY <2>1, OursUntouched DEF Measuring
<1>4. ASSUME NEW p \in Procs, RunStep(p) PROVE Ours'
  BY <1>4, RunOurs
<1>5. ASSUME NEW p \in Procs, DiscardStep(p) PROVE Ours'
  <2>a. CASE TakeDiscard(p) \/ NothingToDiscard(p)
    <3>1. /\ UNCHANGED <<tree, head, before, bridge, crashes>>
          /\ proc'[p].pc \in {"discarding", "idle"} /\ \A q \in Procs \ {p} : proc'[q] = proc[q]
      BY <1>1, <2>a, IdleTyped DEF TakeDiscard, NothingToDiscard, ProcType
    <3> QED
      BY <3>1, OursUntouched DEF Measuring
  <2>b. CASE DiscardFile(p)
    <3>1. /\ UNCHANGED <<bridge, crashes>> /\ proc[p].pc = "discarding" /\ proc'[p].pc = "discarding"
          /\ \A q \in Procs \ {p} : proc'[q] = proc[q]
      BY <1>1, <2>b DEF DiscardFile, ProcType
    <3>2. \A q \in Procs : ~Measuring(q)'
      BY <3>1, OnlyHolderMeasures DEF Measuring
    <3> QED
      BY <3>1, <3>2, OursNone
  <2>c. CASE CloseDiscard(p)
    <3>1. /\ UNCHANGED <<tree, head, before, bridge, crashes>>
          /\ proc'[p].pc = "idle" /\ \A q \in Procs \ {p} : proc'[q] = proc[q]
      BY <1>1, <2>c, IdleTyped DEF CloseDiscard, Ends
    <3> QED
      BY <3>1, OursUntouched DEF Measuring
  <2> QED
    BY <1>5, <2>a, <2>b, <2>c DEF DiscardStep
<1>6. ASSUME NEW p \in Procs, Crash(p) PROVE Ours'
  <2>1. ~Alone'
    BY <1>6 DEF Crash, Alone, TypeOK
  <2> QED
    BY <2>1 DEF Ours
<1>7. ASSUME NEW p \in Procs, NEW f \in Files, NEW c \in AgentPuts, AgentWrites(p, f, c) PROVE Ours'
  <2>1. /\ UNCHANGED <<head, before, proc, bridge, crashes>> /\ proc[p].pc = "calling"
        /\ f \in AgentFiles[proc[p].job] /\ tree' = [tree EXCEPT ![f] = c]
    BY <1>7 DEF AgentWrites
  <2>2. \A g \in Files : g # f => Dirty'[g] = Dirty[g]
    BY <2>1 DEF TypeOK, Dirty
  <2>3. \A j : Touched(before[j])' \subseteq Touched(before[j]) \cup {f}
    BY <2>1, <2>2 DEF Touched
  <2>4. \A q \in Procs : Measuring(q)' => Measuring(q) /\ q = p
    BY <2>1, OnlyHolderMeasures DEF Measuring
  <2>5. Alone' = Alone
    BY <2>1 DEF Alone
  <2> QED
    BY <2>1, <2>3, <2>4, <2>5 DEF Ours
<1>8. ASSUME NEW p \in Procs, AgentCommits(p) PROVE Ours'
  <2>1. /\ UNCHANGED <<tree, before, proc, bridge, crashes>> /\ proc[p].pc = "calling" /\ proc[p].cmd \in CommitsIn
    BY <1>8 DEF AgentCommits
  <2>2. Alone' = Alone
    BY <2>1 DEF Alone
  <2>3. Alone => \A q \in Procs : ~Measuring(q)'
    BY <2>1, OnlyHolderMeasures DEF Alone, Measuring
  <2> QED
    BY <2>1, <2>2, <2>3 DEF Ours
<1>9. ASSUME NEW j \in Jobs, BridgeEnds(j) \/ \E f \in Files, c \in AgentPuts : BridgeWrites(j, f, c) PROVE Ours'
  <2>1. bridge # {} /\ crashes' = crashes
    BY <1>9 DEF BridgeEnds, BridgeWrites
  <2> QED
    BY <2>1 DEF Ours, Alone
<1>10. ASSUME \/ \E f \in Files, c \in PersonPuts : PersonEdits(f, c)
              \/ \E f \in Files : PersonCommitsFile(f)
              \/ PersonResets
       PROVE  Ours'
  <2>1. lock = NoProc /\ UNCHANGED <<proc, bridge, crashes>>
    BY <1>10 DEF PersonEdits, PersonCommitsFile, PersonResets, AtRest
  <2> QED
    BY <2>1, OursAtRest
<1>11. ASSUME UNCHANGED vars PROVE Ours'
  <2>1. UNCHANGED <<tree, head, before, proc, bridge, crashes>>
    BY <1>11 DEF vars
  <2>2. \A j : Touched(before[j])' = Touched(before[j])
    BY <2>1 DEF Touched, Dirty
  <2> QED
    BY <2>1, <2>2 DEF Ours, Alone, Measuring
<1> QED
  BY <1>2, <1>3, <1>4, <1>5, <1>6, <1>7, <1>8, <1>9, <1>10, <1>11 DEF Next

\* RepoLock: while no agent commits and no run was given up with its agent
\* still writing, what a run finds changed is what its own agent may write,
\* whatever other commands were started, and whoever edits the tree.
THEOREM RunsKeepApart == Spec => [](Alone => OnlyItsOwnChanges)
<1>1. TypeOK /\ Recorded /\ Ours /\ [Next]_vars => Ours'
  BY OursStep
<1>2. Ours => (Alone => OnlyItsOwnChanges)
  BY DEF Ours, Measuring, OnlyItsOwnChanges
<1> QED
  BY InitOurs, <1>1, <1>2, OnRecord, PTL DEF Spec

-----------------------------------------------------------------------------
(* With nobody in the tree the person's files are the person's, or the way  *)
(* back to them is saved: one job, one command at a time, and a person who  *)
(* does as the page says                                                    *)

OneAtATime == (\A i, j \in Jobs : i = j) /\ (\A p, q \in Procs : p = q)

\* The person does as a rejection says. An agent commits, and a call runs out
\* of its time, in a first run only. The person removes no file, and edits beside
\* a waiting change only in the write roots, to something that is not in HEAD
\* and is not committed while the change waits. Each of these is needed.
AsThePageSays ==
  /\ Careful
  /\ CommitsIn \subseteq {"generate"} /\ TimeoutsIn \subseteq {"generate"}
  /\ Absent \notin PersonPuts
  /\ BesideFiles \subseteq Roots
  /\ \A f \in BesideFiles : FirstTree[f] \notin PersonPuts
  /\ PersonCommits => BesideFiles = {}

\* The person removes no file, and HEAD moves only as the person commits.
PersonsOwn ==
  /\ \A f \in Files : own[f] = Absent => mainline[f] = Absent
  /\ PersonCommits \/ mainline = FirstTree

Mine(r) == r.created \cup r.modified
Ready == bridge = {} /\ head = mainline

\* The saved state has the person's version: HEAD's, or the copy.
Saved(j, f) ==
  \/ before[j][f] = Clean /\ copies[j][f] = Clean /\ own[f] = mainline[f]
  \/ before[j][f] = own[f] /\ copies[j][f] = own[f]
AllSaved(j) == \A f \in Files : Saved(j, f)

\* A file beside the change is the person's; if edited since the run, a
\* follow-up will save it.
Aside(j, f) ==
  /\ tree[f] = own[f]
  /\ \/ Saved(j, f)
     \/ f \in BesideFiles /\ own[f] \notin {mainline[f], Absent} /\ before[j][f] = copies[j][f]

\* What a run created was not there; what it modified was.
Made(j, r) ==
  /\ \A f \in r.created : own[f] = Absent /\ mainline[f] = Absent
  /\ \A f \in r.modified : before[j][f] # Clean \/ mainline[f] # Absent

HeldRight(j, r) ==
  /\ r.state \in Waiting /\ ~r.needs /\ ~Again(r)
  /\ Made(j, r)
  /\ \A f \in Files : IF f \in Mine(r) THEN Saved(j, f) ELSE Aside(j, f)

\* With nobody in the tree.
OnReview(j) ==
  /\ Settled(j) => tree = own /\ Ready
  /\ review[j].state \in Waiting => HeldRight(j, review[j]) /\ Ready
  /\ ~Settled(j) /\ review[j].state \notin Waiting => AllSaved(j)

Entered(p) ==
  /\ bridge = {} /\ proc[p].prior = review[proc[p].job]
  /\ proc[p].cmd # "none"
  /\ proc[p].cmd = "generate" => Settled(proc[p].job)
  /\ proc[p].cmd = "followup" => proc[p].prior.state \in Waiting
  /\ proc[p].cmd = "discard" => head = mainline

\* A run keeps the way back; a follow-up also to the change that waited.
WayBack(p) ==
  LET j == proc[p].job  r == proc[p].prior IN
  /\ AllSaved(j)
  /\ proc[p].cmd \in {"generate", "followup"}
  /\ proc[p].cmd = "generate" => proc[p].kept = Nothing
  /\ proc[p].cmd = "followup" =>
       /\ r.state \in Waiting /\ ~r.needs /\ ~Again(r) /\ Made(j, r)
       /\ \A f \in Files :
            /\ proc[p].kept[f] = IF f \in Mine(r) /\ proc[p].start[f] # Absent THEN proc[p].start[f] ELSE Clean
            /\ f \notin Mine(r) => proc[p].start[f] = own[f]

Unharmed(r) == ~r.needs /\ ~r.alive

Announcing(p) ==
  /\ WayBack(p) /\ Ready /\ Unharmed(proc[p].rev) /\ proc[p].prior = review[proc[p].job]
  /\ tree = proc[p].start
  /\ proc[p].cmd = "generate" => Settled(proc[p].job) /\ tree = own

Calling(p) ==
  /\ WayBack(p) /\ bridge = {} /\ Unharmed(proc[p].rev) /\ proc[p].callHead = mainline
  /\ proc[p].cmd = "followup" => head = mainline

Verifying(p) ==
  /\ WayBack(p) /\ Ready /\ Unharmed(proc[p].rev)
  /\ Touched(before[proc[p].job]) = Mine(proc[p].rev) /\ Made(proc[p].job, proc[p].rev)

Undoing(p) == WayBack(p) /\ Ready /\ Unharmed(proc[p].rev)

Settling(p) == WayBack(p) /\ head = mainline /\ proc[p].cmd = "generate"

Rejecting(p) ==
  /\ WayBack(p) /\ (proc[p].rev.alive => proc[p].rev.needs)
  /\ proc[p].cmd = "generate" => proc[p].rev.needs \/ (tree = own /\ Ready)
  /\ proc[p].cmd = "followup" =>
       /\ Ready
       /\ \A f \in Files \ Mine(proc[p].prior) : tree[f] = own[f]
       /\ proc[p].undone => \A f \in Files : tree[f] = IF proc[p].kept[f] # Clean THEN proc[p].kept[f] ELSE own[f]

Discarding(p) ==
  LET j == proc[p].job  r == proc[p].prior IN
  /\ Ready /\ r = review[j]
  /\ IF WholeRun(r) THEN AllSaved(j) ELSE HeldRight(j, r) /\ proc[p].todo \subseteq Mine(r)
  /\ \A f \in Files \ proc[p].todo : tree[f] = own[f]

Phase(p) ==
  /\ proc[p].pc = "announcing" => Announcing(p)
  /\ proc[p].pc = "calling" => Calling(p)
  /\ proc[p].pc = "verifying" => Verifying(p)
  /\ proc[p].pc = "undoing" => Undoing(p)
  /\ proc[p].pc = "settling" => Settling(p)
  /\ proc[p].pc = "rejecting" => Rejecting(p)
  /\ proc[p].pc = "discarding" => Discarding(p)

Recoverable ==
  /\ PersonsOwn
  /\ lock \in Procs => proc[lock].pc \notin {"idle", "entering"}
  /\ \A j \in Jobs : Again(review[j]) => review[j].needs
  /\ lock = NoProc => \A j \in Jobs : OnReview(j)
  /\ \A p \in Procs : (proc[p].pc = "entering" => Entered(p)) /\ Phase(p)

-----------------------------------------------------------------------------
(* What putting back makes of a saved state *)

LEMMA RightAgain ==
  ASSUME TypeOK, PersonsOwn, head = mainline, NEW j \in Jobs, NEW f \in Files, Saved(j, f)
  PROVE  /\ Restored(j, f) = own[f]
         /\ f \notin Touched(before[j]) => tree[f] = own[f]
<1>1. tree[f] \in Contents /\ head[f] \in Contents /\ own[f] \in Contents
  BY DEF TypeOK
<1>2. Dirty[f] = IF tree[f] = head[f] THEN Clean ELSE tree[f]
  BY DEF Dirty
<1>3. f \notin Touched(before[j]) => before[j][f] = Dirty[f]
  BY DEF Touched
<1>4. own[f] = Absent => mainline[f] = Absent
  BY DEF PersonsOwn
<1>5. Clean \notin Contents
  BY Constants
<1>6. CASE before[j][f] = Clean /\ copies[j][f] = Clean /\ own[f] = mainline[f]
  BY <1>1, <1>2, <1>3, <1>5, <1>6 DEF Restored, RestoredFromHead
<1>7. CASE before[j][f] = own[f] /\ copies[j][f] = own[f]
  BY <1>1, <1>2, <1>3, <1>5, <1>7 DEF Restored
<1> QED
  BY <1>6, <1>7 DEF Saved

LEMMA PutBackRight ==
  ASSUME TypeOK, PersonsOwn, head = mainline, NEW j \in Jobs, AllSaved(j)
  PROVE  /\ PutBackAll(j) = own
         /\ \A f \in Files : f \notin Touched(before[j]) => tree[f] = own[f]
<1>1. \A f \in Files : Restored(j, f) = own[f] /\ (f \notin Touched(before[j]) => tree[f] = own[f])
  BY RightAgain DEF AllSaved
<1>2. \A f \in Files : PutBackAll(j)[f] = own[f]
  BY <1>1 DEF PutBackAll
<1>3. own \in [Files -> Contents] /\ PutBackAll(j) = [f \in Files |-> PutBackAll(j)[f]]
  BY DEF TypeOK, PutBackAll
<1> QED
  BY <1>1, <1>2, <1>3

\* undo(): of a first run the person's tree, of a follow-up with the waiting
\* change in it.
LEMMA UndoneRight ==
  ASSUME TypeOK, PersonsOwn, head = mainline, NEW p \in Procs, WayBack(p)
  PROVE  /\ proc[p].cmd = "generate" => Undone(p) = own
         /\ proc[p].cmd = "followup" =>
              \A f \in Files : Undone(p)[f] = IF proc[p].kept[f] # Clean THEN proc[p].kept[f] ELSE own[f]
<1>1. proc[p].job \in Jobs
  BY DEF TypeOK, ProcType
<1>2. PutBackAll(proc[p].job) = own
  BY <1>1, PutBackRight DEF WayBack
<1>3. \A f \in Files : Undone(p)[f] = IF proc[p].kept[f] # Clean THEN proc[p].kept[f] ELSE own[f]
  BY <1>2 DEF Undone
<1>4. ASSUME proc[p].cmd = "generate" PROVE Undone(p) = own
  <2>1. \A f \in Files : proc[p].kept[f] = Clean
    BY <1>4 DEF WayBack, Nothing
  <2>2. own \in [Files -> Contents] /\ Undone(p) = [f \in Files |-> Undone(p)[f]]
    BY DEF TypeOK, Undone
  <2> QED
    BY <1>3, <2>1, <2>2
<1> QED
  BY <1>3, <1>4

LEMMA DiscardedRight ==
  ASSUME TypeOK, PersonsOwn, NEW p \in Procs, Discarding(p), NEW f \in proc[p].todo
  PROVE  Discarded(p, f) = own[f]
<1> DEFINE j == proc[p].job
           r == proc[p].prior
<1>1. j \in Jobs /\ f \in Files /\ head = mainline
  BY DEF TypeOK, ProcType, Discarding, Ready
<1>2. CASE WholeRun(r)
  <2>1. Saved(j, f)
    BY <1>1, <1>2 DEF Discarding, AllSaved
  <2>2. Restored(j, f) = own[f]
    BY <1>1, <2>1, RightAgain
  <2> QED
    BY <1>2, <2>2 DEF Discarded
<1>3. CASE ~WholeRun(r)
  <2>1. HeldRight(j, r) /\ f \in Mine(r)
    BY <1>3 DEF Discarding
  <2>2. Saved(j, f) /\ Made(j, r)
    BY <1>1, <2>1 DEF HeldRight
  <2>3. CASE f \in r.created
    BY <1>3, <2>2, <2>3 DEF Made, Discarded
  <2>4. CASE f \notin r.created
    <3>1. before[j][f] # Clean \/ mainline[f] # Absent
      BY <2>1, <2>2, <2>4 DEF Made, Mine
    <3>2. own[f] # Clean
      BY <1>1, Constants DEF TypeOK
    <3> QED
      BY <1>1, <1>3, <2>2, <2>4, <3>1, <3>2 DEF Discarded, Saved
  <2> QED
    BY <2>3, <2>4
<1> QED
  BY <1>2, <1>3

-----------------------------------------------------------------------------
(* Steps that leave most of it alone *)

\* Only files in the tree, or nothing, moved.
LEMMA SavedStays ==
  ASSUME UNCHANGED <<before, copies, own, mainline>>
  PROVE  /\ PersonsOwn => PersonsOwn'
         /\ \A j : AllSaved(j)' = AllSaved(j)
         /\ \A j, f : Saved(j, f)' = Saved(j, f)
         /\ \A j, r : Made(j, r)' = Made(j, r)
         /\ tree' = tree => \A j, f : Aside(j, f)' = Aside(j, f)
<1>1. \A j, f : Saved(j, f)' = Saved(j, f)
  BY DEF Saved
<1>2. \A j : AllSaved(j)' = AllSaved(j)
  BY <1>1 DEF AllSaved
<1>3. tree' = tree => \A j, f : Aside(j, f)' = Aside(j, f)
  BY <1>1 DEF Aside
<1> QED
  BY <1>1, <1>2, <1>3 DEF PersonsOwn, Made

LEMMA HeldStays ==
  ASSUME UNCHANGED <<before, copies, own, mainline>>, NEW j, NEW r, HeldRight(j, r),
         \A f \in Files : f \notin Mine(r) => tree'[f] = tree[f]
  PROVE  HeldRight(j, r)'
<1>1. \A f \in Files : f \in Mine(r) => Saved(j, f)'
  BY SavedStays DEF HeldRight
<1>2. \A f \in Files : f \notin Mine(r) => Aside(j, f)'
  BY SavedStays DEF HeldRight, Aside
<1>3. Made(j, r)'
  BY SavedStays DEF HeldRight
<1> QED
  BY <1>1, <1>2, <1>3 DEF HeldRight

SameRun(p) ==
  /\ proc'[p].job = proc[p].job /\ proc'[p].cmd = proc[p].cmd /\ proc'[p].prior = proc[p].prior
  /\ proc'[p].kept = proc[p].kept /\ proc'[p].start = proc[p].start

LEMMA WayBackStays ==
  ASSUME UNCHANGED <<before, copies, own, mainline>>, NEW p \in Procs, SameRun(p), WayBack(p)
  PROVE  WayBack(p)'
<1>1. AllSaved(proc[p].job)'
  BY DEF WayBack, AllSaved, Saved, SameRun
<1>2. Made(proc[p].job, proc[p].prior) => Made(proc[p].job, proc[p].prior)'
  BY DEF Made, SameRun
<1>3. Again(proc[p].prior)' = Again(proc[p].prior) /\ Mine(proc[p].prior)' = Mine(proc[p].prior)
  BY DEF Again, Mine, SameRun
<1> QED
  BY <1>1, <1>2, <1>3 DEF WayBack, SameRun

\* The command that moved is in the tree.
LEMMA LandsIn ==
  ASSUME OneAtATime, NEW p \in Procs, PersonsOwn', lock' = p, proc'[p].pc \notin {"idle", "entering"},
         \A j \in Jobs : Again(review'[j]) => review'[j].needs, Phase(p)'
  PROVE  Recoverable'
<1>1. \A q \in Procs : q = p
  BY DEF OneAtATime
<1>2. lock' # NoProc
  BY ReviewCycleAssumption
<1>3. \A j \in Jobs : Again(review[j])' => review'[j].needs
  BY DEF Again
<1> QED
  BY <1>1, <1>2, <1>3 DEF Recoverable

\* Nobody is in the tree.
LEMMA LandsOut ==
  ASSUME PersonsOwn', lock' = NoProc,
         \A j \in Jobs : (Again(review'[j]) => review'[j].needs) /\ OnReview(j)',
         \A p \in Procs : proc'[p].pc = "idle" \/ (proc'[p].pc = "entering" /\ Entered(p)')
  PROVE  Recoverable'
<1>1. \A j \in Jobs : Again(review[j])' => review'[j].needs
  BY DEF Again
<1>2. lock' \notin Procs
  BY ReviewCycleAssumption
<1>3. \A p \in Procs : (proc'[p].pc = "entering" => Entered(p)') /\ Phase(p)'
  BY DEF Phase
<1> QED
  BY <1>1, <1>2, <1>3 DEF Recoverable

-----------------------------------------------------------------------------
(* The steps of a run *)

Upheld == TypeOK /\ Recorded /\ Recoverable

LEMMA InTheTree ==
  ASSUME Upheld, NEW p \in Procs, proc[p].pc \notin {"idle", "entering"}
  PROVE  /\ lock = p /\ Phase(p) /\ PersonsOwn
         /\ proc[p] \in ProcType /\ proc \in [Procs -> ProcType]
         /\ proc[p].job \in Jobs /\ proc[p].rev \in ReviewType /\ proc[p].prior \in ReviewType
         /\ review \in [Jobs -> ReviewType]
<1>1. TypeOK /\ LockHeld /\ Recoverable
  BY DEF Upheld, Recorded
<1>2. proc[p] \in ProcType /\ proc \in [Procs -> ProcType] /\ review \in [Jobs -> ReviewType]
  BY <1>1 DEF TypeOK
<1> QED
  BY <1>1, <1>2 DEF LockHeld, Recoverable, ProcType

\* A review that is written does not ask for another discard in silence.
LEMMA Written ==
  ASSUME Upheld, NEW j \in Jobs, NEW r, Again(r) => r.needs,
         review' = review \/ review' = [review EXCEPT ![j] = r]
  PROVE  \A i \in Jobs : Again(review'[i]) => review'[i].needs
<1>1. review \in [Jobs -> ReviewType] /\ \A i \in Jobs : Again(review[i]) => review[i].needs
  BY DEF Upheld, TypeOK, Recoverable
<1>2. \A i \in Jobs : review'[i] = review[i] \/ review'[i] = r
  BY <1>1
<1> QED
  BY <1>1, <1>2

\* A call is judged where HEAD is as it was, and the person's.
LEMMA CallOver ==
  ASSUME Upheld, NEW p \in Procs, Finished(p)
  PROVE  /\ WayBack(p) /\ Ready /\ Unharmed(proc[p].rev) /\ proc[p].pc = "calling"
         /\ Measured(p) = [proc[p].rev EXCEPT !.base = head] /\ Unharmed(Measured(p))
         /\ ~Again(Measured(p))
<1>1. proc[p].pc = "calling" /\ head = proc[p].callHead
  BY DEF Finished, HeadForbidden
<1>2. Calling(p) /\ proc[p].rev \in ReviewType
  BY <1>1, InTheTree DEF Phase
<1>3. Unharmed(Measured(p))
  BY <1>2 DEF Calling, Unharmed, Measured, ReviewType
<1> QED
  BY <1>1, <1>2, <1>3 DEF Calling, Ready, Measured, Unharmed, Again

LEMMA AnnounceRecovers ==
  ASSUME OneAtATime, Upheld, NEW p \in Procs, Announce(p)
  PROVE  Recoverable'
<1>1. proc[p].pc = "announcing" /\ UNCHANGED <<tree, head, before, copies, lock, bridge, own, mainline>>
  BY DEF Announce
<1>2. Announcing(p) /\ lock = p /\ PersonsOwn /\ proc[p].job \in Jobs
  BY <1>1, InTheTree DEF Phase
<1>3. /\ SameRun(p) /\ proc'[p].pc = "calling" /\ proc'[p].rev = proc[p].rev
      /\ proc'[p].callHead = head
  BY <1>1, InTheTree DEF Announce, ProcType, SameRun
<1>4. WayBack(p)' /\ PersonsOwn'
  BY <1>1, <1>2, <1>3, WayBackStays, SavedStays DEF Announcing
<1>5. Calling(p)'
  BY <1>1, <1>2, <1>3, <1>4 DEF Announcing, Calling, Ready, Unharmed
<1>6. Phase(p)'
  BY <1>3, <1>5 DEF Phase
<1>7. \A j \in Jobs : Again(review'[j]) => review'[j].needs
  BY <1>2, Written DEF Announce, Announcing, Unharmed, Again
<1> QED
  BY <1>1, <1>2, <1>3, <1>4, <1>6, <1>7, LandsIn

LEMMA HeadMovedRecovers ==
  ASSUME OneAtATime, Upheld, NEW p \in Procs, HeadMoved(p)
  PROVE  Recoverable'
<1>1. /\ proc[p].pc = "calling" /\ HeadForbidden(p)
      /\ UNCHANGED <<tree, head, review, before, copies, lock, bridge, own, mainline>>
  BY DEF HeadMoved
<1>2. Calling(p) /\ lock = p /\ PersonsOwn /\ proc[p].job \in Jobs
  BY <1>1, InTheTree DEF Phase
<1>3. /\ SameRun(p) /\ proc'[p].pc = "rejecting" /\ proc'[p].rev.needs = TRUE
  BY <1>1, InTheTree DEF HeadMoved, ProcType, ReviewType, SameRun
<1>4. WayBack(p)' /\ PersonsOwn'
  BY <1>1, <1>2, <1>3, WayBackStays, SavedStays DEF Calling
<1>5. proc[p].cmd # "followup"
  BY <1>1, <1>2 DEF Calling, HeadForbidden
<1>6. Rejecting(p)'
  BY <1>3, <1>4, <1>5 DEF Rejecting, SameRun
<1>7. Phase(p)'
  BY <1>3, <1>6 DEF Phase
<1>8. \A j \in Jobs : Again(review'[j]) => review'[j].needs
  BY <1>1 DEF Upheld, Recoverable
<1> QED
  BY <1>1, <1>2, <1>3, <1>4, <1>7, <1>8, LandsIn

\* Of a call that is over: the run goes on, and the review follows HEAD.
LEMMA GoesOn ==
  ASSUME OneAtATime, Upheld, NEW p \in Procs, Finished(p), Rebased(p) \/ review' = review,
         UNCHANGED <<head, before, copies, lock, own, mainline>>,
         SameRun(p), proc'[p].pc \notin {"idle", "entering"},
         PersonsOwn' /\ WayBack(p)' => Phase(p)'
  PROVE  Recoverable'
<1>1. WayBack(p) /\ ~Again(Measured(p)) /\ proc[p].pc = "calling"
  BY CallOver
<1>2. lock = p /\ PersonsOwn /\ proc[p].job \in Jobs
  BY <1>1, InTheTree
<1>3. WayBack(p)' /\ PersonsOwn'
  BY <1>1, <1>2, WayBackStays, SavedStays
<1>4. \A j \in Jobs : Again(review'[j]) => review'[j].needs
  <2>1. review' = review \/ review' = [review EXCEPT ![proc[p].job] = Measured(p)]
    BY DEF Rebased
  <2> QED
    BY <1>1, <1>2, <2>1, Written
<1> QED
  BY <1>2, <1>3, <1>4, LandsIn

LEMMA RuleBrokenRecovers ==
  ASSUME OneAtATime, Upheld, NEW p \in Procs, RuleBroken(p)
  PROVE  Recoverable'
<1>1. /\ Finished(p) /\ Rebased(p)
      /\ UNCHANGED <<tree, head, before, copies, lock, bridge, own, mainline>>
      /\ proc' = [proc EXCEPT ![p].pc = "undoing", ![p].rev = Measured(p)]
  BY DEF RuleBroken
<1>2. Ready /\ Unharmed(Measured(p)) /\ proc[p].pc = "calling"
  BY <1>1, CallOver
<1>3. SameRun(p) /\ proc'[p].pc = "undoing" /\ proc'[p].rev = Measured(p)
  BY <1>1, <1>2, InTheTree DEF ProcType, SameRun
<1>4. WayBack(p)' => Phase(p)'
  BY <1>1, <1>2, <1>3 DEF Phase, Undoing, Ready, Unharmed
<1> QED
  BY <1>1, <1>3, <1>4, GoesOn

LEMMA CallFailsRecovers ==
  ASSUME OneAtATime, Upheld, NEW p \in Procs, CallFails(p)
  PROVE  Recoverable'
<1>1. /\ Finished(p) /\ review' = review
      /\ UNCHANGED <<tree, head, before, copies, lock, bridge, own, mainline>>
      /\ proc' = [proc EXCEPT ![p].pc = "undoing"]
  BY DEF CallFails
<1>2. Ready /\ Unharmed(proc[p].rev) /\ proc[p].pc = "calling"
  BY <1>1, CallOver
<1>3. SameRun(p) /\ proc'[p].pc = "undoing" /\ proc'[p].rev = proc[p].rev
  BY <1>1, <1>2, InTheTree DEF ProcType, SameRun
<1>4. WayBack(p)' => Phase(p)'
  BY <1>1, <1>2, <1>3 DEF Phase, Undoing, Ready, Unharmed
<1> QED
  BY <1>1, <1>3, <1>4, GoesOn

LEMMA NextCall ==
  ASSUME OneAtATime, Upheld, NEW p \in Procs, NEW r, NextAttempt(p, r), Ready,
         proc[p].pc \notin {"idle", "entering"}
  PROVE  SameRun(p) /\ proc'[p].pc = "calling" /\ proc'[p].rev = r /\ proc'[p].callHead = mainline
  BY InTheTree DEF NextAttempt, ProcType, SameRun, Ready

LEMMA AskAgainRecovers ==
  ASSUME OneAtATime, Upheld, NEW p \in Procs, AskAgain(p)
  PROVE  Recoverable'
<1>1. /\ Finished(p) /\ Rebased(p) /\ NextAttempt(p, Measured(p))
      /\ UNCHANGED <<tree, head, before, copies, lock, bridge, own, mainline>>
  BY DEF AskAgain
<1>2. Ready /\ Unharmed(Measured(p)) /\ proc[p].pc = "calling"
  BY <1>1, CallOver
<1>3. SameRun(p) /\ proc'[p].pc = "calling" /\ proc'[p].rev = Measured(p) /\ proc'[p].callHead = mainline
  BY <1>1, <1>2, NextCall
<1>4. WayBack(p)' => Phase(p)'
  BY <1>1, <1>2, <1>3 DEF Phase, Calling, Ready, Unharmed
<1> QED
  BY <1>1, <1>3, <1>4, GoesOn

\* Nothing the run changed: the tree is as the run found it.
LEMMA NoChangeRecovers ==
  ASSUME OneAtATime, Upheld, NEW p \in Procs, NoChange(p)
  PROVE  Recoverable'
<1> DEFINE j == proc[p].job
           b == before[j]
<1>1. /\ Finished(p) /\ Rebased(p) /\ ~BrokeARule(p) /\ ChangedNoFile(p)
      /\ UNCHANGED <<tree, head, before, copies, lock, bridge, own, mainline>>
      /\ proc' = [proc EXCEPT ![p].pc = "rejecting", ![p].rev = Measured(p), ![p].undone = FALSE]
  BY DEF NoChange
<1>2. Ready /\ WayBack(p) /\ Unharmed(Measured(p)) /\ proc[p].pc = "calling"
  BY <1>1, CallOver
<1>3. /\ SameRun(p) /\ proc'[p].pc = "rejecting" /\ proc'[p].rev = Measured(p)
      /\ proc'[p].undone = FALSE
  BY <1>1, <1>2, InTheTree DEF ProcType, SameRun
<1>4. \A f \in Files : f \notin Touched(b) => tree[f] = own[f]
  BY <1>2, InTheTree, PutBackRight DEF Upheld, WayBack, Ready
<1>5. Touched(b) = Changed(b)
  BY <1>1 DEF BrokeARule, Outside, Changed, Deleted
<1>6. ASSUME proc[p].cmd = "generate" PROVE tree = own
  <2>1. \A f \in Files : proc[p].kept[f] = Clean
    BY <1>2, <1>6 DEF WayBack, Nothing
  <2>2. Changed(b) = {}
    BY <1>1, <2>1 DEF ChangedNoFile, SameAsBefore
  <2>3. \A f \in Files : tree[f] = own[f]
    BY <1>4, <1>5, <2>2
  <2>4. tree \in [Files -> Contents] /\ own \in [Files -> Contents]
    BY DEF Upheld, TypeOK
  <2> QED
    BY <2>3, <2>4
<1>7. ASSUME proc[p].cmd = "followup", NEW f \in Files, f \notin Mine(proc[p].prior) PROVE tree[f] = own[f]
  <2>1. proc[p].kept[f] = Clean
    BY <1>2, <1>7 DEF WayBack
  <2>2. f \notin Changed(b)
    BY <1>1, <2>1 DEF ChangedNoFile, SameAsBefore
  <2> QED
    BY <1>4, <1>5, <2>2
<1>8. WayBack(p)' => Rejecting(p)'
  <2>1. Measured(p).alive = FALSE
    BY <1>2 DEF Unharmed, ReviewType, Measured
  <2>2. Ready'
    BY <1>1, <1>2 DEF Ready
  <2>3. proc[p].cmd = "generate" => tree' = own'
    BY <1>1, <1>6
  <2>4. proc[p].cmd = "followup" => \A f \in Files \ Mine(proc[p].prior) : tree'[f] = own'[f]
    BY <1>1, <1>7
  <2> QED
    BY <1>3, <2>1, <2>2, <2>3, <2>4 DEF Rejecting, SameRun, Mine
<1>9. WayBack(p)' => Phase(p)'
  BY <1>3, <1>8 DEF Phase
<1> QED
  BY <1>1, <1>3, <1>9, GoesOn

\* What was created was not there, and is not the person's.
LEMMA ToVerifyRecovers ==
  ASSUME OneAtATime, Upheld, NEW p \in Procs, ToVerify(p)
  PROVE  Recoverable'
<1> DEFINE j == proc[p].job
           b == before[j]
           r == [Measured(p) EXCEPT !.created = Created(b), !.modified = Modified(b)]
<1>1. /\ Finished(p) /\ Rebased(p) /\ ~BrokeARule(p)
      /\ UNCHANGED <<tree, head, before, copies, lock, bridge, own, mainline>>
      /\ proc' = [proc EXCEPT ![p].pc = "verifying", ![p].rev = r]
  BY DEF ToVerify
<1>2. /\ Ready /\ WayBack(p) /\ Unharmed(Measured(p)) /\ proc[p].pc = "calling"
      /\ Measured(p) = [proc[p].rev EXCEPT !.base = head]
  BY <1>1, CallOver
<1>3. proc[p].rev \in ReviewType /\ j \in Jobs
  BY <1>2, InTheTree
<1>4. r.created = Created(b) /\ r.modified = Modified(b) /\ r.needs = FALSE /\ r.alive = FALSE
  BY <1>2, <1>3 DEF ReviewType, Unharmed
<1> HIDE DEF r
<1>5. SameRun(p) /\ proc'[p].pc = "verifying" /\ proc'[p].rev = r
  BY <1>1, <1>2, InTheTree DEF ProcType, SameRun
<1>6. Touched(b) = Mine(r)
  BY <1>1, <1>4 DEF BrokeARule, Outside, Changed, Deleted, Modified, Created, Mine
<1>7. Made(j, r)
  <2>1. ASSUME NEW f \in r.created PROVE own[f] = Absent /\ mainline[f] = Absent
    <3>1. f \in Files /\ b[f] = Clean /\ mainline[f] = Absent
      BY <1>2, <1>4, <2>1 DEF Created, Changed, Touched, Ready
    <3>2. Saved(j, f) /\ own[f] # Clean
      BY <1>2, <3>1, Constants DEF WayBack, AllSaved, Upheld, TypeOK
    <3> QED
      BY <3>1, <3>2 DEF Saved
  <2>2. ASSUME NEW f \in r.modified PROVE b[f] # Clean \/ mainline[f] # Absent
    BY <1>2, <1>4, <2>2 DEF Modified, Created, Ready
  <2> QED
    BY <2>1, <2>2 DEF Made
<1>8. WayBack(p)' => Verifying(p)'
  <2>1. PICK i, c : i = j /\ c = r
    OBVIOUS
  <2>2. proc'[p].job = i /\ proc'[p].rev = c
    BY <1>5, <2>1 DEF SameRun
  <2>3. Touched(before[proc[p].job])' = Touched(before[i])
    BY <1>1, <2>2 DEF Touched, Dirty
  <2>4. Mine(proc[p].rev)' = Mine(c) /\ (Made(i, c) => Made(proc[p].job, proc[p].rev)')
    BY <1>1, <2>2 DEF Made, Mine
  <2>5. Ready' /\ Unharmed(proc[p].rev)'
    BY <1>1, <1>2, <1>4, <2>1, <2>2 DEF Ready, Unharmed
  <2> QED
    BY <1>6, <1>7, <2>1, <2>3, <2>4, <2>5 DEF Verifying
<1>9. WayBack(p)' => Phase(p)'
  BY <1>5, <1>8 DEF Phase
<1> QED
  BY <1>1, <1>5, <1>9, GoesOn

LEMMA RepairRecovers ==
  ASSUME OneAtATime, Upheld, NEW p \in Procs, Repair(p)
  PROVE  Recoverable'
<1>1. /\ proc[p].pc = "verifying" /\ NextAttempt(p, Hashed(p))
      /\ UNCHANGED <<tree, head, review, before, copies, lock, bridge, own, mainline>>
  BY DEF Repair
<1>2. Verifying(p) /\ lock = p /\ PersonsOwn /\ proc[p].rev \in ReviewType
  BY <1>1, InTheTree DEF Phase
<1>3. SameRun(p) /\ proc'[p].pc = "calling" /\ proc'[p].rev = Hashed(p) /\ proc'[p].callHead = mainline
  BY <1>1, <1>2, NextCall DEF Verifying
<1>4. Unharmed(Hashed(p))
  BY <1>2 DEF Verifying, Unharmed, Hashed, ReviewType
<1>5. WayBack(p)' /\ PersonsOwn'
  BY <1>1, <1>2, <1>3, WayBackStays, SavedStays DEF Verifying
<1>6. Calling(p)'
  BY <1>1, <1>2, <1>3, <1>4, <1>5 DEF Calling, Verifying, Ready, Unharmed
<1>7. Phase(p)'
  BY <1>3, <1>6 DEF Phase
<1>8. \A j \in Jobs : Again(review'[j]) => review'[j].needs
  BY <1>1 DEF Upheld, Recoverable
<1> QED
  BY <1>1, <1>2, <1>3, <1>5, <1>7, <1>8, LandsIn

\* A change that waits.
LEMMA HeldRecovers ==
  ASSUME OneAtATime, Upheld, NEW p \in Procs, NEW s \in Waiting, Held(p, s)
  PROVE  Recoverable'
<1> DEFINE j == proc[p].job
           r == [Hashed(p) EXCEPT !.state = s]
<1>1. /\ proc[p].pc = "verifying" /\ review' = [review EXCEPT ![j] = r]
      /\ lock' = NoProc /\ proc' = [proc EXCEPT ![p] = IdleProc]
      /\ UNCHANGED <<tree, head, before, copies, bridge, own, mainline>>
  BY DEF Held, Ends
<1>2. /\ Verifying(p) /\ lock = p /\ PersonsOwn /\ proc[p].rev \in ReviewType /\ j \in Jobs
      /\ review \in [Jobs -> ReviewType] /\ proc \in [Procs -> ProcType]
  BY <1>1, InTheTree DEF Phase
<1>3. /\ r.state = s /\ r.created = proc[p].rev.created /\ r.modified = proc[p].rev.modified
      /\ r.needs = FALSE /\ r.alive = FALSE
  BY <1>2 DEF Verifying, Unharmed, Hashed, ReviewType
<1> HIDE DEF r
<1>4. HeldRight(j, r)
  <2>1. Made(j, r) /\ Mine(r) = Touched(before[j])
    BY <1>2, <1>3 DEF Made, Verifying, Mine
  <2>2. AllSaved(j) /\ head = mainline
    BY <1>2 DEF Verifying, WayBack, Ready
  <2>3. \A f \in Files : Saved(j, f) /\ (f \notin Mine(r) => tree[f] = own[f])
    BY <1>2, <2>1, <2>2, PutBackRight DEF Upheld, AllSaved
  <2> QED
    BY <1>3, <2>1, <2>3 DEF HeldRight, Again, Aside
<1>5. PICK o, c : o = j /\ c = r
  OBVIOUS
<1>6. HeldRight(o, c)' /\ PersonsOwn' /\ \A i \in Jobs : i = o /\ review'[i] = c
  BY <1>1, <1>2, <1>4, <1>5, HeldStays, SavedStays DEF OneAtATime
<1>7. ASSUME NEW i \in Jobs PROVE (Again(review'[i]) => review'[i].needs) /\ OnReview(i)'
  <2>1. i = o /\ review'[i] = c /\ c = r
    BY <1>5, <1>6
  <2>2. ~Settled(i)' /\ Ready'
    BY <1>1, <1>2, <1>3, <2>1 DEF Settled, Verifying, Ready, Waiting
  <2>3. HeldRight(i, c)'
    BY <1>6, <2>1
  <2>4. HeldRight(i, review[i])'
    BY <2>1, <2>3 DEF HeldRight, Made, Mine, Again, Saved, Aside
  <2> QED
    BY <1>3, <2>1, <2>2, <2>4 DEF OnReview, Again
<1>8. \A q \in Procs : proc'[q].pc = "idle"
  BY <1>1, <1>2, IdleTyped DEF OneAtATime
<1> QED
  BY <1>1, <1>6, <1>7, <1>8, LandsOut

LEMMA TimesOutRecovers ==
  ASSUME OneAtATime, AsThePageSays, Upheld, NEW p \in Procs, TimesOut(p)
  PROVE  Recoverable'
<1>1. PICK cancelled :
        /\ Finished(p) /\ proc[p].cmd \in TimeoutsIn
        /\ UNCHANGED <<head, review, before, copies, lock, own, mainline>>
        /\ proc' = [proc EXCEPT ![p].pc = "settling", ![p].settled = Undone(p), ![p].cancelled = cancelled]
  BY DEF TimesOut
<1>2. Ready /\ proc[p].pc = "calling"
  BY <1>1, CallOver
<1>3. SameRun(p) /\ proc'[p].pc = "settling"
  BY <1>1, <1>2, InTheTree DEF ProcType, SameRun
<1>4. proc[p].cmd = "generate"
  BY <1>1 DEF AsThePageSays
<1>5. WayBack(p)' => Phase(p)'
  BY <1>1, <1>2, <1>3, <1>4 DEF Phase, Settling, SameRun, Ready
<1> QED
  BY <1>1, <1>3, <1>5, GoesOn

\* The tree is put back once more.
LEMMA SettleRecovers ==
  ASSUME OneAtATime, Upheld, NEW p \in Procs, Settle(p)
  PROVE  Recoverable'
<1> DEFINE alive == StillAlive(p)
<1>1. /\ proc[p].pc = "settling" /\ (proc[p].cancelled => proc[p].job \notin bridge)
      /\ tree' = Undone(p)
      /\ UNCHANGED <<head, review, before, copies, lock, bridge, own, mainline>>
      /\ proc' = [proc EXCEPT ![p].pc = "rejecting", ![p].undone = TRUE,
                              ![p].rev.needs = alive, ![p].rev.alive = alive]
  BY DEF Settle
<1>2. /\ Settling(p) /\ lock = p /\ PersonsOwn /\ proc[p].job \in Jobs /\ proc[p] \in ProcType
      /\ proc[p].rev \in ReviewType /\ proc \in [Procs -> ProcType]
  BY <1>1, InTheTree DEF Phase
<1>3. alive \/ proc[p].cancelled
  BY DEF StillAlive
<1> HIDE DEF alive
<1>4. /\ SameRun(p) /\ proc'[p].pc = "rejecting"
      /\ proc'[p].rev.needs = alive /\ proc'[p].rev.alive = alive
  <2>1. proc'[p] = [proc[p] EXCEPT !.pc = "rejecting", !.undone = TRUE,
                              !.rev.needs = alive, !.rev.alive = alive]
    BY <1>1, <1>2
  <2>2. SameRun(p) /\ proc'[p].pc = "rejecting"
    BY <1>2, <2>1 DEF ProcType, SameRun
  <2>3. proc'[p].rev = [proc[p].rev EXCEPT !.needs = alive, !.alive = alive]
    BY <1>2, <2>1 DEF ProcType
  <2> QED
    BY <1>2, <2>2, <2>3 DEF ReviewType
<1>5. Undone(p) = own
  BY <1>2, UndoneRight DEF Settling, Upheld
<1>6. ~alive => bridge = {}
  <2>1. ~alive => proc[p].job \notin bridge
    BY <1>1, <1>3
  <2>2. \A j \in bridge : j = proc[p].job
    BY <1>2 DEF OneAtATime, Upheld, TypeOK
  <2> QED
    BY <2>1, <2>2
<1>7. WayBack(p)' /\ PersonsOwn'
  BY <1>1, <1>2, <1>4, WayBackStays, SavedStays DEF Settling
<1>8. Rejecting(p)'
  BY <1>1, <1>2, <1>4, <1>5, <1>6, <1>7 DEF Rejecting, Settling, SameRun, Ready
<1>9. Phase(p)'
  BY <1>4, <1>8 DEF Phase
<1>10. \A j \in Jobs : Again(review'[j]) => review'[j].needs
  BY <1>1 DEF Upheld, Recoverable
<1> QED
  BY <1>1, <1>2, <1>4, <1>7, <1>9, <1>10, LandsIn

LEMMA UndoRecovers ==
  ASSUME OneAtATime, Upheld, NEW p \in Procs, Undo(p)
  PROVE  Recoverable'
<1>1. /\ proc[p].pc = "undoing" /\ tree' = Undone(p)
      /\ UNCHANGED <<head, review, before, copies, lock, bridge, own, mainline>>
      /\ proc' = [proc EXCEPT ![p].pc = "rejecting", ![p].undone = TRUE]
  BY DEF Undo
<1>2. /\ Undoing(p) /\ lock = p /\ PersonsOwn
  BY <1>1, InTheTree DEF Phase
<1>3. SameRun(p) /\ proc'[p].pc = "rejecting" /\ proc'[p].rev = proc[p].rev
  BY <1>1, InTheTree DEF ProcType, SameRun
<1>4. /\ proc[p].cmd = "generate" => Undone(p) = own
      /\ proc[p].cmd = "followup" =>
              \A f \in Files : Undone(p)[f] = IF proc[p].kept[f] # Clean THEN proc[p].kept[f] ELSE own[f]
  BY <1>2, UndoneRight DEF Undoing, Upheld, Ready
<1>5. WayBack(p)' /\ PersonsOwn'
  BY <1>1, <1>2, <1>3, WayBackStays, SavedStays DEF Undoing
<1>6. Ready' /\ Unharmed(proc'[p].rev)
  BY <1>1, <1>2, <1>3 DEF Undoing, Ready
<1>7. ASSUME proc[p].cmd = "followup"
      PROVE  /\ \A f \in Files \ Mine(proc[p].prior) : tree'[f] = own'[f]
             /\ \A f \in Files : tree'[f] = IF proc[p].kept[f] # Clean THEN proc[p].kept[f] ELSE own'[f]
  <2>1. \A f \in Files \ Mine(proc[p].prior) : proc[p].kept[f] = Clean
    BY <1>2, <1>7 DEF Undoing, WayBack
  <2> QED
    BY <1>1, <1>4, <1>7, <2>1
<1>8. Rejecting(p)'
  BY <1>1, <1>3, <1>4, <1>5, <1>6, <1>7 DEF Rejecting, SameRun, Unharmed, Mine
<1>9. Phase(p)'
  BY <1>3, <1>8 DEF Phase
<1>10. \A j \in Jobs : Again(review'[j]) => review'[j].needs
  BY <1>1 DEF Upheld, Recoverable
<1> QED
  BY <1>1, <1>2, <1>3, <1>5, <1>9, <1>10, LandsIn

\* What a step that ends a command has to leave.
LEMMA Ended ==
  ASSUME OneAtATime, Upheld, NEW p \in Procs, PersonsOwn', lock' = NoProc,
         proc' = [proc EXCEPT ![p] = IdleProc], NEW j \in Jobs,
         Again(review'[j]) => review'[j].needs, OnReview(j)'
  PROVE  Recoverable'
<1>1. proc \in [Procs -> ProcType]
  BY DEF Upheld, TypeOK
<1>2. \A q \in Procs : proc'[q].pc = "idle"
  BY <1>1, IdleTyped DEF OneAtATime
<1>3. \A i \in Jobs : i = j
  BY DEF OneAtATime
<1> QED
  BY <1>2, <1>3, LandsOut

LEMMA RejectRecovers ==
  ASSUME OneAtATime, Upheld, NEW p \in Procs, Reject(p)
  PROVE  Recoverable'
<1>1. /\ proc[p].pc = "rejecting" /\ review' = [review EXCEPT ![proc[p].job] = Rejected(p)]
      /\ lock' = NoProc /\ proc' = [proc EXCEPT ![p] = IdleProc]
      /\ UNCHANGED <<tree, head, before, copies, bridge, own, mainline>>
  BY DEF Reject, Ends
<1>2. /\ Rejecting(p) /\ PersonsOwn /\ proc[p].rev \in ReviewType /\ proc[p].job \in Jobs
      /\ review \in [Jobs -> ReviewType] /\ WayBack(p)
  BY <1>1, InTheTree DEF Phase, Rejecting
<1>3. PICK j, r : j = proc[p].job /\ r = Rejected(p)
  OBVIOUS
<1>4. j \in Jobs /\ review'[j] = r /\ PersonsOwn' /\ AllSaved(j)
  BY <1>1, <1>2, <1>3, SavedStays DEF WayBack
<1>5. CASE proc[p].cmd = "followup"
  <2>1. /\ r = proc[p].prior /\ r.state \in Waiting /\ ~r.needs /\ ~Again(r) /\ Made(j, r)
        /\ Ready /\ \A f \in Files \ Mine(r) : tree[f] = own[f]
    BY <1>2, <1>3, <1>5 DEF Rejected, WayBack, Rejecting
  <2>2. HeldRight(j, r)
    BY <1>4, <2>1 DEF HeldRight, AllSaved, Aside
  <2>3. HeldRight(j, r)'
    BY <1>1, <2>2, HeldStays
  <2>4. HeldRight(j, review[j])'
    BY <1>4, <2>3 DEF HeldRight, Made, Mine, Again, Saved, Aside
  <2>5. Ready' /\ ~Settled(j)'
    BY <1>1, <1>4, <2>1 DEF Ready, Settled, Waiting
  <2>6. OnReview(j)'
    BY <1>4, <2>1, <2>4, <2>5 DEF OnReview
  <2> QED
    BY <1>1, <1>4, <2>1, <2>6, Ended
<1>6. CASE proc[p].cmd = "generate"
  <2>1. r.state = "rejected" /\ r.needs = proc[p].rev.needs /\ r.alive = proc[p].rev.alive
    BY <1>2, <1>3, <1>6 DEF Rejected, ReviewType
  <2>2. (r.alive => r.needs) /\ (r.needs \/ (tree = own /\ Ready))
    BY <1>2, <1>6, <2>1 DEF Rejecting
  <2>3. AllSaved(j)' /\ (tree = own /\ Ready => tree' = own' /\ Ready')
    BY <1>1, <1>4, SavedStays DEF Ready
  <2>4. OnReview(j)'
    BY <1>4, <2>1, <2>2, <2>3 DEF OnReview, Settled, Waiting
  <2> QED
    BY <1>1, <1>4, <2>2, <2>4, Ended DEF Again
<1> QED
  BY <1>2, <1>5, <1>6 DEF WayBack

\* The saved state of a first run has the person's tree.
LEMMA BaselineOfFirst ==
  ASSUME Upheld, NEW p \in Procs, TakeBaseline(p), proc[p].cmd = "generate", tree = own, Ready
  PROVE  /\ AllSaved(proc[p].job)'
         /\ proc'[p].kept = Nothing
<1>1. /\ before' = [before EXCEPT ![proc[p].job] = Dirty]
      /\ copies' = [copies EXCEPT ![proc[p].job] = Copied(Dirty)]
      /\ UNCHANGED <<tree, head, own, mainline>>
  BY DEF TakeBaseline, Baseline
<1>2. proc \in [Procs -> ProcType] /\ proc[p] \in ProcType /\ proc[p].job \in Jobs /\ TypeOK
  BY DEF Upheld, TypeOK, ProcType
<1>3. PICK j : j = proc[p].job
  OBVIOUS
<1>4. proc'[p].kept = Nothing /\ proc'[p].job = j
  <2> DEFINE kept == [f \in Files |-> IF FALSE /\ f \in proc[p].prior.created \cup proc[p].prior.modified /\ tree[f] # Absent
                                             THEN tree[f] ELSE Clean]
  <2>1. kept = Nothing
    BY DEF Nothing
  <2>2. proc'[p].kept = kept /\ proc'[p].job = proc[p].job
    BY <1>2 DEF TakeBaseline, ProcType
  <2> QED
    BY <1>3, <2>1, <2>2
<1>5. before'[j] = Dirty /\ copies'[j] = Copied(Dirty)
  BY <1>1, <1>2, <1>3 DEF TypeOK
<1>6. ASSUME NEW f \in Files PROVE Saved(j, f)'
  <2>1. tree[f] = own[f] /\ head[f] = mainline[f] /\ (own[f] = Absent => mainline[f] = Absent) /\ own[f] # Clean
    BY Constants DEF Upheld, TypeOK, Recoverable, PersonsOwn, Ready
  <2>2. /\ before'[j][f] = IF tree[f] = head[f] THEN Clean ELSE tree[f]
        /\ copies'[j][f] = IF Dirty[f] = Clean \/ tree[f] = Absent THEN Clean ELSE tree[f]
        /\ Dirty[f] = IF tree[f] = head[f] THEN Clean ELSE tree[f]
    BY <1>5 DEF Dirty, Copied
  <2> QED
    BY <1>1, <2>1, <2>2 DEF Saved
<1>7. AllSaved(j)'
  BY <1>6 DEF AllSaved
<1>8. AllSaved(proc[p].job)'
  BY <1>4, <1>7 DEF AllSaved, Saved
<1> QED
  BY <1>4, <1>8

\* A follow-up keeps what was saved, with what the person made since beside
\* the change.
LEMMA BaselineOfNext ==
  ASSUME AsThePageSays, Upheld, NEW p \in Procs, TakeBaseline(p), proc[p].cmd = "followup", Ready,
         NEW j, NEW r, j = proc[p].job, r = proc[p].prior, HeldRight(j, r)
  PROVE  /\ \A f \in Files : Saved(j, f)'
         /\ Made(j, r)'
         /\ \A f \in Files : /\ proc'[p].kept[f] = IF f \in Mine(r) /\ tree[f] # Absent THEN tree[f] ELSE Clean
                             /\ f \notin Mine(r) => tree[f] = own[f]
<1> DEFINE base == Baseline(p)
<1>1. /\ before' = [before EXCEPT ![j] = base]
      /\ copies' = [copies EXCEPT ![j] = [f \in Files |-> IF base[f] \notin {before[j][f], Absent}
                                                  THEN base[f] ELSE copies[j][f]]]
      /\ UNCHANGED <<tree, head, own, mainline>>
  BY DEF TakeBaseline
<1>2. proc \in [Procs -> ProcType] /\ proc[p] \in ProcType /\ j \in Jobs /\ TypeOK
  BY DEF Upheld, TypeOK, ProcType
<1>3. \A f \in Files : base[f] = IF f \in Roots \ Mine(r) /\ Dirty[f] # Clean THEN Dirty[f] ELSE before[j][f]
  BY DEF Baseline, Mine
<1> HIDE DEF base
<1>4. \A f \in Files : /\ before'[j][f] = base[f]
                       /\ copies'[j][f] = IF base[f] \notin {before[j][f], Absent} THEN base[f] ELSE copies[j][f]
  BY <1>1, <1>2 DEF TypeOK
<1>5. \A f \in Files : /\ tree[f] \in Contents /\ own[f] \in Contents /\ head[f] = mainline[f]
                       /\ Dirty[f] = IF tree[f] = head[f] THEN Clean ELSE tree[f]
                       /\ own[f] = Absent => mainline[f] = Absent
  BY DEF Upheld, TypeOK, Recoverable, PersonsOwn, Ready, Dirty
<1>6. ASSUME NEW f \in Files PROVE Saved(j, f)'
  <2>1. CASE f \in Mine(r)
    <3>1. base[f] = before[j][f] /\ Saved(j, f)
      BY <1>3, <2>1 DEF HeldRight
    <3> QED
      BY <1>1, <1>4, <3>1 DEF Saved
  <2>2. CASE f \notin Mine(r)
    <3>1. Aside(j, f) /\ tree[f] = own[f]
      BY <2>2 DEF HeldRight, Aside
    <3>2. CASE Dirty[f] = Clean
      <4>1. base[f] = before[j][f] /\ own[f] = mainline[f]
        BY <1>3, <1>5, <3>1, <3>2, Constants
      <4>2. Saved(j, f)
        BY <3>1, <4>1 DEF Aside
      <4> QED
        BY <1>1, <1>4, <4>1, <4>2 DEF Saved
    <3>3. CASE Dirty[f] # Clean
      <4>1. Dirty[f] = own[f] /\ own[f] # mainline[f] /\ own[f] # Absent
        BY <1>5, <3>1, <3>3
      <4>2. CASE Saved(j, f)
        <5>1. before[j][f] = own[f] /\ copies[j][f] = own[f]
          BY <4>1, <4>2 DEF Saved
        <5>2. base[f] = before[j][f]
          BY <1>3, <4>1, <5>1
        <5> QED
          BY <1>1, <1>4, <5>1, <5>2 DEF Saved
      <4>3. CASE ~Saved(j, f)
        <5>1. f \in BesideFiles /\ before[j][f] = copies[j][f]
          BY <3>1, <4>3 DEF Aside
        <5>2. base[f] = own[f]
          BY <1>3, <2>2, <3>3, <4>1, <5>1 DEF AsThePageSays
        <5> QED
          BY <1>1, <1>4, <4>1, <5>1, <5>2 DEF Saved
      <4> QED
        BY <4>2, <4>3
    <3> QED
      BY <3>2, <3>3
  <2> QED
    BY <2>1, <2>2
<1>7. ASSUME NEW f \in r.modified PROVE before'[j][f] # Clean \/ mainline'[f] # Absent
  <2>1. before[j][f] # Clean \/ mainline[f] # Absent
    BY <1>7 DEF HeldRight, Made
  <2>2. f \in Mine(r) /\ f \in Files
    BY <1>2, <1>7 DEF Mine, ProcType, ReviewType
  <2>3. before'[j][f] = before[j][f]
    BY <1>3, <1>4, <2>2
  <2> QED
    BY <1>1, <2>1, <2>3
<1>8. Made(j, r)'
  BY <1>1, <1>7 DEF Made, HeldRight
<1>9. proc'[p].kept = [f \in Files |-> IF TRUE /\ f \in proc[p].prior.created \cup proc[p].prior.modified /\ tree[f] # Absent
                                             THEN tree[f] ELSE Clean]
  BY <1>2 DEF TakeBaseline, ProcType
<1>10. \A f \in Files : f \notin Mine(r) => tree[f] = own[f]
  BY DEF HeldRight, Aside
<1> QED
  BY <1>6, <1>8, <1>9, <1>10 DEF Mine

\* Nobody is in the tree; one command waits at the lock.
LEMMA AtTheLock ==
  ASSUME Upheld, lock = NoProc, NEW p \in Procs
  PROVE  /\ PersonsOwn /\ proc[p] \in ProcType /\ proc \in [Procs -> ProcType]
         /\ review \in [Jobs -> ReviewType] /\ proc[p].job \in Jobs
         /\ proc[p].pc \in {"idle", "entering"}
         /\ proc[p].pc = "entering" => Entered(p)
         /\ \A j \in Jobs : OnReview(j) /\ (Again(review[j]) => review[j].needs)
<1>1. TypeOK /\ LockHeld /\ Recoverable
  BY DEF Upheld, Recorded
<1>2. proc[p] \in ProcType /\ proc \in [Procs -> ProcType] /\ review \in [Jobs -> ReviewType]
  BY <1>1 DEF TypeOK
<1>3. lock # p
  BY ReviewCycleAssumption
<1> QED
  BY <1>1, <1>2, <1>3 DEF LockHeld, Recoverable, ProcType

LEMMA TakeBaselineRecovers ==
  ASSUME OneAtATime, AsThePageSays, Upheld, NEW p \in Procs, TakeBaseline(p)
  PROVE  Recoverable'
<1>1. /\ proc[p].pc = "entering" /\ proc[p].cmd # "discard" /\ lock = NoProc /\ lock' = p
      /\ UNCHANGED <<tree, head, review, bridge, own, mainline>>
  BY DEF TakeBaseline, LockFree
<1>2. PICK j, r : j = proc[p].job /\ r = proc[p].prior
  OBVIOUS
<1>3. /\ Entered(p) /\ PersonsOwn /\ j \in Jobs /\ r = review[j] /\ OnReview(j)
      /\ Again(r) => r.needs
      /\ proc[p] \in ProcType /\ proc \in [Procs -> ProcType]
  BY <1>1, <1>2, AtTheLock DEF Entered
<1>4. PersonsOwn'
  BY <1>1, <1>3 DEF PersonsOwn
<1>5. PICK rev : /\ rev = [NoReview EXCEPT !.state = "generating",
                              !.base = IF proc[p].cmd = "followup" THEN proc[p].prior.base ELSE head]
                 /\ rev.needs = FALSE /\ rev.alive = FALSE
  <2> DEFINE base == IF proc[p].cmd = "followup" THEN proc[p].prior.base ELSE head
             rev == [NoReview EXCEPT !.state = "generating", !.base = base]
  <2>1. rev.needs = FALSE /\ rev.alive = FALSE
    <3> HIDE DEF base
    <3> QED
      BY DEF NoReview
  <2>2. rev = [NoReview EXCEPT !.state = "generating", !.base = base]
    OBVIOUS
  <2> HIDE DEF rev
  <2> QED
    BY <2>1, <2>2, Zenon
<1>6. /\ proc'[p].job = j /\ proc'[p].prior = r /\ proc'[p].cmd = proc[p].cmd
      /\ proc'[p].pc = "announcing" /\ proc'[p].start = tree /\ proc'[p].rev = rev
  BY <1>2, <1>3, <1>5 DEF TakeBaseline, ProcType
<1>7. review'[j] = r
  BY <1>1, <1>3
<1>8. proc[p].cmd \in {"generate", "followup"} /\ Ready
  <2>1. proc[p].cmd \in {"generate", "followup"}
    BY <1>1, <1>3 DEF ProcType, Entered
  <2>2. Settled(j) \/ review[j].state \in Waiting
    BY <1>2, <1>3, <2>1 DEF Entered
  <2> QED
    BY <1>3, <2>1, <2>2 DEF OnReview
<1>9. Announcing(p)'
  <2>1. Ready' /\ Unharmed(proc[p].rev)' /\ (proc[p].prior = review[proc[p].job])' /\ (tree = proc[p].start)'
    BY <1>1, <1>5, <1>6, <1>7, <1>8 DEF Ready, Unharmed
  <2>2. CASE proc[p].cmd = "generate"
    <3>1. tree = own /\ Settled(j)
      BY <1>2, <1>3, <2>2 DEF OnReview, Entered
    <3>2. AllSaved(proc[p].job)' /\ proc'[p].kept = Nothing
      BY <1>8, <2>2, <3>1, BaselineOfFirst
    <3>3. Settled(proc[p].job)' /\ tree' = own'
      BY <1>1, <1>6, <3>1 DEF Settled
    <3>4. WayBack(p)'
      BY <1>6, <2>2, <3>2 DEF WayBack
    <3> QED
      BY <1>6, <2>1, <2>2, <3>3, <3>4 DEF Announcing
  <2>3. CASE proc[p].cmd = "followup"
    <3>1. HeldRight(j, r) /\ r.state \in Waiting
      BY <1>2, <1>3, <2>3 DEF OnReview, Entered
    <3>2. /\ \A f \in Files : Saved(j, f)'
          /\ Made(j, r)'
          /\ \A f \in Files : /\ proc'[p].kept[f] = IF f \in Mine(r) /\ tree[f] # Absent THEN tree[f] ELSE Clean
                              /\ f \notin Mine(r) => tree[f] = own[f]
      BY <1>2, <1>8, <2>3, <3>1, BaselineOfNext
    <3>3. AllSaved(proc[p].job)' /\ Made(proc[p].job, proc[p].prior)'
      BY <1>6, <3>2 DEF AllSaved, Saved, Made
    <3>4. ~r.needs /\ ~Again(proc[p].prior)' /\ Mine(proc[p].prior)' = Mine(r)
      BY <1>6, <3>1 DEF HeldRight, Again, Mine
    <3>5. WayBack(p)'
      BY <1>1, <1>6, <2>3, <3>1, <3>2, <3>3, <3>4 DEF WayBack
    <3> QED
      BY <1>6, <2>1, <2>3, <3>5 DEF Announcing
  <2> QED
    BY <1>8, <2>2, <2>3
<1>10. Phase(p)'
  BY <1>6, <1>9 DEF Phase
<1>11. \A i \in Jobs : Again(review'[i]) => review'[i].needs
  BY <1>1 DEF Upheld, Recoverable
<1> QED
  BY <1>1, <1>4, <1>6, <1>10, <1>11, LandsIn

-----------------------------------------------------------------------------
(* Discard *)

LEMMA TakeDiscardRecovers ==
  ASSUME OneAtATime, Upheld, NEW p \in Procs, TakeDiscard(p)
  PROVE  Recoverable'
<1>1. /\ proc[p].pc = "entering" /\ proc[p].cmd = "discard" /\ lock = NoProc /\ lock' = p
      /\ UNCHANGED <<tree, head, review, before, copies, bridge, own, mainline>>
  BY DEF TakeDiscard, LockFree
<1>2. PICK j, r : j = proc[p].job /\ r = proc[p].prior
  OBVIOUS
<1>3. /\ Entered(p) /\ PersonsOwn /\ j \in Jobs /\ r = review[j] /\ OnReview(j)
      /\ proc[p] \in ProcType /\ proc \in [Procs -> ProcType] /\ Ready
      /\ (Again(r) => r.needs) /\ (WholeRun(r) \/ r.state \in Waiting)
  BY <1>1, <1>2, AtTheLock DEF Entered, Ready, TakeDiscard
<1>4. PICK todo : todo = IF WholeRun(r) THEN Touched(before[j]) ELSE Mine(r)
  OBVIOUS
<1>5. /\ proc'[p].job = j /\ proc'[p].prior = r /\ proc'[p].pc = "discarding" /\ proc'[p].todo = todo
  BY <1>2, <1>3, <1>4 DEF TakeDiscard, ProcType, Mine
<1>6. PersonsOwn' /\ Ready' /\ review'[j] = r
  BY <1>1, <1>3, SavedStays DEF Ready
<1>7. /\ WholeRun(r) => AllSaved(j)
      /\ ~WholeRun(r) => HeldRight(j, r)
  <2>1. WholeRun(r) => ~Settled(j) /\ r.state \notin Waiting
    BY <1>3 DEF WholeRun, Settled, Waiting
  <2> QED
    BY <1>3, <2>1 DEF OnReview
<1>8. \A f \in Files \ todo : tree[f] = own[f]
  <2>1. CASE WholeRun(r)
    BY <1>3, <1>4, <1>7, <2>1, PutBackRight DEF Ready, Upheld
  <2>2. CASE ~WholeRun(r)
    BY <1>4, <1>7, <2>2 DEF HeldRight, Aside
  <2> QED
    BY <2>1, <2>2
<1>9. /\ WholeRun(r) => AllSaved(j)'
      /\ ~WholeRun(r) => HeldRight(j, r)'
  BY <1>1, <1>7, SavedStays, HeldStays
<1>10. Discarding(p)'
  <2>1. /\ WholeRun(proc[p].prior)' = WholeRun(r)
        /\ Mine(proc[p].prior)' = Mine(r)
        /\ AllSaved(proc[p].job)' = AllSaved(j)'
        /\ HeldRight(proc[p].job, proc[p].prior)' = HeldRight(j, r)'
    BY <1>5 DEF WholeRun, Again, Mine, AllSaved, Saved, HeldRight, Aside, Made
  <2>2. ~WholeRun(r) => proc'[p].todo \subseteq Mine(r)
    BY <1>4, <1>5
  <2>3. \A f \in Files \ proc'[p].todo : tree'[f] = own'[f]
    BY <1>1, <1>5, <1>8
  <2> QED
    BY <1>5, <1>6, <1>9, <2>1, <2>2, <2>3 DEF Discarding
<1>11. Phase(p)'
  BY <1>5, <1>10 DEF Phase
<1>12. \A i \in Jobs : Again(review'[i]) => review'[i].needs
  BY <1>1 DEF Upheld, Recoverable
<1> QED
  BY <1>1, <1>5, <1>6, <1>11, <1>12, LandsIn

LEMMA DiscardFileRecovers ==
  ASSUME OneAtATime, Upheld, NEW p \in Procs, DiscardFile(p)
  PROVE  Recoverable'
<1>1. PICK f \in proc[p].todo :
        /\ proc[p].pc = "discarding" /\ tree' = [tree EXCEPT ![f] = Discarded(p, f)]
        /\ proc' = [proc EXCEPT ![p].todo = proc[p].todo \ {f}]
        /\ UNCHANGED <<head, review, before, copies, lock, bridge, own, mainline>>
  BY DEF DiscardFile
<1>2. PICK j, r : j = proc[p].job /\ r = proc[p].prior
  OBVIOUS
<1>3. PICK more : more = proc[p].todo \ {f}
  OBVIOUS
<1>4. /\ Discarding(p) /\ PersonsOwn /\ lock = p /\ j \in Jobs /\ proc[p] \in ProcType
      /\ proc \in [Procs -> ProcType] /\ tree \in [Files -> Contents] /\ f \in Files
  BY <1>1, <1>2, InTheTree DEF Phase, Upheld, TypeOK, ProcType
<1>5. /\ proc'[p].job = j /\ proc'[p].prior = r /\ proc'[p].pc = "discarding" /\ proc'[p].todo = more
  BY <1>1, <1>2, <1>3, <1>4 DEF ProcType
<1>6. Discarded(p, f) = own[f]
  BY <1>4, DiscardedRight DEF Upheld
<1>7. PersonsOwn' /\ Ready' /\ review'[j] = r
  BY <1>1, <1>2, <1>4, SavedStays DEF Ready, Discarding
<1>8. \A g \in Files \ more : tree'[g] = own'[g]
  BY <1>1, <1>3, <1>4, <1>6 DEF Discarding
<1>9. /\ WholeRun(r) => AllSaved(j)'
      /\ ~WholeRun(r) => HeldRight(j, r)' /\ more \subseteq Mine(r)
  <2>1. WholeRun(r) => AllSaved(j)'
    BY <1>1, <1>2, <1>4, SavedStays DEF Discarding
  <2>2. ASSUME ~WholeRun(r) PROVE HeldRight(j, r)' /\ more \subseteq Mine(r)
    <3>1. HeldRight(j, r) /\ proc[p].todo \subseteq Mine(r)
      BY <1>2, <1>4, <2>2 DEF Discarding
    <3>2. \A g \in Files : g \notin Mine(r) => tree'[g] = tree[g]
      BY <1>1, <1>4, <3>1
    <3> QED
      BY <1>1, <1>3, <3>1, <3>2, HeldStays
  <2> QED
    BY <2>1, <2>2
<1>10. Discarding(p)'
  <2>1. /\ WholeRun(proc[p].prior)' = WholeRun(r)
        /\ Mine(proc[p].prior)' = Mine(r)
        /\ AllSaved(proc[p].job)' = AllSaved(j)'
        /\ HeldRight(proc[p].job, proc[p].prior)' = HeldRight(j, r)'
    BY <1>5 DEF WholeRun, Again, Mine, AllSaved, Saved, HeldRight, Aside, Made
  <2> QED
    BY <1>5, <1>7, <1>8, <1>9, <2>1 DEF Discarding
<1>11. Phase(p)'
  BY <1>5, <1>10 DEF Phase
<1>12. \A i \in Jobs : Again(review'[i]) => review'[i].needs
  BY <1>1 DEF Upheld, Recoverable
<1> QED
  BY <1>1, <1>4, <1>5, <1>7, <1>11, <1>12, LandsIn

LEMMA CloseDiscardRecovers ==
  ASSUME OneAtATime, Upheld, NEW p \in Procs, CloseDiscard(p)
  PROVE  Recoverable'
<1>1. PICK j, r, c :
        /\ j = proc[p].job /\ r = proc[p].prior
        /\ c = [r EXCEPT !.state = "discarded", !.needs = IF WholeRun(r) THEN Again(r) ELSE r.needs]
        /\ proc[p].pc = "discarding" /\ proc[p].todo = {}
        /\ review' = [review EXCEPT ![j] = c]
        /\ lock' = NoProc /\ proc' = [proc EXCEPT ![p] = IdleProc]
        /\ UNCHANGED <<tree, head, before, copies, bridge, own, mainline>>
  BY DEF CloseDiscard, Ends
<1>2. /\ Discarding(p) /\ PersonsOwn /\ j \in Jobs /\ r \in ReviewType /\ review \in [Jobs -> ReviewType]
      /\ TypeOK
  BY <1>1, InTheTree DEF Phase, Upheld
<1>3. /\ c.state = "discarded" /\ c.alive = r.alive /\ review'[j] = c
      /\ c.needs = IF WholeRun(r) THEN Again(r) ELSE r.needs
  BY <1>1, <1>2 DEF ReviewType
<1>4. Again(c) => c.needs
  <2>1. ~WholeRun(r) => ~Again(r)
    BY <1>1, <1>2 DEF Discarding, HeldRight
  <2> QED
    BY <1>3, <2>1 DEF Again
<1>5. tree = own
  <2>1. \A f \in Files : tree[f] = own[f]
    BY <1>1, <1>2 DEF Discarding
  <2> QED
    BY <1>2, <2>1 DEF TypeOK
<1>6. PersonsOwn' /\ Ready' /\ tree' = own'
  BY <1>1, <1>2, <1>5, SavedStays DEF Ready, Discarding
<1>7. ~Settled(j)' => AllSaved(j)'
  <2>1. ~Settled(j)' => c.needs
    BY <1>3 DEF Settled
  <2>2. c.needs => WholeRun(r)
    BY <1>1, <1>2, <1>3 DEF Discarding, HeldRight
  <2>3. WholeRun(r) => AllSaved(j)'
    BY <1>1, <1>2, SavedStays DEF Discarding
  <2> QED
    BY <2>1, <2>2, <2>3
<1>8. OnReview(j)'
  BY <1>3, <1>6, <1>7 DEF OnReview, Waiting
<1> QED
  BY <1>1, <1>2, <1>3, <1>4, <1>6, <1>8, Ended

-----------------------------------------------------------------------------
(* Everyone else *)

ProcPhases == RunPhases \cup {"announcing", "discarding"}

\* Only commands moved.
LEMMA OnReviewStays ==
  ASSUME UNCHANGED <<tree, head, review, before, copies, bridge, own, mainline>>
  PROVE  \A j : OnReview(j) => OnReview(j)'
<1> SUFFICES ASSUME NEW j, OnReview(j) PROVE OnReview(j)'
  OBVIOUS
<1>1. PICK r : r = review[j]
  OBVIOUS
<1>2. HeldRight(j, r) => HeldRight(j, r)'
  BY HeldStays
<1>3. HeldRight(j, r) => HeldRight(j, review[j])'
  BY <1>1, <1>2 DEF HeldRight, Made, Mine, Again, Saved, Aside
<1>4. Settled(j)' = Settled(j) /\ Ready' = Ready /\ AllSaved(j)' = AllSaved(j)
  BY SavedStays DEF Settled, Ready
<1> QED
  BY <1>1, <1>3, <1>4 DEF OnReview

\* A command that dies leaves a review that says how to put its tree back.
LEMMA CrashRecovers ==
  ASSUME OneAtATime, Upheld, NEW p \in Procs, Crash(p)
  PROVE  Recoverable'
<1>1. /\ proc[p].pc \notin {"idle", "entering"} /\ lock' = NoProc /\ proc' = [proc EXCEPT ![p] = IdleProc]
      /\ proc[p].pc # "calling" => bridge' = bridge
      /\ UNCHANGED <<tree, head, review, before, copies, own, mainline>>
  BY DEF Crash
<1>2. PICK j, r : j = proc[p].job /\ r = review[j]
  OBVIOUS
<1>3. /\ Phase(p) /\ PersonsOwn /\ j \in Jobs /\ proc[p].pc \in ProcPhases
      /\ Again(r) => r.needs
      /\ proc[p].pc \in RunPhases => r.state = "generating"
  BY <1>1, <1>2, InTheTree DEF Upheld, Recorded, RunIsRecorded, RunPhases, Recoverable, ProcPhases, ProcType
<1>4. PersonsOwn' /\ review'[j] = r /\ (AllSaved(j) => AllSaved(j)') /\ (HeldRight(j, r) => HeldRight(j, r)')
  BY <1>1, <1>2, <1>3, SavedStays, HeldStays
<1>5. HeldRight(j, r)' => HeldRight(j, review[j])'
  BY <1>4 DEF HeldRight, Made, Mine, Again, Saved, Aside
<1>6. Settled(j)' <=> Settled(j)
  BY <1>1 DEF Settled
<1>7. CASE proc[p].pc \in RunPhases
  <2>1. AllSaved(j)
    BY <1>2, <1>3, <1>7 DEF RunPhases, Phase, Calling, Verifying, Undoing, Settling, Rejecting, WayBack
  <2>2. OnReview(j)'
    BY <1>3, <1>4, <1>7, <2>1 DEF OnReview, Settled, Waiting
  <2> QED
    BY <1>1, <1>3, <1>4, <2>2, Ended
<1>8. CASE proc[p].pc = "announcing"
  <2>1. Announcing(p) /\ r = proc[p].prior /\ Ready /\ Ready'
    BY <1>1, <1>2, <1>3, <1>8 DEF Phase, Announcing, Ready
  <2>2. CASE proc[p].cmd = "generate"
    <3>1. tree = own /\ Settled(j)
      BY <1>2, <2>1, <2>2 DEF Announcing
    <3>2. tree' = own' /\ Settled(j)' /\ review'[j].state \notin Waiting
      BY <1>1, <1>6, <3>1 DEF Settled, Waiting
    <3>3. OnReview(j)'
      BY <2>1, <3>2 DEF OnReview
    <3> QED
      BY <1>1, <1>3, <1>4, <3>3, Ended
  <2>3. CASE proc[p].cmd = "followup"
    <3>1. /\ r.state \in Waiting /\ ~r.needs /\ ~Again(r) /\ Made(j, r) /\ AllSaved(j)
          /\ \A f \in Files : f \notin Mine(r) => tree[f] = own[f]
      BY <1>2, <2>1, <2>3 DEF Announcing, WayBack
    <3>2. HeldRight(j, r)
      BY <3>1 DEF HeldRight, AllSaved, Aside
    <3>3. OnReview(j)'
      BY <1>4, <1>5, <2>1, <3>1, <3>2 DEF OnReview, Settled, Waiting
    <3> QED
      BY <1>1, <1>3, <1>4, <3>3, Ended
  <2> QED
    BY <2>1, <2>2, <2>3 DEF Announcing, WayBack
<1>9. CASE proc[p].pc = "discarding"
  <2>1. Discarding(p) /\ r = proc[p].prior /\ Ready'
    BY <1>1, <1>2, <1>3, <1>9 DEF Phase, Discarding, Ready
  <2>2. CASE WholeRun(r)
    <3>1. ~Settled(j) /\ r.state \notin Waiting
      BY <1>2, <1>3, <2>2 DEF WholeRun, Settled, Waiting
    <3>2. AllSaved(j)
      BY <1>2, <2>1, <2>2 DEF Discarding
    <3>3. OnReview(j)'
      BY <1>4, <1>6, <3>1, <3>2 DEF OnReview
    <3> QED
      BY <1>1, <1>3, <1>4, <3>3, Ended
  <2>3. CASE ~WholeRun(r)
    <3>1. HeldRight(j, r)
      BY <1>2, <2>1, <2>3 DEF Discarding
    <3>2. r.state \in Waiting
      BY <3>1 DEF HeldRight
    <3>3. OnReview(j)'
      BY <1>4, <1>5, <2>1, <3>1, <3>2 DEF OnReview, Settled, Waiting
    <3> QED
      BY <1>1, <1>3, <1>4, <3>3, Ended
  <2> QED
    BY <2>2, <2>3
<1> QED
  BY <1>3, <1>7, <1>8, <1>9 DEF ProcPhases

\* An agent writes where it likes, during its call.
LEMMA AgentRecovers ==
  ASSUME OneAtATime, AsThePageSays, Upheld, NEW p \in Procs,
         AgentCommits(p) \/ \E f \in Files, c \in AgentPuts : AgentWrites(p, f, c)
  PROVE  Recoverable'
<1>1. /\ proc[p].pc = "calling" /\ (head' = head \/ proc[p].cmd = "generate")
      /\ UNCHANGED <<review, before, copies, lock, proc, bridge, own, mainline>>
  BY DEF AgentCommits, AgentWrites, AsThePageSays
<1>2. Calling(p) /\ lock = p /\ PersonsOwn
  BY <1>1, InTheTree DEF Phase
<1>3. WayBack(p)' /\ PersonsOwn'
  BY <1>1, <1>2, WayBackStays, SavedStays DEF Calling, SameRun
<1>4. Calling(p)'
  BY <1>1, <1>2, <1>3 DEF Calling, Unharmed
<1>5. Phase(p)'
  BY <1>1, <1>4 DEF Phase
<1>6. \A j \in Jobs : Again(review'[j]) => review'[j].needs
  BY <1>1 DEF Upheld, Recoverable
<1> QED
  BY <1>1, <1>2, <1>3, <1>5, <1>6, LandsIn

\* An agent that was given up writes only where the review asks for a discard,
\* or the run is about to say so.
LEMMA BridgeRecovers ==
  ASSUME OneAtATime, Upheld, bridge # {}, bridge' \subseteq bridge,
         UNCHANGED <<head, review, before, copies, lock, proc, own, mainline>>
  PROVE  Recoverable'
<1>1. PersonsOwn' /\ \A j \in Jobs : (Again(review'[j]) => review'[j].needs)
  BY SavedStays DEF Upheld, Recoverable
<1>2. CASE lock = NoProc
  <2>1. ASSUME NEW p \in Procs PROVE proc'[p].pc = "idle"
    BY <1>2, AtTheLock DEF Entered
  <2>2. ASSUME NEW j \in Jobs PROVE OnReview(j)'
    <3>1. OnReview(j)
      BY <1>2 DEF Upheld, Recoverable
    <3>2. ~Settled(j) /\ review[j].state \notin Waiting /\ AllSaved(j)
      BY <3>1 DEF OnReview, Ready
    <3>3. ~Settled(j)' /\ review'[j].state \notin Waiting /\ AllSaved(j)'
      BY <3>2, SavedStays DEF Settled
    <3> QED
      BY <3>3 DEF OnReview
  <2> QED
    BY <1>1, <1>2, <2>1, <2>2, LandsOut
<1>3. CASE lock # NoProc
  <2>1. PICK p \in Procs : lock = p /\ proc[p].pc \notin {"idle", "entering"}
    BY <1>3 DEF Upheld, TypeOK, Recoverable
  <2>2. Phase(p) /\ proc[p].pc \in ProcPhases
    BY <2>1, InTheTree DEF ProcPhases, ProcType, RunPhases
  <2>3. \/ proc[p].pc = "settling" /\ Settling(p)
        \/ proc[p].pc = "rejecting" /\ Rejecting(p) /\ proc[p].cmd = "generate" /\ proc[p].rev.needs
    BY <2>2 DEF ProcPhases, RunPhases, Phase, Announcing, Calling, Verifying, Undoing, Settling, Rejecting,
                Discarding, WayBack, Ready
  <2>4. WayBack(p)'
    BY <2>3, WayBackStays DEF Settling, Rejecting, SameRun
  <2>5. Phase(p)'
    BY <2>3, <2>4 DEF Phase, Settling, Rejecting
  <2> QED
    BY <1>1, <2>1, <2>5, LandsIn
<1> QED
  BY <1>2, <1>3

\* With no change to decide on, the person's files are in the tree alone.
LEMMA AtRestReady ==
  ASSUME Upheld, AtRest, NEW j \in Jobs
  PROVE  /\ Ready /\ PersonsOwn /\ OnReview(j) /\ lock = NoProc /\ TypeOK
         /\ Settled(j) => tree = own
         /\ ~Settled(j) => review[j].state \in Waiting /\ HeldRight(j, review[j])
<1>1. lock = NoProc /\ OnReview(j) /\ PersonsOwn /\ TypeOK /\ (Settled(j) \/ review[j].state \in Waiting)
  BY DEF AtRest, Upheld, Recoverable
<1> QED
  BY <1>1 DEF OnReview

\* The commands that wait at the lock go on waiting.
LEMMA StillWaiting ==
  ASSUME Upheld, lock = NoProc, UNCHANGED <<review, proc, bridge>>, Ready'
  PROVE  \A p \in Procs : proc'[p].pc = "idle" \/ (proc'[p].pc = "entering" /\ Entered(p)')
<1> SUFFICES ASSUME NEW p \in Procs PROVE proc'[p].pc = "idle" \/ (proc'[p].pc = "entering" /\ Entered(p)')
  OBVIOUS
<1>1. proc[p].pc \in {"idle", "entering"} /\ (proc[p].pc = "entering" => Entered(p))
  BY AtTheLock
<1>2. Settled(proc[p].job)' = Settled(proc[p].job)
  BY DEF Settled
<1>3. Entered(p) => Entered(p)'
  BY <1>2 DEF Entered, Ready
<1> QED
  BY <1>1, <1>3

LEMMA PersonEditsRecovers ==
  ASSUME OneAtATime, AsThePageSays, Upheld, NEW f \in Files, NEW c \in PersonPuts, PersonEdits(f, c)
  PROVE  Recoverable'
<1>1. /\ AtRest /\ f \notin WaitingFiles
      /\ f \in IF \A j \in Jobs : Settled(j) THEN PersonFiles ELSE BesideFiles
      /\ tree' = [tree EXCEPT ![f] = c] /\ own' = [own EXCEPT ![f] = c]
      /\ UNCHANGED <<head, review, before, copies, lock, proc, bridge, mainline>>
  BY DEF PersonEdits
<1>2. PICK j \in Jobs : TRUE
  BY ReviewCycleAssumption
<1>3. /\ Ready /\ PersonsOwn /\ OnReview(j) /\ lock = NoProc /\ TypeOK
      /\ Settled(j) => tree = own
      /\ ~Settled(j) => review[j].state \in Waiting /\ HeldRight(j, review[j])
  BY <1>1, AtRestReady
<1>4. /\ tree \in [Files -> Contents] /\ own \in [Files -> Contents]
      /\ tree'[f] = c /\ own'[f] = c /\ \A g \in Files \ {f} : tree'[g] = tree[g] /\ own'[g] = own[g]
  BY <1>1, <1>3 DEF TypeOK
<1>5. c # Absent /\ PersonsOwn' /\ Ready'
  BY <1>1, <1>3, <1>4 DEF PersonsOwn, Ready, AsThePageSays
<1>6. ASSUME Settled(j) PROVE OnReview(j)'
  <2>1. tree' = own' /\ review'[j].state \notin Waiting
    BY <1>1, <1>3, <1>6 DEF Settled, Waiting
  <2>2. Settled(j)'
    BY <1>1, <1>6 DEF Settled
  <2> QED
    BY <1>5, <2>1, <2>2 DEF OnReview
<1>7. ASSUME ~Settled(j) PROVE OnReview(j)'
  <2>1. PICK r : r = review[j]
    OBVIOUS
  <2>2. f \in BesideFiles /\ r.state \in Waiting /\ HeldRight(j, r)
    BY <1>1, <1>3, <1>7, <2>1
  <2>3. f \notin Mine(r)
    BY <1>1, <1>2, <2>1, <2>2 DEF WaitingFiles, Mine
  <2>4. mainline = FirstTree /\ c # mainline[f]
    BY <1>3, <2>2 DEF AsThePageSays, PersonsOwn
  <2>5. before[j][f] = copies[j][f]
    BY <2>2, <2>3 DEF HeldRight, Aside, Saved
  <2>6. \A g \in Files \ {f} : Saved(j, g)' = Saved(j, g) /\ Aside(j, g)' = Aside(j, g)
    BY <1>1, <1>4 DEF Saved, Aside
  <2>7. Aside(j, f)'
    BY <1>1, <1>4, <1>5, <2>2, <2>4, <2>5 DEF Aside
  <2>8. Made(j, r)'
    BY <1>1, <1>4, <2>2, <2>3 DEF HeldRight, Made, Mine
  <2>9. HeldRight(j, r)'
    BY <2>2, <2>3, <2>6, <2>7, <2>8 DEF HeldRight
  <2>10. HeldRight(j, review[j])'
    BY <1>1, <2>1, <2>9 DEF HeldRight, Made, Mine, Again, Saved, Aside
  <2>11. review'[j] = r /\ ~Settled(j)'
    BY <1>1, <1>7, <2>1 DEF Settled
  <2> QED
    BY <1>5, <2>2, <2>10, <2>11 DEF OnReview
<1>8. \A i \in Jobs : (Again(review'[i]) => review'[i].needs) /\ OnReview(i)'
  BY <1>1, <1>6, <1>7 DEF OneAtATime, Upheld, Recoverable
<1> QED
  BY <1>1, <1>3, <1>5, <1>8, StillWaiting, LandsOut

LEMMA PersonCommitsRecovers ==
  ASSUME OneAtATime, AsThePageSays, Upheld, NEW f \in Files, PersonCommitsFile(f)
  PROVE  Recoverable'
<1>1. /\ PersonCommits /\ AtRest /\ f \notin WaitingFiles /\ tree[f] # head[f]
      /\ head' = [head EXCEPT ![f] = tree[f]] /\ mainline' = head'
      /\ UNCHANGED <<tree, review, before, copies, lock, proc, bridge, own>>
  BY DEF PersonCommitsFile
<1>2. PICK j \in Jobs : TRUE
  BY ReviewCycleAssumption
<1>3. /\ Ready /\ PersonsOwn /\ OnReview(j) /\ lock = NoProc /\ TypeOK
      /\ Settled(j) => tree = own
      /\ ~Settled(j) => review[j].state \in Waiting /\ HeldRight(j, review[j])
  BY <1>1, AtRestReady
<1>4. /\ \A g \in Files \ {f} : mainline'[g] = mainline[g]
      /\ mainline'[f] = tree[f] /\ tree[f] # mainline[f]
  BY <1>1, <1>3 DEF TypeOK, Ready
<1>5. PICK r \in ReviewType : r = review[j]
  BY <1>2, <1>3 DEF TypeOK
<1>6. ~Settled(j) => HeldRight(j, r) /\ f \notin Mine(r) /\ f \notin BesideFiles
  BY <1>1, <1>2, <1>3, <1>5 DEF WaitingFiles, Mine, AsThePageSays
<1>7. tree[f] = own[f] /\ Ready'
  BY <1>1, <1>3, <1>5, <1>6 DEF HeldRight, Aside, Ready
<1>8. PersonsOwn'
  BY <1>1, <1>3, <1>4, <1>7 DEF PersonsOwn
<1>9. ASSUME Settled(j) PROVE OnReview(j)'
  <2>1. tree' = own' /\ review'[j].state \notin Waiting /\ Settled(j)'
    BY <1>1, <1>3, <1>9 DEF Settled, Waiting
  <2> QED
    BY <1>7, <2>1 DEF OnReview
<1>10. ASSUME ~Settled(j) PROVE OnReview(j)'
  <2>1. \A g \in Files \ {f} : Saved(j, g)' = Saved(j, g) /\ Aside(j, g)' = Aside(j, g)
    BY <1>1, <1>4 DEF Saved, Aside
  <2>2. Saved(j, f) /\ Aside(j, f)
    BY <1>6, <1>10 DEF HeldRight, Aside
  <2>3. Aside(j, f)'
    <3>1. before[j][f] = own[f] /\ copies[j][f] = own[f]
      BY <1>4, <1>7, <2>2 DEF Saved
    <3> QED
      BY <1>1, <1>7, <3>1 DEF Aside, Saved
  <2>4. Made(j, r)'
    <3>1. Made(j, r) /\ Mine(r) \subseteq Files \ {f}
      BY <1>6, <1>10 DEF HeldRight, Mine, ReviewType
    <3>2. \A g \in Mine(r) : mainline'[g] = mainline[g]
      BY <1>4, <3>1
    <3> QED
      BY <1>1, <3>1, <3>2 DEF Made, Mine
  <2>5. HeldRight(j, r)'
    BY <1>6, <1>10, <2>1, <2>3, <2>4 DEF HeldRight
  <2>6. HeldRight(j, review[j])'
    BY <1>1, <1>5, <2>5 DEF HeldRight, Made, Mine, Again, Saved, Aside
  <2>7. review'[j] = r /\ ~Settled(j)' /\ r.state \in Waiting
    BY <1>1, <1>3, <1>5, <1>10 DEF Settled
  <2> QED
    BY <1>7, <2>6, <2>7 DEF OnReview
<1>11. \A i \in Jobs : (Again(review'[i]) => review'[i].needs) /\ OnReview(i)'
  BY <1>1, <1>9, <1>10 DEF OneAtATime, Upheld, Recoverable
<1> QED
  BY <1>1, <1>3, <1>7, <1>8, <1>11, StillWaiting, LandsOut

\* Who puts the branch back by hand does it where no change waits or is settled.
LEMMA PersonResetsRecovers ==
  ASSUME Upheld, PersonResets
  PROVE  Recoverable'
<1>1. /\ lock = NoProc /\ head # mainline
      /\ UNCHANGED <<tree, review, before, copies, lock, proc, bridge, own, mainline>>
  BY DEF PersonResets
<1>2. ASSUME NEW j \in Jobs PROVE (Again(review'[j]) => review'[j].needs) /\ OnReview(j)'
  <2>1. OnReview(j) /\ (Again(review[j]) => review[j].needs)
    BY <1>1 DEF Upheld, Recoverable
  <2>2. ~Settled(j) /\ review[j].state \notin Waiting /\ AllSaved(j)
    BY <1>1, <2>1 DEF OnReview, Ready
  <2>3. ~Settled(j)' /\ review'[j].state \notin Waiting /\ AllSaved(j)'
    BY <1>1, <2>2, SavedStays DEF Settled
  <2> QED
    BY <1>1, <2>1, <2>3 DEF OnReview
<1>3. ASSUME NEW p \in Procs PROVE proc'[p].pc = "idle"
  <2>1. /\ proc[p].pc \in {"idle", "entering"} /\ (proc[p].pc = "entering" => Entered(p))
        /\ proc[p].job \in Jobs /\ OnReview(proc[p].job) /\ proc[p].cmd \in {"none", "generate", "followup", "discard"}
    BY <1>1, AtTheLock DEF ProcType
  <2>2. proc[p].pc # "entering"
    BY <1>1, <2>1 DEF Entered, OnReview, Ready
  <2> QED
    BY <1>1, <2>1, <2>2
<1> QED
  BY <1>1, <1>2, <1>3, SavedStays, LandsOut DEF Upheld, Recoverable

\* A command that is started reads the review.
LEMMA EnterRecovers ==
  ASSUME OneAtATime, AsThePageSays, Upheld, NEW p \in Procs, NEW cmd \in Commands, NEW j \in Jobs, Enter(p, cmd, j)
  PROVE  Recoverable'
<1>1. /\ proc[p].pc = "idle" /\ Admits(cmd, review[j]) /\ AsTold(cmd, j)
      /\ proc' = [proc EXCEPT ![p] = [IdleProc EXCEPT !.pc = "entering", !.cmd = cmd,
                                                  !.job = j, !.prior = review[j]]]
      /\ UNCHANGED <<tree, head, review, before, copies, lock, bridge, own, mainline>>
  BY DEF Enter, AsThePageSays
<1>2. cmd \in {"generate", "followup", "discard"}
  BY ReviewCycleAssumption
<1>3. lock = NoProc /\ proc \in [Procs -> ProcType] /\ review \in [Jobs -> ReviewType]
  BY <1>1 DEF Upheld, TypeOK, Recoverable, OneAtATime
<1>4. /\ proc'[p].pc = "entering" /\ proc'[p].cmd = cmd /\ proc'[p].job = j /\ proc'[p].prior = review[j]
  BY <1>1, <1>3, IdleTyped DEF ProcType
<1>5. ASSUME cmd = "generate" PROVE Settled(j)
  <2>1. review[j] \in ReviewType
    BY <1>3
  <2>2. review[j].state \notin Waiting /\ review[j].state # "generating" /\ ~review[j].needs
    BY <1>1, <1>5 DEF Admits, AsTold
  <2> QED
    BY <2>1, <2>2 DEF Settled, ReviewType, Waiting
<1>6. Entered(p)'
  <2>1. cmd = "generate" => Settled(proc[p].job)'
    BY <1>1, <1>4, <1>5 DEF Settled
  <2>2. cmd = "followup" => review[j].state \in Waiting
    BY <1>1 DEF Admits
  <2>3. cmd = "discard" => head = mainline
    BY <1>1 DEF AsTold
  <2>4. bridge = {} /\ cmd # "none"
    BY <1>1, <1>2 DEF AsTold
  <2> QED
    BY <1>1, <1>4, <2>1, <2>2, <2>3, <2>4 DEF Entered
<1>7. \A q \in Procs : proc'[q].pc = "entering" /\ Entered(q)'
  BY <1>4, <1>6 DEF OneAtATime
<1>8. ASSUME NEW i \in Jobs PROVE (Again(review'[i]) => review'[i].needs) /\ OnReview(i)'
  BY <1>1, <1>3, OnReviewStays DEF Upheld, Recoverable
<1> QED
  BY <1>1, <1>3, <1>7, <1>8, SavedStays, LandsOut DEF Upheld, Recoverable

\* A command that ends before it has the lock.
LEMMA TurnedAway ==
  ASSUME OneAtATime, Upheld, NEW p \in Procs, LockedOut(p) \/ NothingToDiscard(p)
  PROVE  Recoverable'
<1>1. /\ proc[p].pc = "entering" /\ proc' = [proc EXCEPT ![p] = IdleProc]
      /\ UNCHANGED <<tree, head, review, before, copies, lock, bridge, own, mainline>>
  BY DEF LockedOut, NothingToDiscard
<1>2. lock = NoProc /\ proc[p].job \in Jobs
  BY <1>1 DEF Upheld, TypeOK, ProcType, Recoverable, OneAtATime
<1>3. PICK j \in Jobs : TRUE
  BY ReviewCycleAssumption
<1>4. (Again(review'[j]) => review'[j].needs) /\ OnReview(j)' /\ PersonsOwn'
  BY <1>1, <1>2, SavedStays, OnReviewStays DEF Upheld, Recoverable
<1> QED
  BY <1>1, <1>2, <1>4, Ended

-----------------------------------------------------------------------------
(* The theorems *)

LEMMA InitRecoverable == Init => Recoverable
<1> SUFFICES ASSUME Init PROVE Recoverable
  OBVIOUS
<1>1. \A j \in Jobs : review[j] = NoReview /\ tree = own /\ Ready
  BY DEF Init, Ready
<1>2. \A j \in Jobs : OnReview(j) /\ ~Again(review[j])
  BY <1>1 DEF OnReview, Settled, Waiting, NoReview, Again
<1>3. \A p \in Procs : proc[p].pc = "idle"
  BY IdleTyped DEF Init
<1> QED
  BY <1>2, <1>3, ReviewCycleAssumption DEF Init, Recoverable, PersonsOwn, Phase

LEMMA RunRecovers ==
  ASSUME OneAtATime, AsThePageSays, Upheld, NEW p \in Procs, RunStep(p)
  PROVE  Recoverable'
<1>1. CASE Verified(p) \/ VerifyFailed(p)
  BY <1>1, HeldRecovers DEF Verified, VerifyFailed, Waiting
<1> QED
  BY <1>1, TakeBaselineRecovers, AnnounceRecovers, HeadMovedRecovers, RuleBrokenRecovers, NoChangeRecovers,
     AskAgainRecovers, ToVerifyRecovers, RepairRecovers, CallFailsRecovers, TimesOutRecovers,
     SettleRecovers, UndoRecovers, RejectRecovers DEF RunStep

LEMMA RecoverableStep ==
  ASSUME OneAtATime, AsThePageSays, Upheld, [Next]_vars
  PROVE  Recoverable'
<1>1. CASE \E p \in Procs : \E cmd \in Commands, j \in Jobs : Enter(p, cmd, j)
  BY <1>1, EnterRecovers
<1>2. CASE \E p \in Procs : LockedOut(p) \/ NothingToDiscard(p)
  BY <1>2, TurnedAway
<1>3. CASE \E p \in Procs : RunStep(p)
  BY <1>3, RunRecovers
<1>4. CASE \E p \in Procs : TakeDiscard(p) \/ DiscardFile(p) \/ CloseDiscard(p)
  BY <1>4, TakeDiscardRecovers, DiscardFileRecovers, CloseDiscardRecovers
<1>5. CASE \E p \in Procs : Crash(p)
  BY <1>5, CrashRecovers
<1>6. CASE \E p \in Procs : AgentCommits(p) \/ \E f \in Files, c \in AgentPuts : AgentWrites(p, f, c)
  BY <1>6, AgentRecovers
<1>7. CASE \E j \in Jobs : BridgeEnds(j) \/ \E f \in Files, c \in AgentPuts : BridgeWrites(j, f, c)
  <2>1. /\ bridge # {} /\ bridge' \subseteq bridge
        /\ UNCHANGED <<head, review, before, copies, lock, proc, own, mainline>>
    BY <1>7 DEF BridgeEnds, BridgeWrites
  <2> QED
    BY <2>1, BridgeRecovers
<1>8. CASE \E f \in Files, c \in PersonPuts : PersonEdits(f, c)
  BY <1>8, PersonEditsRecovers
<1>9. CASE \E f \in Files : PersonCommitsFile(f)
  BY <1>9, PersonCommitsRecovers
<1>10. CASE PersonResets
  BY <1>10, PersonResetsRecovers
<1>11. CASE UNCHANGED vars
  <2>1. UNCHANGED <<tree, head, review, before, copies, lock, proc, bridge, own, mainline>>
    BY <1>11 DEF vars
  <2>2. \A p \in Procs : (proc[p].pc = "entering" => Entered(p)) => (proc'[p].pc = "entering" => Entered(p)')
    BY <2>1 DEF Entered, Settled
  <2>3. \A p \in Procs : Phase(p) => Phase(p)'
    <3> SUFFICES ASSUME NEW p \in Procs, Phase(p) PROVE Phase(p)'
      OBVIOUS
    <3>1. SameRun(p) /\ Ready' = Ready /\ Settled(proc[p].job)' = Settled(proc[p].job)
      BY <2>1 DEF SameRun, Ready, Settled
    <3>2. WayBack(p) => WayBack(p)'
      BY <2>1, <3>1, WayBackStays
    <3>3. Touched(before[proc[p].job])' = Touched(before[proc[p].job])
      BY <2>1 DEF Touched, Dirty
    <3>4. /\ Made(proc[p].job, proc[p].rev)' = Made(proc[p].job, proc[p].rev)
          /\ AllSaved(proc[p].job)' = AllSaved(proc[p].job)
          /\ HeldRight(proc[p].job, proc[p].prior)' = HeldRight(proc[p].job, proc[p].prior)
          /\ WholeRun(proc[p].prior)' = WholeRun(proc[p].prior)
      BY <2>1 DEF Made, AllSaved, Saved, HeldRight, Aside, Again, Mine, WholeRun
    <3>5. Unharmed(proc[p].rev)' = Unharmed(proc[p].rev)
      BY <2>1 DEF Unharmed
    <3>6. /\ Mine(proc[p].prior)' = Mine(proc[p].prior)
          /\ Mine(proc[p].rev)' = Mine(proc[p].rev)
      BY <2>1 DEF Mine
    <3> QED
      BY <2>1, <3>1, <3>2, <3>3, <3>4, <3>5, <3>6
      DEF Phase, Announcing, Calling, Verifying, Undoing, Settling, Rejecting, Discarding
  <2>4. \A j \in Jobs : OnReview(j) => OnReview(j)'
    BY <2>1, OnReviewStays
  <2>5. PersonsOwn' /\ \A j \in Jobs : (Again(review[j])' <=> Again(review[j]))
    BY <2>1, SavedStays DEF Upheld, Recoverable, Again
  <2> QED
    BY <2>1, <2>2, <2>3, <2>4, <2>5 DEF Upheld, Recoverable
<1> QED
  BY <1>1, <1>2, <1>3, <1>4, <1>5, <1>6, <1>7, <1>8, <1>9, <1>10, <1>11 DEF Next, DiscardStep

LEMMA Recovered ==
  ASSUME OneAtATime, AsThePageSays
  PROVE  Spec => []Upheld
<1>1. Init => Upheld
  BY InitTyped, InitRecorded, InitRecoverable DEF Upheld
<1>2. Upheld /\ [Next]_vars => Upheld'
  BY TypeStep, RecordedStep, RecoverableStep DEF Upheld
<1> QED
  BY <1>1, <1>2, PTL DEF Spec

\* cmd_discard: when no change of the job is left to decide on and nothing
\* writes, the tree is the person's, byte for byte, whatever failed, ran out of
\* its time, died, was followed up or discarded before: for any files, contents,
\* repairs and length of history, of one job with one command at a time and a
\* person who does as the page says.
THEOREM SettledTreeIsYours ==
  ASSUME OneAtATime, AsThePageSays
  PROVE  Spec => []SettledIsYours
<1>1. Upheld => SettledIsYours
  BY ReviewCycleAssumption DEF Upheld, Recoverable, OnReview, SettledIsYours
<1> QED
  BY <1>1, Recovered, PTL

\* _generate with a follow-up: one that is put back leaves the tree as it
\* found it, with the change that waits in it.
THEOREM FollowupsAreUndone ==
  ASSUME OneAtATime, AsThePageSays
  PROVE  Spec => []FollowupUndoesItself
<1>1. ASSUME Upheld, NEW p \in Procs, proc[p].pc = "rejecting", proc[p].cmd = "followup", proc[p].undone,
             NEW f \in Files
      PROVE  \/ tree[f] = proc[p].start[f]
             \/ f \in proc[p].prior.modified /\ proc[p].start[f] = Absent
  <2>1. Rejecting(p) /\ WayBack(p)
    BY <1>1, InTheTree DEF Phase, Rejecting
  <2>2. /\ tree[f] = IF proc[p].kept[f] # Clean THEN proc[p].kept[f] ELSE own[f]
        /\ proc[p].kept[f] = IF f \in Mine(proc[p].prior) /\ proc[p].start[f] # Absent THEN proc[p].start[f] ELSE Clean
        /\ f \notin Mine(proc[p].prior) => proc[p].start[f] = own[f]
        /\ \A g \in proc[p].prior.created : own[g] = Absent
    BY <1>1, <2>1 DEF Rejecting, WayBack, Made
  <2>3. proc[p].start[f] # Clean
    BY <1>1, Constants DEF Upheld, TypeOK, ProcType
  <2> QED
    BY <2>2, <2>3 DEF Mine
<1>2. Upheld => FollowupUndoesItself
  BY <1>1 DEF FollowupUndoesItself
<1> QED
  BY <1>2, Recovered, PTL

=============================================================================
