--------------------------- MODULE FixChainProofs ---------------------------
(***************************************************************************)
(* Theorems about FixChain, for any jobs, threads, commands a person may   *)
(* start, and bounds: the types, that a re-run repeats the failed run that *)
(* is still the one shown, and that nothing sent by itself leads to more.  *)
(***************************************************************************)
EXTENDS FixChain, TLAPS

USE DEF Pids, Threads, Runs, Fixes, Runnables

LEMMA Bounds ==
  /\ MaxCommands \in Nat /\ MaxRestarts \in Nat /\ 0 \in 0..MaxCommands
  /\ \A n \in 0..MaxCommands : n < MaxCommands => n + 1 \in Pids /\ n + 1 \in 0..MaxCommands
  /\ Pids \subseteq 0..MaxCommands
  /\ \A c \in Clickers : c \notin Pids
  BY FixChainAssumption

LEMMA BlankTyped ==
  /\ NoResult \in ResultType /\ NoRecord \in RecordType /\ NoPointer \in PointerType
  /\ Unborn \in CmdType /\ Quiet \in CallType
  BY Bounds DEF NoResult, NoRecord, NoPointer, Unborn, Quiet, ResultType, RecordType, PointerType,
    CmdType, CallType, WhyType

LEMMA InitTypes == Init => TypeOK
<1> SUFFICES ASSUME Init PROVE TypeOK
  OBVIOUS
<1>1. cmd \in [Pids -> CmdType] /\ call \in [Threads -> CallType]
  BY BlankTyped DEF Init
<1>2. result \in [Jobs -> ResultType] /\ record \in [Jobs -> RecordType] /\ from \in [Jobs -> PointerType]
  BY BlankTyped DEF Init
<1>3. autoSent \in [Jobs -> [at : 0..MaxCommands, sent : BOOLEAN]]
  BY Bounds DEF Init
<1> QED
  BY <1>1, <1>2, <1>3, Bounds DEF Init, TypeOK

\* A thread's call, a command and a file, each read at its type.
LEMMA Typed ==
  ASSUME TypeOK
  PROVE  /\ \A t \in Threads : call[t] \in CallType
         /\ \A p \in Pids : cmd[p] \in CmdType
         /\ \A j \in Jobs : result[j] \in ResultType /\ record[j] \in RecordType /\ from[j] \in PointerType
  BY DEF TypeOK

\* ...and written at its type.
LEMMA WrittenTyped ==
  ASSUME TypeOK
  PROVE  /\ \A t \in Threads : \A x \in CallType : [call EXCEPT ![t] = x] \in [Threads -> CallType]
         /\ \A p \in Pids : \A x \in CmdType : [cmd EXCEPT ![p] = x] \in [Pids -> CmdType]
         /\ \A j \in Jobs : \A x \in ResultType : [result EXCEPT ![j] = x] \in [Jobs -> ResultType]
         /\ \A j \in Jobs : \A x \in RecordType : [record EXCEPT ![j] = x] \in [Jobs -> RecordType]
         /\ \A j \in Jobs : \A x \in PointerType : [from EXCEPT ![j] = x] \in [Jobs -> PointerType]
  BY DEF TypeOK

LEMMA ClearedTyped ==
  ASSUME TypeOK, NEW j \in Jobs, NEW r \in Runnables
  PROVE  Cleared(j, r) \in [Jobs -> ResultType]
<1>1. result \in [Jobs -> ResultType]
  BY DEF TypeOK
<1>2. CASE r \in Runs
  BY <1>1, <1>2, WrittenTyped, BlankTyped DEF Cleared
<1>3. CASE r \notin Runs
  BY <1>1, <1>3 DEF Cleared
<1> QED
  BY <1>2, <1>3

LEMMA BegunTyped ==
  ASSUME TypeOK
  PROVE  Begun \in CallType
<1>1. started \in 0..MaxCommands
  BY DEF TypeOK
<1> QED
  BY <1>1, BlankTyped DEF Begun, CallType

\* What a call of start() leaves a thread with.
LEMMA NextCallTyped ==
  ASSUME NEW c \in CallType
  PROVE  /\ After(c) \in CallType /\ AfterRefusal(c) \in CallType
         /\ [c EXCEPT !.pc = "admit"] \in CallType
         /\ [c EXCEPT !.pc = "sent", !.why = "refused"] \in CallType
<1>1. \A pc \in {"record", "sent", "checked", "forget", "admit"} : [c EXCEPT !.pc = pc] \in CallType
  BY DEF CallType
<1>2. \A pc \in {"record", "sent", "checked"} : [c EXCEPT !.pc = pc, !.why = "refused"] \in CallType
  BY DEF CallType, WhyType
<1>3. After(c) \in CallType
  BY <1>1, BlankTyped, Zenon DEF After
<1>4. AfterRefusal(c) \in CallType
  BY <1>1, <1>2, BlankTyped, Zenon DEF AfterRefusal
<1> QED
  BY <1>1, <1>2, <1>3, <1>4

\* The two outcomes of start(), case by case.
LEMMA NextCall ==
  ASSUME NEW c
  PROVE  /\ \/ c.then = "again" /\ After(c) = [c EXCEPT !.pc = "record"]
            \/ c.then = "auto" /\ After(c) = [c EXCEPT !.pc = "sent"]
            \/ c.then = "check" /\ After(c) = [c EXCEPT !.pc = "checked"]
            \/ c.then \notin {"again", "auto", "check"} /\ After(c) = Quiet
         /\ \/ c.then = "again" /\ AfterRefusal(c) = [c EXCEPT !.pc = "record", !.why = "refused"]
            \/ c.then = "check" /\ AfterRefusal(c) = [c EXCEPT !.pc = "checked", !.why = "refused"]
            \/ c.then \in {"ask", "auto"} /\ AfterRefusal(c) = [c EXCEPT !.pc = "forget"]
            \/ c.then \notin {"again", "check", "ask", "auto"} /\ AfterRefusal(c) = Quiet
<1>1. c.then \in {"ask", "auto"} <=> c.then = "ask" \/ c.then = "auto"
  OBVIOUS
<1>2. "again" # "auto" /\ "again" # "check" /\ "auto" # "check" /\ "ask" # "again" /\ "ask" # "check"
  OBVIOUS
<1> QED
  BY <1>1, <1>2 DEF After, AfterRefusal

LEMMA MadeTyped ==
  ASSUME NEW t \in Threads, NEW c \in CallType
  PROVE  Made(t, c) \in CmdType
<1>1. /\ c.job \in Jobs \cup {NoJob} /\ c.runnable \in Runnables /\ c.auto \in BOOLEAN
      /\ c.at \in 0..MaxCommands
  BY DEF CallType
<1>2. (IF t \in Pids THEN t ELSE 0) \in 0..MaxCommands
  BY Bounds
<1>3. By(t) \in {"person", "server"}
  BY DEF By
<1> QED
  BY <1>1, <1>2, <1>3, Bounds DEF Made, CmdType

LEMMA OverTyped ==
  ASSUME TypeOK, NEW p \in Pids, NEW rc \in {"ok", "fail", "stopped"}
  PROVE  Over(p, rc) \in [Pids -> CmdType]
<1>1. cmd[p] \in CmdType /\ started \in 0..MaxCommands
  BY DEF TypeOK
<1>2. [cmd[p] EXCEPT !.phase = "ended", !.rc = rc, !.left = started] \in CmdType
  BY <1>1 DEF CmdType
<1> QED
  BY <1>2, WrittenTyped DEF Over

LEMMA ReportedTyped ==
  ASSUME TypeOK, NEW p \in Pids, Reported(p)
  PROVE  cmd' \in [Pids -> CmdType]
<1>1. cmd[p] \in CmdType
  BY DEF TypeOK
<1>2. [cmd[p] EXCEPT !.phase = "reported", !.left = 0] \in CmdType
  BY <1>1, Bounds DEF CmdType
<1> QED
  BY <1>2, WrittenTyped DEF Reported

LEMMA AskingTyped ==
  ASSUME TypeOK, NEW j \in Jobs, NEW then \in {"ask", "auto"}, MayAsk(j)
  PROVE  Asking(j, then) \in CallType
<1>1. result[j] \in ResultType /\ result[j].way \in Fixes
  BY DEF TypeOK, MayAsk
<1>2. Target(j, result[j].way) \in Jobs
  BY FixChainAssumption DEF Target
<1>3. /\ result[j].at \in 0..MaxCommands /\ result[j].what \in Runs
  BY <1>1 DEF ResultType
<1> QED
  BY <1>1, <1>2, <1>3, BegunTyped DEF Asking, CallType

LEMMA AgainTyped ==
  ASSUME TypeOK, NEW run \in Jobs, NEW rec \in RecordType, NEW why \in WhyType
  PROVE  Again(run, rec, why) \in CallType
<1>1. rec.again \in Runs /\ rec.at \in 0..MaxCommands
  BY DEF RecordType
<1> QED
  BY <1>1, BegunTyped DEF Again, CallType

LEMMA CheckingTyped ==
  ASSUME TypeOK, NEW j \in Jobs \cup {NoJob}, NEW why \in WhyType
  PROVE  Checking(j, why) \in CallType
<1>1. ASSUME NEW x \in CallType, NEW pc \in {"admit", "checked"}
      PROVE  [x EXCEPT !.pc = pc, !.then = "check", !.job = j, !.runnable = "convert-fix", !.why = why]
               \in CallType
  <2>1. [x EXCEPT !.pc = pc, !.then = "check"] \in CallType
    BY DEF CallType
  <2>2. \A y \in CallType : [y EXCEPT !.job = j, !.runnable = "convert-fix", !.why = why] \in CallType
    BY DEF CallType
  <2>3. [x EXCEPT !.pc = pc, !.then = "check", !.job = j, !.runnable = "convert-fix", !.why = why]
          = [[x EXCEPT !.pc = pc, !.then = "check"]
               EXCEPT !.job = j, !.runnable = "convert-fix", !.why = why]
    BY DEF CallType
  <2> QED
    BY <2>1, <2>2, <2>3
<1>2. (IF why = "none" THEN "admit" ELSE "checked") \in {"admit", "checked"}
  OBVIOUS
<1> QED
  BY <1>1, <1>2, BegunTyped DEF Checking

\* A call about to start a command, and a command, are of a job.
OfAJob ==
  /\ \A t \in Threads : call[t].pc \in {"note", "admit"} => call[t].job \in Jobs
  /\ \A t \in Threads : call[t].pc = "note" => call[t].run \in Jobs /\ call[t].runnable \in Fixes
  /\ \A p \in Pids : p <= started => cmd[p].job \in Jobs

LEMMA InitOfAJob == Init => OfAJob
  BY Bounds DEF Init, OfAJob, Quiet

\* A command's number is when it was started; at most the last one runs.
Numbered ==
  /\ \A p \in Pids : p > started => cmd[p] = Unborn
  /\ \A p \in Pids : cmd[p].phase = "running" => p = started /\ cmd[p].rc = "none"
  /\ \A p \in Pids : cmd[p].phase = "ended" => cmd[p].left = p

LEMMA WaitsOfAJob ==
  ASSUME TypeOK, OfAJob, Numbered, NEW p \in Pids, Waits(p)
  PROVE  cmd[p].job \in Jobs /\ p <= started
<1>1. p <= started
  BY DEF Numbered, Unborn, Waits, TypeOK
<1> QED
  BY <1>1 DEF OfAJob

LEMMA TypeStep == TypeOK /\ OfAJob /\ Numbered /\ [Next]_vars => TypeOK'
<1> SUFFICES ASSUME TypeOK, OfAJob, Numbered, [Next]_vars PROVE TypeOK'
  OBVIOUS
<1>1. ASSUME NEW c \in Clickers, NEW k \in Pressed, Click(c, k[1], k[2], k[3])
      PROVE  TypeOK'
  <2>1. k[1] \in Jobs /\ k[2] \in Runnables /\ k[3] \in BOOLEAN
    BY FixChainAssumption
  <2>2. result' \in [Jobs -> ResultType]
    BY <1>1, <2>1, ClearedTyped DEF Click
  <2>3. [Begun EXCEPT !.pc = "admit", !.job = k[1], !.runnable = k[2], !.auto = k[3]] \in CallType
    BY <2>1, BegunTyped DEF CallType
  <2>4. call' \in [Threads -> CallType]
    BY <1>1, <2>3, WrittenTyped DEF Click
  <2> QED
    BY <1>1, <2>2, <2>4 DEF Click, TypeOK
<1>2. ASSUME NEW c \in Clickers, NEW j \in Jobs, Ask(c, j)
      PROVE  TypeOK'
  <2>1. call' \in [Threads -> CallType]
    BY <1>2, AskingTyped, WrittenTyped DEF Ask
  <2> QED
    BY <1>2, <2>1 DEF Ask, TypeOK, files
<1>3. ASSUME NEW t \in Threads, Admit(t)
      PROVE  TypeOK'
  <2>1. call[t] \in CallType
    BY Typed
  <2>2. started' \in 0..MaxCommands /\ started + 1 \in Pids
    BY <1>3, Bounds DEF Admit, TypeOK
  <2>3. cmd' \in [Pids -> CmdType]
    BY <1>3, <2>1, <2>2, MadeTyped, WrittenTyped DEF Admit
  <2>4. call' \in [Threads -> CallType]
    BY <1>3, <2>1, NextCallTyped, WrittenTyped DEF Admit
  <2>5. checked' \in [Jobs -> {"none", "started", "said"}]
    BY <1>3 DEF Admit, TypeOK
  <2> QED
    BY <1>3, <2>2, <2>3, <2>4, <2>5 DEF Admit, TypeOK
<1>4. ASSUME NEW t \in Threads, Turned(t)
      PROVE  TypeOK'
  <2>1. call' \in [Threads -> CallType]
    BY <1>4, Typed, NextCallTyped, WrittenTyped DEF Turned
  <2> QED
    BY <1>4, <2>1 DEF Turned, TypeOK, files
<1>5. ASSUME NEW t \in Threads, Note(t)
      PROVE  TypeOK'
  <2> DEFINE rec == [state |-> "waiting", at |-> call[t].at, fix |-> call[t].job,
                     again |-> call[t].again, why |-> "none"]
  <2> DEFINE ptr == [run |-> call[t].run, runnable |-> call[t].runnable]
  <2>1. call[t] \in CallType
    BY Typed
  <2>2. rec \in RecordType
    BY <2>1 DEF CallType, RecordType, WhyType
  <2>3. record' \in [Jobs -> RecordType]
    BY <1>5, <2>2 DEF Note, TypeOK
  <2>4. from' \in [Jobs -> PointerType]
    <3>1. ptr \in PointerType
      BY <1>5, <2>1 DEF OfAJob, Note, CallType, PointerType
    <3> QED
      BY <1>5, <3>1 DEF Note, TypeOK
  <2>5. [call[t] EXCEPT !.pc = "admit"] \in CallType
    BY <2>1, NextCallTyped
  <2>6. call' \in [Threads -> CallType]
    BY <1>5, <2>5, WrittenTyped DEF Note
  <2> QED
    BY <1>5, <2>3, <2>4, <2>6 DEF Note, TypeOK
<1>6. ASSUME NEW t \in Threads, Forget(t)
      PROVE  TypeOK'
  <2>1. record' \in [Jobs -> RecordType] /\ from' \in [Jobs -> PointerType]
    BY <1>6, BlankTyped DEF Forget, TypeOK
  <2>2. call' \in [Threads -> CallType]
    BY <1>6, Typed, NextCallTyped, BlankTyped, WrittenTyped DEF Forget
  <2> QED
    BY <1>6, <2>1, <2>2 DEF Forget, TypeOK
<1>7. ASSUME NEW p \in Pids, RunEnds(p)
      PROVE  TypeOK'
  <2>1. PICK failed \in {"nothing", "tests", "errors"}, way \in {"none"} \cup Fixes :
          /\ result' = [result EXCEPT ![cmd[p].job] = [at |-> p, what |-> cmd[p].runnable,
                          failed |-> failed, auto |-> cmd[p].auto, way |-> way]]
          /\ cmd' = Over(p, IF failed = "nothing" THEN "ok" ELSE "fail")
    BY <1>7 DEF RunEnds
  <2>2. [at |-> p, what |-> cmd[p].runnable, failed |-> failed, auto |-> cmd[p].auto, way |-> way]
          \in ResultType
    BY <1>7, Typed, Bounds DEF RunEnds, CmdType, ResultType
  <2>3. result' \in [Jobs -> ResultType]
    BY <2>1, <2>2 DEF TypeOK
  <2>4. cmd' \in [Pids -> CmdType]
    BY <2>1, OverTyped
  <2> QED
    BY <1>7, <2>3, <2>4 DEF RunEnds, TypeOK
<1>8. ASSUME NEW p \in Pids, RunStopped(p) \/ FollowupEnds(p) \/ ConvertEnds(p)
      PROVE  TypeOK'
  <2>1. cmd' \in [Pids -> CmdType]
    BY <1>8, OverTyped DEF RunStopped, FollowupEnds, ConvertEnds
  <2>2. review' \in [Jobs -> {"none", "pending-review", "pushed", "generating"}]
    BY <1>8 DEF RunStopped, FollowupEnds, ConvertEnds, TypeOK
  <2> QED
    BY <1>8, <2>1, <2>2 DEF RunStopped, FollowupEnds, ConvertEnds, TypeOK, files
<1>9. ASSUME NEW p \in Pids, AutoAsks(p)
      PROVE  TypeOK'
  <2>1. cmd[p].job \in Jobs
    BY <1>9, WaitsOfAJob DEF AutoAsks
  <2>2. call' \in [Threads -> CallType]
    BY <1>9, <2>1, AskingTyped, WrittenTyped DEF AutoAsks
  <2> QED
    BY <1>9, <2>2 DEF AutoAsks, TypeOK, files
<1>10. ASSUME NEW p \in Pids, AutoAsksNothing(p)
       PROVE  TypeOK'
  <2>1. cmd[p].job \in Jobs
    BY <1>10, WaitsOfAJob DEF AutoAsksNothing
  <2>2. autoSent' \in [Jobs -> [at : 0..MaxCommands, sent : BOOLEAN]]
    BY <1>10, <2>1, Typed DEF AutoAsksNothing, TypeOK, ResultType
  <2>3. cmd' \in [Pids -> CmdType]
    BY <1>10, ReportedTyped DEF AutoAsksNothing
  <2> QED
    BY <1>10, <2>2, <2>3 DEF AutoAsksNothing, TypeOK
<1>11. ASSUME NEW p \in Pids, AutoSent(p)
       PROVE  TypeOK'
  <2>1. call[p] \in CallType
    BY Typed
  <2>2. autoSent' \in [Jobs -> [at : 0..MaxCommands, sent : BOOLEAN]]
    BY <1>11, <2>1 DEF AutoSent, TypeOK, CallType
  <2>3. cmd' \in [Pids -> CmdType] /\ call' \in [Threads -> CallType]
    BY <1>11, ReportedTyped, WrittenTyped, BlankTyped DEF AutoSent
  <2> QED
    BY <1>11, <2>2, <2>3 DEF AutoSent, TypeOK
<1>12. ASSUME NEW p \in Pids, LooksBack(p)
       PROVE  TypeOK'
  <2> DEFINE run == from[cmd[p].job].run
  <2> DEFINE rec == record[run]
  <2> DEFINE why == WhyNot(p, run, rec)
  <2>1. cmd[p].job \in Jobs /\ run \in Jobs
    BY <1>12, WaitsOfAJob, Typed DEF LooksBack, Pointed, PointerType
  <2>2. rec \in RecordType /\ why \in WhyType /\ rec.again \in Runnables
    BY <2>1, Typed DEF WhyNot, WhyType, RecordType
  <2>3. from' \in [Jobs -> PointerType]
    BY <1>12, BlankTyped DEF LooksBack, TypeOK
  <2>4. CASE IsItsFix(p, rec)
    <3>1. result' \in [Jobs -> ResultType]
      <4>1. result' = IF why = "none" THEN Cleared(run, rec.again) ELSE result
        BY <1>12, <2>4 DEF LooksBack
      <4>2. result \in [Jobs -> ResultType] /\ Cleared(run, rec.again) \in [Jobs -> ResultType]
        BY <2>1, <2>2, ClearedTyped DEF TypeOK
      <4> QED
        BY <4>1, <4>2
    <3>2. call' \in [Threads -> CallType]
      <4>1. Again(run, rec, why) \in CallType
        BY <2>1, <2>2, AgainTyped
      <4>2. call' = [call EXCEPT ![p] = Again(run, rec, why)]
        BY <1>12, <2>4 DEF LooksBack
      <4> QED
        BY <4>1, <4>2, WrittenTyped
    <3>3. cmd' = cmd
      BY <1>12, <2>4 DEF LooksBack
    <3> QED
      BY <1>12, <2>3, <3>1, <3>2, <3>3 DEF LooksBack, TypeOK
  <2>5. CASE ~IsItsFix(p, rec)
    <3>1. Reported(p) /\ UNCHANGED <<call, result>>
      BY <1>12, <2>5 DEF LooksBack
    <3>2. cmd' \in [Pids -> CmdType]
      BY <3>1, ReportedTyped
    <3> QED
      BY <1>12, <2>3, <3>1, <3>2 DEF LooksBack, TypeOK
  <2> QED
    BY <2>4, <2>5
<1>13. ASSUME NEW p \in Pids, NotForARun(p)
       PROVE  TypeOK'
  <2>1. cmd' \in [Pids -> CmdType]
    BY <1>13, ReportedTyped DEF NotForARun
  <2> QED
    BY <1>13, <2>1 DEF NotForARun, TypeOK, files
<1>14. ASSUME NEW p \in Pids, RecordsAgain(p)
       PROVE  TypeOK'
  <2> DEFINE rec == [state |-> IF call[p].why = "none" THEN "started" ELSE "skipped", at |-> call[p].at,
                     fix |-> cmd[p].job, again |-> call[p].again, why |-> call[p].why]
  <2>1. rec \in RecordType
    BY Typed DEF RecordType, CallType, CmdType
  <2>2. record' \in [Jobs -> RecordType]
    BY <1>14, <2>1 DEF RecordsAgain, TypeOK
  <2>3. cmd' \in [Pids -> CmdType] /\ call' \in [Threads -> CallType]
    BY <1>14, ReportedTyped, WrittenTyped, BlankTyped DEF RecordsAgain
  <2> QED
    BY <1>14, <2>2, <2>3 DEF RecordsAgain, TypeOK
<1>15. ASSUME NEW p \in Pids, ConvertEnded(p)
       PROVE  TypeOK'
  <2>1. PICK why \in {"none", "no suite", "not finished"} :
          call' = [call EXCEPT ![p] = Checking(cmd[p].job, why)]
    BY <1>15 DEF ConvertEnded
  <2>2. Checking(cmd[p].job, why) \in CallType
    <3>1. cmd[p].job \in Jobs \cup {NoJob} /\ why \in WhyType
      BY Typed DEF CmdType, WhyType
    <3> QED
      BY <3>1, CheckingTyped
  <2>3. call' \in [Threads -> CallType]
    BY <2>1, <2>2, WrittenTyped
  <2> QED
    BY <1>15, <2>3 DEF ConvertEnded, TypeOK, files
<1>16. ASSUME NEW p \in Pids, ConvertChecked(p)
       PROVE  TypeOK'
  <2>1. cmd' \in [Pids -> CmdType] /\ call' \in [Threads -> CallType]
    BY <1>16, ReportedTyped, WrittenTyped, BlankTyped DEF ConvertChecked
  <2>2. checked' \in [Jobs -> {"none", "started", "said"}]
    BY <1>16 DEF ConvertChecked, TypeOK
  <2> QED
    BY <1>16, <2>1, <2>2 DEF ConvertChecked, TypeOK
<1>17. ASSUME NEW j \in Jobs, Settled(j)
       PROVE  TypeOK'
  BY <1>17 DEF Settled, TypeOK, files
<1>18. ASSUME Restart
       PROVE  TypeOK'
  <2>1. \A p \in Pids : [cmd[p] EXCEPT !.phase = "lost", !.left = 0] \in CmdType
    <3>1. 0 \in 0..MaxCommands
      BY Bounds
    <3>2. ASSUME NEW x \in CmdType
          PROVE  [x EXCEPT !.phase = "lost", !.left = 0] \in CmdType
      BY <3>1 DEF CmdType
    <3> QED
      BY <3>2, Typed
  <2>2. cmd' \in [Pids -> CmdType]
    BY <1>18, <2>1, Typed DEF Restart
  <2>3. call' \in [Threads -> CallType]
    BY <1>18, BlankTyped DEF Restart
  <2>4. restarts' \in 0..MaxRestarts
    <3>1. restarts < MaxRestarts /\ restarts' = restarts + 1 /\ restarts \in 0..MaxRestarts
      BY <1>18 DEF Restart, TypeOK
    <3> QED
      BY <3>1, Bounds
  <2>5. review' \in [Jobs -> {"none", "pending-review", "pushed", "generating"}]
    BY <1>18 DEF Restart, TypeOK
  <2> QED
    BY <1>18, <2>2, <2>3, <2>4, <2>5 DEF Restart, TypeOK, files
<1>19. CASE UNCHANGED vars
  BY <1>19 DEF vars, TypeOK
<1> QED
  BY <1>1, <1>2, <1>3, <1>4, <1>5, <1>6, <1>7, <1>8, <1>9, <1>10, <1>11, <1>12, <1>13, <1>14, <1>15,
     <1>16, <1>17, <1>18, <1>19 DEF Next, StartStep, Ends, WaiterStep

-----------------------------------------------------------------------------
(* What the steps change of the commands *)

EndsWith(p, rc) ==
  /\ Ends(p) /\ cmd[p].phase = "running" /\ Outlived(p)
  /\ cmd' = Over(p, rc) /\ started' = started /\ call' = call

\* A waiter in the middle of something is of a command that ended.
AtItsEnd == \A p \in Pids : call[p].pc # "idle" => cmd[p].phase = "ended"

LEMMA CmdChanges ==
  ASSUME AtItsEnd, [Next]_vars
  PROVE  \/ cmd' = cmd /\ started' = started
         \/ \E t \in Threads : Admit(t)
         \/ \E p \in Pids, rc \in {"ok", "fail", "stopped"} : EndsWith(p, rc)
         \/ \E p \in Pids : Reported(p) /\ started' = started /\ cmd[p].phase = "ended"
         \/ Restart
<1>1. ASSUME NEW c \in Clickers, NEW k \in Pressed, Click(c, k[1], k[2], k[3])
      PROVE  cmd' = cmd /\ started' = started
  BY <1>1 DEF Click
<1>2. ASSUME NEW c \in Clickers, NEW j \in Jobs, Ask(c, j)
      PROVE  cmd' = cmd /\ started' = started
  BY <1>2 DEF Ask
<1>3. ASSUME NEW t \in Threads, Turned(t) \/ Note(t) \/ Forget(t)
      PROVE  cmd' = cmd /\ started' = started
  BY <1>3 DEF Turned, Note, Forget
<1>4. ASSUME NEW p \in Pids, Ends(p)
      PROVE  \E rc \in {"ok", "fail", "stopped"} : EndsWith(p, rc)
  <2>1. CASE RunEnds(p)
    BY <2>1 DEF RunEnds, EndsWith, Ends
  <2>2. CASE RunStopped(p)
    BY <2>2 DEF RunStopped, EndsWith, Ends
  <2>3. CASE FollowupEnds(p)
    <3>1. PICK rc \in {"ok", "fail"} :
            cmd' = Over(p, IF review[cmd[p].job] \in {"pushed", "generating"} THEN "fail" ELSE rc)
      BY <2>3 DEF FollowupEnds
    <3> QED
      BY <1>4, <2>3, <3>1 DEF FollowupEnds, EndsWith
  <2>4. CASE ConvertEnds(p)
    BY <2>4 DEF ConvertEnds, EndsWith, Ends
  <2> QED
    BY <1>4, <2>1, <2>2, <2>3, <2>4 DEF Ends
<1>5. ASSUME NEW p \in Pids, WaiterStep(p)
      PROVE  (cmd' = cmd \/ (Reported(p) /\ cmd[p].phase = "ended")) /\ started' = started
  <2>1. CASE AutoAsks(p) \/ ConvertEnded(p)
    <3>1. AutoAsks(p) => cmd' = cmd /\ started' = started
      BY DEF AutoAsks
    <3>2. ConvertEnded(p) => cmd' = cmd /\ started' = started
      BY DEF ConvertEnded
    <3> QED
      BY <2>1, <3>1, <3>2
  <2>2. CASE AutoAsksNothing(p) \/ AutoSent(p) \/ NotForARun(p) \/ RecordsAgain(p) \/ ConvertChecked(p)
    <3>1. Reported(p) /\ started' = started
      BY <2>2 DEF AutoAsksNothing, AutoSent, NotForARun, RecordsAgain, ConvertChecked
    <3>2. Waits(p) \/ call[p].pc # "idle"
      BY <2>2 DEF AutoAsksNothing, AutoSent, NotForARun, RecordsAgain, ConvertChecked
    <3> QED
      BY <3>1, <3>2 DEF Waits, AtItsEnd
  <2>3. CASE LooksBack(p)
    <3>1. started' = started /\ cmd[p].phase = "ended"
      BY <2>3 DEF LooksBack, Waits
    <3>2. cmd' = cmd \/ Reported(p)
      BY <2>3, Zenon DEF LooksBack
    <3> QED
      BY <3>1, <3>2
  <2> QED
    BY <1>5, <2>1, <2>2, <2>3 DEF WaiterStep
<1>6. ASSUME NEW j \in Jobs, Settled(j)
      PROVE  cmd' = cmd /\ started' = started
  BY <1>6 DEF Settled
<1>7. CASE UNCHANGED vars
  BY <1>7 DEF vars
<1> QED
  BY <1>1, <1>2, <1>3, <1>4, <1>5, <1>6, <1>7 DEF Next, StartStep

\* A step starts at most the next command, and ends at most the running one.
Frame ==
  /\ started' \in {started, started + 1} /\ started' \in 0..MaxCommands
  /\ \A q \in Pids : q <= started =>
       /\ cmd'[q].job = cmd[q].job /\ cmd'[q].runnable = cmd[q].runnable
       /\ cmd'[q].by = cmd[q].by /\ cmd'[q].auto = cmd[q].auto
       /\ cmd'[q].of = cmd[q].of /\ cmd'[q].cause = cmd[q].cause
  /\ \A q \in Pids : cmd'[q].rc # cmd[q].rc =>
       q = started /\ Ends(q) /\ Outlived(q) /\ cmd'[q].phase = "ended" /\ cmd[q].rc = "none"

LEMMA FrameStep ==
  ASSUME TypeOK, Numbered, AtItsEnd, [Next]_vars
  PROVE  Frame /\ Numbered'
<1>0. started \in 0..MaxCommands /\ cmd \in [Pids -> CmdType]
  BY DEF TypeOK
<1>1. CASE cmd' = cmd /\ started' = started
  BY <1>0, <1>1 DEF Frame, Numbered
<1>2. ASSUME NEW t \in Threads, Admit(t)
      PROVE  Frame /\ Numbered'
  <2> DEFINE n == started + 1
  <2>1. n \in Pids /\ n \in 0..MaxCommands /\ started' = n /\ n > started
    BY <1>0, <1>2, Bounds DEF Admit
  <2>2. /\ cmd'[n] = Made(t, call[t])
        /\ \A q \in Pids : q # n => cmd'[q] = cmd[q]
    BY <1>0, <1>2, <2>1 DEF Admit
  <2>3. Made(t, call[t]).rc = "none" /\ Made(t, call[t]).phase = "running"
    BY DEF Made
  <2>4. cmd[n].rc = "none"
    BY <2>1 DEF Numbered, Unborn
  <2>5. Frame
    BY <1>0, <2>1, <2>2, <2>3, <2>4 DEF Frame
  <2>6. Numbered'
    <3>1. \A q \in Pids : cmd[q].phase # "running"
      BY <1>2 DEF Admit, Nothing
    <3> QED
      BY <1>0, <2>1, <2>2, <2>3, <3>1 DEF Numbered
  <2> QED
    BY <2>5, <2>6
<1>3. ASSUME NEW p \in Pids, NEW rc \in {"ok", "fail", "stopped"}, EndsWith(p, rc)
      PROVE  Frame /\ Numbered'
  <2>1. p = started /\ cmd[p].phase = "running" /\ cmd[p].rc = "none" /\ started' = started
    BY <1>3 DEF EndsWith, Numbered
  <2>2. /\ cmd'[p] = [cmd[p] EXCEPT !.phase = "ended", !.rc = rc, !.left = started]
        /\ \A q \in Pids : q # p => cmd'[q] = cmd[q]
    BY <1>0, <1>3 DEF EndsWith, Over
  <2>3. cmd[p] \in CmdType
    BY <1>0
  <2>4. /\ cmd'[p].phase = "ended" /\ cmd'[p].left = p /\ cmd'[p].job = cmd[p].job
        /\ cmd'[p].runnable = cmd[p].runnable /\ cmd'[p].by = cmd[p].by /\ cmd'[p].auto = cmd[p].auto
        /\ cmd'[p].of = cmd[p].of /\ cmd'[p].cause = cmd[p].cause
    BY <2>1, <2>2, <2>3 DEF CmdType
  <2>5. Frame
    BY <1>0, <1>3, <2>1, <2>2, <2>4 DEF Frame, EndsWith
  <2>6. Numbered'
    <3>0. \A q \in Pids : q # p => cmd'[q] = cmd[q] /\ cmd[q].phase # "running"
      BY <2>1, <2>2 DEF Numbered
    <3>1. \A q \in Pids : q > started => cmd'[q] = Unborn
      BY <1>0, <2>1, <3>0 DEF Numbered
    <3>2. \A q \in Pids : cmd'[q].phase # "running"
      BY <2>4, <3>0
    <3>3. \A q \in Pids : cmd'[q].phase = "ended" => cmd'[q].left = q
      BY <2>4, <3>0 DEF Numbered
    <3> QED
      BY <2>1, <3>1, <3>2, <3>3 DEF Numbered
  <2> QED
    BY <2>5, <2>6
<1>4. ASSUME NEW p \in Pids, Reported(p), started' = started, cmd[p].phase = "ended"
      PROVE  Frame /\ Numbered'
  <2>1. /\ cmd'[p] = [cmd[p] EXCEPT !.phase = "reported", !.left = 0]
        /\ \A q \in Pids : q # p => cmd'[q] = cmd[q]
    BY <1>0, <1>4 DEF Reported
  <2>2. cmd[p] \in CmdType
    BY <1>0
  <2>3. /\ cmd'[p].phase = "reported" /\ cmd'[p].job = cmd[p].job /\ cmd'[p].rc = cmd[p].rc
        /\ cmd'[p].runnable = cmd[p].runnable /\ cmd'[p].by = cmd[p].by /\ cmd'[p].auto = cmd[p].auto
        /\ cmd'[p].of = cmd[p].of /\ cmd'[p].cause = cmd[p].cause
    BY <2>1, <2>2 DEF CmdType
  <2>4. p <= started
    BY <1>0, <1>4 DEF Numbered, Unborn
  <2>5. Frame
    BY <1>0, <1>4, <2>1, <2>3 DEF Frame
  <2>6. Numbered'
    <3>1. \A q \in Pids : q > started => cmd'[q] = Unborn
      BY <1>0, <1>4, <2>1, <2>4 DEF Numbered
    <3>0. cmd'[p].phase = "reported" /\ \A q \in Pids : q # p => cmd'[q] = cmd[q]
      BY <2>1, <2>3
    <3>2. \A q \in Pids : cmd'[q].phase = "running" => q = started /\ cmd'[q].rc = "none"
      BY <3>0 DEF Numbered
    <3>3. \A q \in Pids : cmd'[q].phase = "ended" => cmd'[q].left = q
      BY <3>0 DEF Numbered
    <3> QED
      BY <1>4, <3>1, <3>2, <3>3 DEF Numbered
  <2> QED
    BY <2>5, <2>6
<1>5. CASE Restart
  <2>1. /\ started' = started
        /\ \A q \in Pids : \/ cmd'[q] = cmd[q] /\ cmd[q].phase \notin {"running", "ended"}
                           \/ cmd'[q] = [cmd[q] EXCEPT !.phase = "lost", !.left = 0]
                              /\ cmd[q].phase \in {"running", "ended"}
    BY <1>5 DEF Restart
  <2>2. \A q \in Pids : cmd[q] \in CmdType
    BY <1>0
  <2>3. \A q \in Pids :
          /\ cmd'[q].job = cmd[q].job /\ cmd'[q].rc = cmd[q].rc
          /\ cmd'[q].runnable = cmd[q].runnable /\ cmd'[q].by = cmd[q].by /\ cmd'[q].auto = cmd[q].auto
          /\ cmd'[q].of = cmd[q].of /\ cmd'[q].cause = cmd[q].cause
          /\ cmd'[q].phase \notin {"running", "ended"}
          /\ cmd[q].phase \notin {"running", "ended"} => cmd'[q] = cmd[q]
    <3> SUFFICES ASSUME NEW q \in Pids
                 PROVE  /\ cmd'[q].job = cmd[q].job /\ cmd'[q].rc = cmd[q].rc
                        /\ cmd'[q].runnable = cmd[q].runnable /\ cmd'[q].by = cmd[q].by
                        /\ cmd'[q].auto = cmd[q].auto
                        /\ cmd'[q].of = cmd[q].of /\ cmd'[q].cause = cmd[q].cause
                        /\ cmd'[q].phase \notin {"running", "ended"}
                        /\ cmd[q].phase \notin {"running", "ended"} => cmd'[q] = cmd[q]
      OBVIOUS
    <3>1. CASE cmd[q].phase \notin {"running", "ended"}
      BY <2>1, <3>1
    <3>2. CASE cmd[q].phase \in {"running", "ended"}
      <4>1. cmd'[q] = [cmd[q] EXCEPT !.phase = "lost", !.left = 0] /\ cmd[q] \in CmdType
        BY <2>1, <2>2, <3>2
      <4> QED
        BY <3>2, <4>1 DEF CmdType
    <3> QED
      BY <3>1, <3>2
  <2>4. \A q \in Pids : q > started => cmd[q].phase = "unborn"
    BY DEF Numbered, Unborn
  <2> QED
    BY <1>0, <2>1, <2>3, <2>4 DEF Frame, Numbered
<1> QED
  BY <1>1, <1>2, <1>3, <1>4, <1>5, CmdChanges

-----------------------------------------------------------------------------
(* What the steps change of the calls and the files *)

StartsUp(t) == Admit(t) \/ Turned(t) \/ Note(t) \/ Forget(t)
TakesUp(p) == AutoAsks(p) \/ LooksBack(p) \/ ConvertEnded(p)

LEMMA CallFrame ==
  ASSUME TypeOK, NEW t \in Threads, NEW x, call' = [call EXCEPT ![t] = x]
  PROVE  call'[t] = x /\ \A u \in Threads : u # t => call'[u] = call[u]
  BY DEF TypeOK

\* A thread's call goes on, is given up or taken up by that thread only; a
\* waiter with a call in hand reports its command only as it lets go of it.
LEMMA CallChanges ==
  ASSUME TypeOK, Numbered, AtItsEnd, [Next]_vars, NEW t \in Threads
  PROVE  \/ /\ call'[t] = call[t]
            /\ t \in Pids /\ call[t].pc # "idle" => cmd'[t].phase = "ended"
         \/ call'[t] = Quiet /\ (t \in Pids => cmd'[t].phase # "ended")
         \/ \E k \in Pressed : Click(t, k[1], k[2], k[3]) /\ t \in Clickers
         \/ \E j \in Jobs : Ask(t, j) /\ t \in Clickers
         \/ StartsUp(t)
         \/ t \in Pids /\ TakesUp(t)
<1> DEFINE Kept == /\ call'[t] = call[t]
                   /\ t \in Pids /\ call[t].pc # "idle" => cmd'[t].phase = "ended"
<1> DEFINE Gone == call'[t] = Quiet /\ (t \in Pids => cmd'[t].phase # "ended")
<1>0. cmd \in [Pids -> CmdType] /\ call \in [Threads -> CallType]
  BY DEF TypeOK
<1>1. (cmd' = cmd /\ call'[t] = call[t]) => Kept
  BY DEF AtItsEnd
<1>2. ASSUME NEW c \in Clickers, NEW k \in Pressed, Click(c, k[1], k[2], k[3]), c # t
      PROVE  Kept
  BY <1>1, <1>2, CallFrame DEF Click
<1>3. ASSUME NEW c \in Clickers, NEW j \in Jobs, Ask(c, j), c # t
      PROVE  Kept
  BY <1>1, <1>3, CallFrame DEF Ask
<1>4. ASSUME NEW u \in Threads, u # t, Turned(u) \/ Note(u) \/ Forget(u)
      PROVE  Kept
  BY <1>1, <1>4, CallFrame DEF Turned, Note, Forget
<1>5. ASSUME NEW u \in Threads, u # t, Admit(u)
      PROVE  Kept
  <2>1. call'[t] = call[t]
    BY <1>5, CallFrame DEF Admit
  <2>2. \A p \in Pids : cmd[p].phase = "ended" => cmd'[p] = cmd[p]
    BY <1>0, <1>5, Bounds DEF Admit, Numbered, Unborn, TypeOK
  <2> QED
    BY <2>1, <2>2 DEF AtItsEnd
<1>6. ASSUME NEW p \in Pids, Ends(p)
      PROVE  Kept
  <2>1. call' = call /\ cmd[p].phase = "running" /\ \A q \in Pids : q # p => cmd'[q] = cmd[q]
    BY <1>0, <1>6 DEF Ends, RunEnds, RunStopped, FollowupEnds, ConvertEnds, Over
  <2> QED
    BY <2>1 DEF AtItsEnd
<1>7. ASSUME NEW p \in Pids, TakesUp(p), p # t
      PROVE  Kept
  <2>1. CASE AutoAsks(p)
    BY <1>1, <1>7, <2>1, CallFrame DEF AutoAsks
  <2>2. CASE ConvertEnded(p)
    <3>1. cmd' = cmd
      BY <2>2 DEF ConvertEnded
    <3>2. PICK why : call' = [call EXCEPT ![p] = Checking(cmd[p].job, why)]
      BY <2>2 DEF ConvertEnded
    <3> QED
      BY <1>1, <1>7, <3>1, <3>2, CallFrame
  <2>3. CASE LooksBack(p)
    <3> DEFINE run == from[cmd[p].job].run
    <3>1. CASE IsItsFix(p, record[run])
      <4>1. cmd' = cmd /\ call' = [call EXCEPT ![p] = Again(run, record[run], WhyNot(p, run, record[run]))]
        BY <2>3, <3>1 DEF LooksBack
      <4>2. \A u \in Threads : u # p => call'[u] = call[u]
        BY <1>7, <4>1, CallFrame
      <4>3. call'[t] = call[t]
        BY <1>7, <4>2
      <4> QED
        BY <1>1, <4>1, <4>3
    <3>2. CASE ~IsItsFix(p, record[run])
      <4>1. Reported(p) /\ call' = call
        BY <2>3, <3>2 DEF LooksBack
      <4>2. \A q \in Pids : q # p => cmd'[q] = cmd[q]
        BY <1>0, <4>1 DEF Reported
      <4> QED
        BY <1>7, <4>1, <4>2 DEF AtItsEnd
    <3> QED
      BY <3>1, <3>2
  <2> QED
    BY <1>7, <2>1, <2>2, <2>3 DEF TakesUp
<1>8. ASSUME NEW p \in Pids, AutoAsksNothing(p) \/ NotForARun(p)
      PROVE  Kept
  <2>1. Reported(p) /\ call' = call /\ call[p] = Quiet
    BY <1>8 DEF AutoAsksNothing, NotForARun, Waits
  <2>2. \A q \in Pids : q # p => cmd'[q] = cmd[q]
    BY <1>0, <2>1 DEF Reported
  <2> QED
    BY <2>1, <2>2 DEF AtItsEnd, Quiet
<1>9. ASSUME NEW p \in Pids, AutoSent(p) \/ RecordsAgain(p) \/ ConvertChecked(p)
      PROVE  Kept \/ Gone
  <2>1. Reported(p) /\ call' = [call EXCEPT ![p] = Quiet]
    BY <1>9 DEF AutoSent, RecordsAgain, ConvertChecked
  <2>2. /\ cmd'[p] = [cmd[p] EXCEPT !.phase = "reported", !.left = 0] /\ cmd[p] \in CmdType
        /\ \A q \in Pids : q # p => cmd'[q] = cmd[q]
    BY <1>0, <2>1 DEF Reported
  <2>3. cmd'[p].phase = "reported"
    BY <2>2 DEF CmdType
  <2>4. CASE t = p
    BY <1>0, <2>1, <2>3, <2>4
  <2>5. CASE t # p
    BY <2>1, <2>2, <2>5, CallFrame DEF AtItsEnd
  <2> QED
    BY <2>4, <2>5
<1>10. CASE Restart
  <2>1. call'[t] = Quiet
    BY <1>10 DEF Restart
  <2>2. \A p \in Pids : cmd'[p].phase # "ended"
    <3>1. \A x \in CmdType : [x EXCEPT !.phase = "lost", !.left = 0].phase = "lost"
      BY DEF CmdType
    <3> QED
      BY <1>0, <1>10, <3>1 DEF Restart
  <2> QED
    BY <2>1, <2>2
<1>11. ASSUME NEW j \in Jobs, Settled(j)
       PROVE  Kept
  BY <1>1, <1>11 DEF Settled
<1>12. CASE UNCHANGED vars
  BY <1>1, <1>12 DEF vars
<1>13. ASSUME NEW u \in Threads, StartsUp(u), u # t
       PROVE  Kept
  BY <1>4, <1>5, <1>13 DEF StartsUp
<1>14. ASSUME NEW p \in Pids, WaiterStep(p)
       PROVE  Kept \/ Gone \/ (t \in Pids /\ TakesUp(t))
  BY <1>7, <1>8, <1>9, <1>14 DEF WaiterStep, TakesUp
<1>15. \A u \in Threads : StartStep(u) <=> StartsUp(u)
  BY DEF StartStep, StartsUp
<1> HIDE DEF Kept, Gone
<1>16. CASE \E c \in Clickers, k \in Pressed : Click(c, k[1], k[2], k[3])
  BY <1>2, <1>16 DEF Kept
<1>17. CASE \E c \in Clickers, j \in Jobs : Ask(c, j)
  BY <1>3, <1>17 DEF Kept
<1>18. CASE \E u \in Threads : StartStep(u)
  BY <1>13, <1>15, <1>18 DEF Kept
<1>19. CASE \E p \in Pids : Ends(p) \/ WaiterStep(p)
  BY <1>6, <1>14, <1>19 DEF Kept, Gone
<1> QED
  BY <1>10, <1>11, <1>12, <1>16, <1>17, <1>18, <1>19 DEF Next, Kept, Gone

\* A job's result goes away, or comes from a run of that job that ends.
LEMMA ResultChanges ==
  ASSUME TypeOK, [Next]_vars, NEW j \in Jobs
  PROVE  \/ result'[j] = result[j] \/ result'[j] = NoResult
         \/ \E p \in Pids : RunEnds(p) /\ cmd[p].job = j
<1>0. result \in [Jobs -> ResultType]
  BY DEF TypeOK
<1>1. \A i, r : Cleared(i, r)[j] \in {result[j], NoResult}
  BY <1>0 DEF Cleared
<1>2. ASSUME NEW c \in Clickers, NEW k \in Pressed, Click(c, k[1], k[2], k[3])
      PROVE  result'[j] \in {result[j], NoResult}
  BY <1>1, <1>2 DEF Click
<1>3. ASSUME NEW c \in Clickers, NEW i \in Jobs, Ask(c, i)
      PROVE  result' = result
  BY <1>3 DEF Ask, files
<1>4. ASSUME NEW t \in Threads, StartStep(t)
      PROVE  result' = result
  BY <1>4 DEF StartStep, Admit, Turned, Note, Forget, files
<1>5. ASSUME NEW p \in Pids, RunStopped(p) \/ FollowupEnds(p) \/ ConvertEnds(p)
      PROVE  result' = result
  BY <1>5 DEF RunStopped, FollowupEnds, ConvertEnds, files
<1>6. ASSUME NEW p \in Pids, RunEnds(p), cmd[p].job # j
      PROVE  result'[j] = result[j]
  BY <1>0, <1>6 DEF RunEnds
<1>7. ASSUME NEW p \in Pids, WaiterStep(p), ~LooksBack(p)
      PROVE  result' = result
  BY <1>7 DEF WaiterStep, AutoAsks, AutoAsksNothing, AutoSent, NotForARun, RecordsAgain,
    ConvertEnded, ConvertChecked, files
<1>8. ASSUME NEW p \in Pids, LooksBack(p)
      PROVE  result'[j] \in {result[j], NoResult}
  <2> DEFINE run == from[cmd[p].job].run
  <2>1. CASE IsItsFix(p, record[run])
    <3>1. result' = IF WhyNot(p, run, record[run]) = "none" THEN Cleared(run, record[run].again) ELSE result
      BY <1>8, <2>1 DEF LooksBack
    <3> QED
      BY <1>1, <3>1
  <2>2. CASE ~IsItsFix(p, record[run])
    BY <1>8, <2>2 DEF LooksBack
  <2> QED
    BY <2>1, <2>2
<1>9. ASSUME NEW i \in Jobs, Settled(i)
      PROVE  result' = result
  BY <1>9 DEF Settled, files
<1>10. CASE Restart
  BY <1>10 DEF Restart, files
<1>11. CASE UNCHANGED vars
  BY <1>11 DEF vars
<1> QED
  BY <1>2, <1>3, <1>4, <1>5, <1>6, <1>7, <1>8, <1>9, <1>10, <1>11 DEF Next, Ends

\* A record comes to wait by _rerun_note only.
LEMMA RecordChanges ==
  ASSUME TypeOK, [Next]_vars, NEW j \in Jobs, record'[j].state = "waiting"
  PROVE  \/ record'[j] = record[j]
         \/ \E t \in Threads :
              /\ call[t].pc = "note" /\ call[t].run = j
              /\ record'[j].at = call[t].at /\ record'[j].again = call[t].again
<1>0. record \in [Jobs -> RecordType]
  BY DEF TypeOK
<1>1. ASSUME NEW c \in Clickers, NEW k \in Pressed, Click(c, k[1], k[2], k[3])
      PROVE  record' = record
  BY <1>1 DEF Click
<1>2. ASSUME NEW c \in Clickers, NEW i \in Jobs, Ask(c, i)
      PROVE  record' = record
  BY <1>2 DEF Ask, files
<1>3. ASSUME NEW t \in Threads, Admit(t) \/ Turned(t)
      PROVE  record' = record
  BY <1>3 DEF Admit, Turned, files
<1>4. ASSUME NEW t \in Threads, Note(t)
      PROVE  \/ record'[j] = record[j]
             \/ /\ call[t].pc = "note" /\ call[t].run = j
                /\ record'[j].at = call[t].at /\ record'[j].again = call[t].again
  BY <1>0, <1>4 DEF Note
<1>5. ASSUME NEW t \in Threads, Forget(t)
      PROVE  record'[j] = record[j]
  <2>1. record' = record \/ record' = [record EXCEPT ![call[t].run] = NoRecord]
    BY <1>5 DEF Forget
  <2> QED
    BY <1>0, <2>1 DEF NoRecord
<1>6. ASSUME NEW p \in Pids, Ends(p)
      PROVE  record' = record
  BY <1>6 DEF Ends, RunEnds, RunStopped, FollowupEnds, ConvertEnds, files
<1>7. ASSUME NEW p \in Pids, WaiterStep(p), ~RecordsAgain(p)
      PROVE  record' = record
  BY <1>7 DEF WaiterStep, AutoAsks, AutoAsksNothing, AutoSent, LooksBack, NotForARun,
    ConvertEnded, ConvertChecked, files
<1>8. ASSUME NEW p \in Pids, RecordsAgain(p)
      PROVE  record'[j] = record[j]
  BY <1>0, <1>8 DEF RecordsAgain
<1>9. ASSUME NEW i \in Jobs, Settled(i)
      PROVE  record' = record
  BY <1>9 DEF Settled, files
<1>10. CASE Restart
  BY <1>10 DEF Restart, files
<1>11. CASE UNCHANGED vars
  BY <1>11 DEF vars
<1> QED
  BY <1>1, <1>2, <1>3, <1>4, <1>5, <1>6, <1>7, <1>8, <1>9, <1>10, <1>11 DEF Next, StartStep

-----------------------------------------------------------------------------
(* The inductive invariant *)

\* A run that failed, as it was asked about.
Failed(at, j, r) ==
  at \in 1..started /\ cmd[at].rc = "fail" /\ cmd[at].job = j /\ cmd[at].runnable = r

\* A run the person asked to be fixed by itself.
WantedFix(at) == at \in 1..started /\ cmd[at].by = "person" /\ cmd[at].auto

CameToAResult(q, j) == cmd[q].job = j /\ cmd[q].runnable \in Runs /\ cmd[q].rc \in {"ok", "fail"}

\* Fix f, which passed, may have run `at` of job j made again.
Repeats(f, j, r, at) ==
  /\ f \in 1..started /\ cmd[f].rc = "ok" /\ cmd[f].runnable \in Fixes
  /\ at < f /\ Failed(at, j, r)
  /\ \A q \in (at + 1)..(f - 1) : ~CameToAResult(q, j)

\* The result file is of the last run of its job that came to a result.
ResultsAreTrue ==
  \A j \in Jobs :
    /\ result[j].way \in Fixes => Failed(result[j].at, j, result[j].what)
    /\ result[j].auto => WantedFix(result[j].at)
    /\ result[j].at # 0 => \A q \in Pids : q > result[j].at => ~CameToAResult(q, j)

NotesAreTrue ==
  /\ \A j \in Jobs : record[j].state = "waiting" => Failed(record[j].at, j, record[j].again)
  /\ \A t \in Threads : call[t].pc = "note" => Failed(call[t].at, call[t].run, call[t].again)

\* While the waiter of a fix looks on, no later command has ended.
NothingEndsMeanwhile ==
  \A p, q \in Pids : Waits(p) /\ cmd[p].runnable # "mvn-test" /\ q > p => cmd[q].rc = "none"

\* What a waiter has in hand, and why it may.
InHand(p) ==
  \/ /\ call[p].then = "auto" /\ call[p].pc \in {"note", "admit", "forget", "sent"}
     /\ call[p].runnable \in Fixes /\ WantedFix(call[p].at)
  \/ /\ call[p].then = "check" /\ call[p].pc \in {"admit", "checked"}
     /\ call[p].runnable \notin Runs /\ call[p].at = 0
  \/ /\ call[p].then = "again" /\ call[p].pc \in {"admit", "record"} /\ call[p].runnable \in Runs
     /\ call[p].pc = "admit" => Repeats(p, call[p].job, call[p].runnable, call[p].at)

WaitersAreRight == \A p \in Pids : call[p].pc # "idle" => ~call[p].auto /\ InHand(p)

\* A command that was sent by itself: its waiter has done so, and does no more.
SentOnce ==
  /\ \A p \in Pids : SentByItself(p) =>
       /\ cmd[p].cause \in Pids /\ WantedFix(cmd[p].of)
       /\ call[cmd[p].cause].pc = "sent" \/ cmd[cmd[p].cause].phase \in {"reported", "lost"}
  /\ \A p, q \in Pids : SentByItself(p) /\ SentByItself(q) /\ cmd[p].cause = cmd[q].cause => p = q

AutoByPersons == \A p \in Pids : cmd[p].auto => cmd[p].by = "person"

Chained ==
  /\ TypeOK /\ OfAJob /\ Numbered /\ AtItsEnd
  /\ ResultsAreTrue /\ NotesAreTrue /\ NothingEndsMeanwhile
  /\ WaitersAreRight /\ SentOnce /\ AutoByPersons /\ RerunIsOfTheRunShown

LEMMA InitChained == Init => Chained
<1> SUFFICES ASSUME Init PROVE Chained
  OBVIOUS
<1>1. TypeOK /\ OfAJob
  BY InitTypes, InitOfAJob
<1>2. Numbered /\ AtItsEnd /\ NothingEndsMeanwhile /\ WaitersAreRight /\ AutoByPersons
  BY DEF Init, Numbered, AtItsEnd, NothingEndsMeanwhile, WaitersAreRight, AutoByPersons, Quiet, Unborn
<1>3. ResultsAreTrue /\ NotesAreTrue
  BY DEF Init, ResultsAreTrue, NotesAreTrue, Quiet, NoResult, NoRecord
<1>4. SentOnce /\ RerunIsOfTheRunShown
  BY DEF Init, SentOnce, SentByItself, RerunIsOfTheRunShown, Rerun, Unborn
<1> QED
  BY <1>1, <1>2, <1>3, <1>4 DEF Chained

\* What was true of commands that ended stays true.
LEMMA Lasting ==
  ASSUME TypeOK, Numbered, Frame
  PROVE  /\ \A at, j, r : Failed(at, j, r) => Failed(at, j, r)'
         /\ \A at : WantedFix(at) => WantedFix(at)'
         /\ \A f \in Pids : \A j, r, at : Repeats(f, j, r, at) => Repeats(f, j, r, at)'
         /\ \A q \in Pids : \A j : CameToAResult(q, j)' /\ ~CameToAResult(q, j) => q = started /\ Ends(q)
<1>0. started \in 0..MaxCommands /\ MaxCommands \in Nat /\ 1..started \subseteq Pids
  BY Bounds DEF TypeOK
<1>1. ASSUME NEW at, NEW j, NEW r, Failed(at, j, r)
      PROVE  Failed(at, j, r)'
  BY <1>0, <1>1 DEF Failed, Frame
<1>2. ASSUME NEW at, WantedFix(at)
      PROVE  WantedFix(at)'
  BY <1>0, <1>2 DEF WantedFix, Frame
<1>3. ASSUME NEW q \in Pids, NEW j, CameToAResult(q, j)', ~CameToAResult(q, j)
      PROVE  q = started /\ Ends(q)
  <2>1. CASE q <= started
    BY <1>0, <1>3, <2>1 DEF CameToAResult, Frame
  <2>2. CASE q > started
    <3>1. cmd[q].rc = "none"
      BY <2>2 DEF Numbered, Unborn
    <3> QED
      BY <1>0, <1>3, <2>2, <3>1 DEF CameToAResult, Frame
  <2> QED
    BY <1>0, <2>1, <2>2
<1>4. ASSUME NEW f \in Pids, NEW j, NEW r, NEW at, Repeats(f, j, r, at)
      PROVE  Repeats(f, j, r, at)'
  <2>1. f \in 1..started /\ cmd[f].rc = "ok" /\ cmd[f].runnable \in Fixes /\ at < f /\ at \in 1..started
    BY <1>4 DEF Repeats, Failed
  <2>2. f \in 1..started' /\ cmd'[f].rc = "ok" /\ cmd'[f].runnable \in Fixes
    BY <1>0, <2>1 DEF Frame
  <2>3. Failed(at, j, r)'
    BY <1>1, <1>4 DEF Repeats
  <2>4. ASSUME NEW q \in (at + 1)..(f - 1)
        PROVE  ~CameToAResult(q, j)'
    <3>1. q \in Pids /\ q # started
      BY <1>0, <2>1
    <3> QED
      BY <1>3, <1>4, <3>1 DEF Repeats
  <2> QED
    BY <2>1, <2>2, <2>3, <2>4 DEF Repeats
<1> QED
  BY <1>1, <1>2, <1>3, <1>4

\* What a thread has in hand after a step that took it further.
Presses(t) == \E k \in Pressed : t \in Clickers /\
  call'[t] = [Begun EXCEPT !.pc = "admit", !.job = k[1], !.runnable = k[2], !.auto = k[3]]
Asks(t) == \E j \in Jobs : MayAsk(j) /\
  \/ t \in Clickers /\ call'[t] = Asking(j, "ask")
  \/ t \in Pids /\ Waits(t) /\ cmd[t].job = j /\ WantsAutoFix(t) /\ call'[t] = Asking(j, "auto")
GoesOn(t) ==
  \/ call[t].pc = "note" /\ call'[t] = [call[t] EXCEPT !.pc = "admit"]
  \/ Admit(t) /\ call'[t] = After(call[t])
  \/ call[t].pc = "admit" /\ call'[t] = AfterRefusal(call[t])
  \/ call[t].pc = "forget" /\ call[t].then = "auto" /\
       call'[t] = [call[t] EXCEPT !.pc = "sent", !.why = "refused"]
  \/ call[t].pc = "forget" /\ call[t].then # "auto" /\ call'[t] = Quiet
Looks(t) == \E run \in Jobs :
  /\ t \in Pids /\ Waits(t) /\ cmd[t].runnable \in Fixes /\ IsItsFix(t, record[run])
  /\ call'[t] = Again(run, record[run], WhyNot(t, run, record[run]))
Checks(t) == \E why \in WhyType :
  t \in Pids /\ Waits(t) /\ cmd[t].job \in Jobs /\ call'[t] = Checking(cmd[t].job, why)

LEMMA NewCalls ==
  ASSUME TypeOK, OfAJob, Numbered, AtItsEnd, [Next]_vars, NEW t \in Threads
  PROVE  \/ /\ call'[t] = call[t]
            /\ t \in Pids /\ call[t].pc # "idle" => cmd'[t].phase = "ended"
         \/ call'[t] = Quiet /\ (t \in Pids => cmd'[t].phase # "ended")
         \/ Presses(t)
         \/ (Asks(t) \/ GoesOn(t) \/ Looks(t) \/ Checks(t)) /\ (t \in Pids => cmd'[t] = cmd[t])
<1>0. /\ \A u \in Threads : call[u] \in CallType
      /\ cmd \in [Pids -> CmdType] /\ call \in [Threads -> CallType] /\ started \in 0..MaxCommands
  BY DEF TypeOK
<1>1. ASSUME NEW k \in Pressed, Click(t, k[1], k[2], k[3]), t \in Clickers
      PROVE  Presses(t)
  BY <1>1, CallFrame DEF Click, Presses
<1>2. ASSUME NEW j \in Jobs, Ask(t, j), t \in Clickers
      PROVE  Asks(t) /\ cmd' = cmd
  BY <1>2, CallFrame DEF Ask, Asks
<1>3. CASE StartsUp(t)
  <2>1. CASE Note(t)
    <3>1. call' = [call EXCEPT ![t].pc = "admit"] /\ cmd' = cmd /\ call[t].pc = "note"
      BY <2>1 DEF Note
    <3>2. call'[t] = [call[t] EXCEPT !.pc = "admit"]
      BY <1>0, <3>1
    <3> QED
      BY <3>1, <3>2 DEF GoesOn
  <2>2. CASE Admit(t)
    <3>1. call'[t] = After(call[t])
      BY <2>2, CallFrame DEF Admit
    <3>2. ASSUME t \in Pids
          PROVE  cmd'[t] = cmd[t]
      <4>1. cmd[t].phase = "ended"
        BY <2>2, <3>2 DEF Admit, AtItsEnd
      <4>2. t # started + 1
        BY <1>0, <3>2, <4>1 DEF Numbered, Unborn
      <4> QED
        BY <1>0, <2>2, <3>2, <4>2 DEF Admit
    <3> QED
      BY <2>2, <3>1, <3>2 DEF GoesOn
  <2>3. CASE Turned(t)
    BY <2>3, CallFrame DEF Turned, GoesOn
  <2>4. CASE Forget(t)
    <3>1. /\ call[t].pc = "forget" /\ cmd' = cmd
          /\ call'[t] = IF call[t].then = "auto"
                        THEN [call[t] EXCEPT !.pc = "sent", !.why = "refused"] ELSE Quiet
      BY <1>0, <2>4 DEF Forget
    <3> QED
      BY <3>1 DEF GoesOn
  <2> QED
    BY <1>3, <2>1, <2>2, <2>3, <2>4 DEF StartsUp
<1>4. CASE t \in Pids /\ TakesUp(t)
  <2>1. Waits(t) /\ cmd[t].job \in Jobs
    BY <1>4, WaitsOfAJob DEF TakesUp, AutoAsks, LooksBack, ConvertEnded
  <2>2. CASE AutoAsks(t)
    <3>1. call'[t] = Asking(cmd[t].job, "auto") /\ cmd' = cmd
      BY <2>2, CallFrame DEF AutoAsks
    <3> QED
      BY <1>4, <2>1, <2>2, <3>1 DEF AutoAsks, Asks
  <2>3. CASE ConvertEnded(t)
    <3>1. cmd' = cmd
      BY <2>3 DEF ConvertEnded
    <3>2. PICK why \in {"none", "no suite", "not finished"} :
            call' = [call EXCEPT ![t] = Checking(cmd[t].job, why)]
      BY <2>3 DEF ConvertEnded
    <3>3. call'[t] = Checking(cmd[t].job, why) /\ why \in WhyType
      BY <3>2, CallFrame DEF WhyType
    <3> QED
      BY <1>4, <2>1, <3>1, <3>3 DEF Checks
  <2>4. CASE LooksBack(t)
    <3> DEFINE run == from[cmd[t].job].run
    <3>1. run \in Jobs
      BY <2>1, <2>4, Typed DEF LooksBack, Pointed, PointerType
    <3>2. CASE IsItsFix(t, record[run])
      <4>1. call' = [call EXCEPT ![t] = Again(run, record[run], WhyNot(t, run, record[run]))] /\ cmd' = cmd
        BY <2>4, <3>2 DEF LooksBack
      <4>2. call'[t] = Again(run, record[run], WhyNot(t, run, record[run]))
        BY <4>1, CallFrame
      <4>3. cmd[t].runnable \in Fixes
        BY <2>4 DEF LooksBack
      <4> QED
        BY <1>4, <2>1, <3>1, <3>2, <4>1, <4>2, <4>3 DEF Looks
    <3>3. CASE ~IsItsFix(t, record[run])
      <4>1. Reported(t) /\ call' = call
        BY <2>4, <3>3 DEF LooksBack
      <4>2. call'[t] = Quiet /\ call[t].pc = "idle"
        BY <2>1, <4>1 DEF Waits, Quiet
      <4> QED
        BY <2>1, <4>1, <4>2 DEF Waits
    <3> QED
      BY <3>2, <3>3
  <2> QED
    BY <1>4, <2>2, <2>3, <2>4 DEF TakesUp
<1> QED
  BY <1>1, <1>2, <1>3, <1>4, CallChanges

LEMMA OfAJobStep ==
  ASSUME TypeOK, OfAJob, Numbered, AtItsEnd, [Next]_vars
  PROVE  OfAJob'
<1>0. /\ \A t \in Threads : call[t] \in CallType
      /\ cmd \in [Pids -> CmdType] /\ started \in 0..MaxCommands
  BY DEF TypeOK
<1>1. ASSUME NEW t \in Threads
      PROVE  /\ call'[t].pc \in {"note", "admit"} => call'[t].job \in Jobs
             /\ call'[t].pc = "note" => call'[t].run \in Jobs /\ call'[t].runnable \in Fixes
  <2>1. CASE call'[t] = call[t] \/ call'[t] = Quiet
    BY <2>1 DEF OfAJob, Quiet
  <2>2. CASE Presses(t)
    BY <2>2, BegunTyped, FixChainAssumption DEF Presses, CallType
  <2>3. CASE Asks(t)
    <3>1. PICK j \in Jobs, then \in {"ask", "auto"} : MayAsk(j) /\ call'[t] = Asking(j, then)
      BY <2>3 DEF Asks
    <3>2. result[j].way \in Fixes /\ Target(j, result[j].way) \in Jobs
      BY <3>1, FixChainAssumption DEF MayAsk, Target
    <3> QED
      BY <3>1, <3>2, BegunTyped DEF Asking, CallType
  <2>4. CASE GoesOn(t)
    <3>1. call[t] \in CallType
      BY <1>0
    <3>2. CASE call[t].pc = "note" /\ call'[t] = [call[t] EXCEPT !.pc = "admit"]
      BY <3>1, <3>2 DEF OfAJob, CallType
    <3>3. CASE call'[t] = After(call[t])
      BY <3>1, <3>3 DEF After, Quiet, CallType
    <3>4. CASE call'[t] = AfterRefusal(call[t])
      BY <3>1, <3>4 DEF AfterRefusal, Quiet, CallType
    <3>5. CASE call'[t] = [call[t] EXCEPT !.pc = "sent", !.why = "refused"]
      BY <3>1, <3>5 DEF CallType
    <3> QED
      BY <2>1, <2>4, <3>2, <3>3, <3>4, <3>5 DEF GoesOn
  <2>5. CASE Looks(t)
    BY <2>5, BegunTyped DEF Looks, Again, CallType
  <2>6. CASE Checks(t)
    BY <2>6, BegunTyped DEF Checks, Checking, CallType
  <2> QED
    BY <2>1, <2>2, <2>3, <2>4, <2>5, <2>6, NewCalls
<1>2. ASSUME NEW p \in Pids, p <= started'
      PROVE  cmd'[p].job \in Jobs
  <2>1. Frame
    BY FrameStep
  <2>2. CASE p <= started
    BY <2>1, <2>2 DEF Frame, OfAJob
  <2>3. CASE p > started
    <3>1. started' # started
      BY <1>0, <1>2, <2>3
    <3>2. PICK t \in Threads : Admit(t)
      BY <3>1, CmdChanges DEF EndsWith, Restart
    <3>3. cmd'[p] = Made(t, call[t]) /\ call[t].job \in Jobs
      BY <1>0, <1>2, <2>3, <3>2, Bounds DEF Admit, OfAJob
    <3> QED
      BY <3>3 DEF Made
  <2> QED
    BY <1>0, <2>2, <2>3
<1> QED
  BY <1>1, <1>2 DEF OfAJob

LEMMA AtItsEndStep ==
  ASSUME TypeOK, OfAJob, Numbered, AtItsEnd, [Next]_vars
  PROVE  AtItsEnd'
<1> SUFFICES ASSUME NEW p \in Pids, call'[p].pc # "idle"
             PROVE  cmd'[p].phase = "ended"
  BY DEF AtItsEnd
<1>1. call'[p] # Quiet /\ p \in Threads /\ p \notin Clickers
  BY Bounds DEF Quiet
<1>2. CASE call'[p] = call[p]
  BY <1>1, <1>2, NewCalls DEF Presses, AtItsEnd
<1>3. CASE cmd'[p] = cmd[p] /\ (Asks(p) \/ GoesOn(p) \/ Looks(p) \/ Checks(p))
  <2>1. Waits(p) \/ call[p].pc # "idle"
    BY <1>1, <1>3 DEF Asks, GoesOn, Looks, Checks, Admit
  <2> QED
    BY <1>3, <2>1 DEF Waits, AtItsEnd
<1> QED
  BY <1>1, <1>2, <1>3, NewCalls DEF Presses

LEMMA ResultsStep ==
  ASSUME TypeOK, OfAJob, Numbered, AtItsEnd, ResultsAreTrue, AutoByPersons, [Next]_vars
  PROVE  ResultsAreTrue'
<1>0. /\ started \in 0..MaxCommands /\ MaxCommands \in Nat /\ cmd \in [Pids -> CmdType]
      /\ result \in [Jobs -> ResultType]
  BY Bounds DEF TypeOK
<1>1. Frame
  BY FrameStep
<1>2. SUFFICES ASSUME NEW j \in Jobs
               PROVE  /\ result'[j].way \in Fixes => Failed(result[j].at, j, result[j].what)'
                      /\ result'[j].auto => WantedFix(result[j].at)'
                      /\ result'[j].at # 0 => \A q \in Pids : q > result'[j].at => ~CameToAResult(q, j)'
  BY DEF ResultsAreTrue
<1>3. CASE result'[j] = NoResult
  BY <1>3 DEF NoResult, Failed, WantedFix
<1>4. ASSUME NEW p \in Pids, RunEnds(p), cmd[p].job = j
      PROVE  /\ result'[j].way \in Fixes => Failed(result[j].at, j, result[j].what)'
             /\ result'[j].auto => WantedFix(result[j].at)'
             /\ result'[j].at # 0 => \A q \in Pids : q > result'[j].at => ~CameToAResult(q, j)'
  <2>1. p = started /\ cmd[p].runnable \in Runs /\ started' = started
    BY <1>4 DEF RunEnds, Numbered
  <2>2. PICK failed \in {"nothing", "tests", "errors"}, way \in {"none"} \cup Fixes :
          /\ failed = "nothing" => way = "none"
          /\ result' = [result EXCEPT ![cmd[p].job] = [at |-> p, what |-> cmd[p].runnable,
                          failed |-> failed, auto |-> cmd[p].auto, way |-> way]]
          /\ cmd' = Over(p, IF failed = "nothing" THEN "ok" ELSE "fail")
    BY <1>4 DEF RunEnds
  <2>3. result'[j] = [at |-> p, what |-> cmd[p].runnable, failed |-> failed, auto |-> cmd[p].auto, way |-> way]
    BY <1>0, <1>4, <2>2
  <2>4. cmd'[p] = [cmd[p] EXCEPT !.phase = "ended", !.left = started,
                     !.rc = IF failed = "nothing" THEN "ok" ELSE "fail"]
    BY <1>0, <2>2 DEF Over
  <2>5. /\ cmd'[p].rc = (IF failed = "nothing" THEN "ok" ELSE "fail") /\ cmd'[p].job = j
        /\ cmd'[p].runnable = cmd[p].runnable /\ cmd'[p].auto = cmd[p].auto /\ cmd'[p].by = cmd[p].by
    BY <1>0, <1>4, <2>4 DEF CmdType
  <2>6. p \in 1..started'
    BY <1>0, <2>1
  <2>7. result'[j].way \in Fixes => Failed(result[j].at, j, result[j].what)'
    BY <2>2, <2>3, <2>5, <2>6 DEF Failed
  <2>8. result'[j].auto => WantedFix(result[j].at)'
    BY <2>3, <2>5, <2>6 DEF WantedFix, AutoByPersons
  <2>9. ASSUME NEW q \in Pids, q > p
        PROVE  ~CameToAResult(q, j)'
    <3>1. cmd'[q] = Unborn
      BY <1>0, <2>1, <2>9, FrameStep DEF Numbered
    <3> QED
      BY <3>1 DEF CameToAResult, Unborn
  <2> QED
    BY <2>3, <2>7, <2>8, <2>9
<1>5. CASE result'[j] = result[j] /\ ~\E p \in Pids : RunEnds(p) /\ cmd[p].job = j
  <2>1. /\ result'[j].way \in Fixes => Failed(result[j].at, j, result[j].what)'
        /\ result'[j].auto => WantedFix(result[j].at)'
    BY <1>1, <1>5, Lasting DEF ResultsAreTrue, Failed, WantedFix
  <2>2. ASSUME NEW q \in Pids, CameToAResult(q, j)'
        PROVE  CameToAResult(q, j)
    <3>1. SUFFICES ASSUME ~CameToAResult(q, j) PROVE FALSE
      OBVIOUS
    <3>2. q = started /\ Ends(q)
      BY <1>1, <2>2, <3>1, Lasting
    <3>3. cmd'[q].job = cmd[q].job /\ cmd'[q].runnable = cmd[q].runnable
      BY <1>0, <1>1, <3>2 DEF Frame
    <3>4. cmd[q].runnable \in Runs /\ cmd[q].job = j /\ cmd'[q].rc \in {"ok", "fail"}
      BY <2>2, <3>3 DEF CameToAResult
    <3>5. RunStopped(q)
      BY <1>5, <3>2, <3>4 DEF Ends, FollowupEnds, ConvertEnds
    <3>6. cmd'[q] = [cmd[q] EXCEPT !.phase = "ended", !.rc = "stopped", !.left = started]
      BY <1>0, <3>5 DEF RunStopped, Over
    <3> QED
      BY <1>0, <3>4, <3>6 DEF CmdType
  <2> QED
    BY <1>5, <2>1, <2>2 DEF ResultsAreTrue
<1> QED
  BY <1>3, <1>4, <1>5, ResultChanges

LEMMA NotesStep ==
  ASSUME TypeOK, OfAJob, Numbered, AtItsEnd, ResultsAreTrue, NotesAreTrue, [Next]_vars
  PROVE  NotesAreTrue'
<1>1. Frame
  BY FrameStep
<1>2. ASSUME NEW j \in Jobs, record'[j].state = "waiting"
      PROVE  Failed(record[j].at, j, record[j].again)'
  <2>1. CASE record'[j] = record[j]
    BY <1>1, <1>2, <2>1, Lasting DEF NotesAreTrue, Failed
  <2>2. ASSUME NEW t \in Threads, call[t].pc = "note", call[t].run = j,
               record'[j].at = call[t].at, record'[j].again = call[t].again
        PROVE  Failed(record[j].at, j, record[j].again)'
    BY <1>1, <2>2, Lasting DEF NotesAreTrue, Failed
  <2> QED
    BY <1>2, <2>1, <2>2, RecordChanges
<1>3. ASSUME NEW t \in Threads, call'[t].pc = "note"
      PROVE  Failed(call[t].at, call[t].run, call[t].again)'
  <2>0. call[t] \in CallType /\ call'[t] # Quiet
    BY <1>3, Typed DEF Quiet
  <2>1. CASE call'[t] = call[t]
    BY <1>1, <1>3, <2>1, Lasting DEF NotesAreTrue, Failed
  <2>2. CASE Asks(t)
    <3>1. PICK j \in Jobs, then \in {"ask", "auto"} : MayAsk(j) /\ call'[t] = Asking(j, then)
      BY <2>2 DEF Asks
    <3>2. /\ call'[t].at = result[j].at /\ call'[t].run = j /\ call'[t].again = result[j].what
      BY <3>1, BegunTyped DEF Asking, CallType
    <3> QED
      BY <1>1, <3>1, <3>2, Lasting DEF MayAsk, ResultsAreTrue, Failed
  <2>3. CASE Presses(t)
    BY <1>3, <2>3, BegunTyped DEF Presses, CallType
  <2>4. CASE Looks(t)
    BY <1>3, <2>4, BegunTyped DEF Looks, Again, CallType
  <2>5. CASE Checks(t)
    BY <1>3, <2>5, BegunTyped DEF Checks, Checking, CallType
  <2>6. CASE GoesOn(t)
    <3>1. CASE call'[t] = [call[t] EXCEPT !.pc = "admit"]
      BY <1>3, <2>0, <3>1 DEF CallType
    <3>2. CASE call'[t] = After(call[t])
      BY <1>3, <2>0, <3>2 DEF After, CallType
    <3>3. CASE call'[t] = AfterRefusal(call[t])
      BY <1>3, <2>0, <3>3 DEF AfterRefusal, CallType
    <3>4. CASE call'[t] = [call[t] EXCEPT !.pc = "sent", !.why = "refused"]
      BY <1>3, <2>0, <3>4 DEF CallType
    <3> QED
      BY <2>0, <2>6, <3>1, <3>2, <3>3, <3>4 DEF GoesOn
  <2> QED
    BY <2>0, <2>1, <2>2, <2>3, <2>4, <2>5, <2>6, NewCalls
<1> QED
  BY <1>2, <1>3 DEF NotesAreTrue

LEMMA MeanwhileStep ==
  ASSUME TypeOK, OfAJob, Numbered, AtItsEnd, NothingEndsMeanwhile, WaitersAreRight, [Next]_vars
  PROVE  NothingEndsMeanwhile'
<1>0. /\ started \in 0..MaxCommands /\ MaxCommands \in Nat /\ cmd \in [Pids -> CmdType]
      /\ call \in [Threads -> CallType]
  BY Bounds DEF TypeOK
<1>1. Frame
  BY FrameStep
<1> SUFFICES ASSUME NEW p \in Pids, NEW q \in Pids, cmd'[p].phase = "ended", call'[p] = Quiet,
                    cmd'[p].runnable # "mvn-test", q > p
             PROVE  cmd'[q].rc = "none"
  BY DEF NothingEndsMeanwhile, Waits
<1>2. p \in Threads /\ p \notin Clickers /\ Quiet.pc = "idle"
  BY Bounds DEF Quiet
<1>3. CASE cmd[p].phase # "ended"
  <2>1. p >= started
    <3>1. \/ \E t \in Threads : Admit(t)
          \/ Ends(p)
      <4>1. CASE cmd' = cmd
        BY <1>3, <4>1
      <4>2. ASSUME NEW r \in Pids, Ends(r), r # p
            PROVE  FALSE
        BY <1>0, <1>3, <4>2 DEF Ends, RunEnds, RunStopped, FollowupEnds, ConvertEnds, Over
      <4>3. ASSUME NEW r \in Pids, Reported(r)
            PROVE  FALSE
        <5>1. cmd'[p] = cmd[p] \/ cmd'[p] = [cmd[p] EXCEPT !.phase = "reported", !.left = 0]
          BY <1>0, <4>3 DEF Reported
        <5> QED
          BY <1>0, <1>3, <5>1 DEF CmdType
      <4>4. CASE Restart
        <5>1. cmd'[p] = cmd[p] \/ cmd'[p] = [cmd[p] EXCEPT !.phase = "lost", !.left = 0]
          BY <1>0, <4>4 DEF Restart
        <5> QED
          BY <1>0, <1>3, <5>1 DEF CmdType
      <4> QED
        BY <4>1, <4>2, <4>3, <4>4, CmdChanges DEF EndsWith
    <3>2. ASSUME NEW t \in Threads, Admit(t)
          PROVE  p >= started
      <4>1. cmd'[p] = cmd[p] \/ p = started + 1
        BY <1>0, <3>2 DEF Admit
      <4> QED
        BY <1>0, <1>3, <4>1
    <3>3. Ends(p) => p = started
      BY DEF Ends, RunEnds, RunStopped, FollowupEnds, ConvertEnds, Numbered
    <3> QED
      BY <1>0, <3>1, <3>2, <3>3
  <2>2. cmd[q].rc = "none"
    BY <1>0, <2>1 DEF Numbered, Unborn
  <2> QED
    BY <1>0, <1>1, <2>1, <2>2 DEF Frame
<1>4. CASE cmd[p].phase = "ended" /\ call[p] # Quiet
  <2>1. call'[p] # call[p] /\ ~Presses(p)
    BY <1>2, <1>4 DEF Presses
  <2>2. Asks(p) \/ GoesOn(p) \/ Looks(p) \/ Checks(p)
    BY <1>2, <2>1, NewCalls
  <2>3. GoesOn(p)
    BY <1>2, <1>4, <2>2 DEF Asks, Looks, Checks, Waits
  <2>4. call[p].pc # "idle"
    BY <2>3 DEF GoesOn, Admit
  <2>5. call[p].then \in {"auto", "check", "again"}
        /\ (call[p].pc = "forget" => call[p].then = "auto")
    BY <2>4 DEF WaitersAreRight, InHand
  <2>6. call[p] \in CallType
    BY <1>0
  <2>7. CASE call'[p] = [call[p] EXCEPT !.pc = "admit"]
    BY <1>2, <2>6, <2>7 DEF CallType
  <2>8. CASE call'[p] = After(call[p])
    BY <1>2, <2>5, <2>6, <2>8 DEF After, CallType
  <2>9. CASE call'[p] = AfterRefusal(call[p])
    BY <1>2, <2>5, <2>6, <2>9 DEF AfterRefusal, CallType
  <2>10. CASE call'[p] = [call[p] EXCEPT !.pc = "sent", !.why = "refused"]
    BY <1>2, <2>6, <2>10 DEF CallType
  <2> QED
    BY <2>3, <2>5, <2>7, <2>8, <2>9, <2>10 DEF GoesOn
<1>5. CASE Waits(p)
  <2>1. p <= started /\ cmd[p].left = p /\ cmd[p].runnable # "mvn-test"
    BY <1>0, <1>1, <1>5, WaitsOfAJob DEF Frame, Numbered, Waits
  <2>2. cmd[q].rc = "none"
    BY <1>5, <2>1 DEF NothingEndsMeanwhile
  <2>3. ~Outlived(q)
    BY <1>0, <1>2, <1>5, <2>1 DEF Outlived
  <2> QED
    BY <1>1, <2>2, <2>3 DEF Frame
<1> QED
  BY <1>3, <1>4, <1>5 DEF Waits

LEMMA WaitersStep ==
  ASSUME TypeOK, OfAJob, Numbered, AtItsEnd, ResultsAreTrue, NotesAreTrue, NothingEndsMeanwhile,
         WaitersAreRight, AutoByPersons, [Next]_vars
  PROVE  WaitersAreRight'
<1>0. /\ started \in 0..MaxCommands /\ MaxCommands \in Nat /\ cmd \in [Pids -> CmdType]
      /\ call \in [Threads -> CallType]
  BY Bounds DEF TypeOK
<1>1. Frame
  BY FrameStep
<1> SUFFICES ASSUME NEW p \in Pids, call'[p].pc # "idle"
             PROVE  ~call'[p].auto /\ InHand(p)'
  BY DEF WaitersAreRight
<1>2. p \in Threads /\ p \notin Clickers /\ call'[p] # Quiet /\ call[p] \in CallType /\ Begun \in CallType
  BY <1>0, Bounds, BegunTyped DEF Quiet
<1>3. CASE call'[p] = call[p]
  <2>1. ~call[p].auto /\ InHand(p)
    BY <1>3 DEF WaitersAreRight
  <2> QED
    BY <1>1, <1>3, <2>1, Lasting DEF InHand, WantedFix, Repeats, Failed, CameToAResult
<1>4. CASE Asks(p)
  <2>1. PICK j \in Jobs : MayAsk(j) /\ Waits(p) /\ cmd[p].job = j /\ WantsAutoFix(p)
                          /\ call'[p] = Asking(j, "auto")
    BY <1>2, <1>4 DEF Asks
  <2>2. /\ call'[p].then = "auto" /\ call'[p].pc = "note" /\ call'[p].runnable = result[j].way
        /\ call'[p].at = result[j].at /\ call'[p].auto = Begun.auto
    BY <1>2, <2>1 DEF Asking, CallType
  <2>3. WantedFix(result[j].at) /\ result[j].way \in Fixes /\ ~Begun.auto
    BY <2>1 DEF WantsAutoFix, ResultsAreTrue, MayAsk, Begun, Quiet
  <2> QED
    BY <1>1, <2>2, <2>3, Lasting DEF InHand, WantedFix
<1>5. CASE Looks(p)
  <2>1. PICK run \in Jobs :
          /\ Waits(p) /\ cmd[p].runnable \in Fixes /\ IsItsFix(p, record[run])
          /\ call'[p] = Again(run, record[run], WhyNot(p, run, record[run]))
    BY <1>5 DEF Looks
  <2> DEFINE rec == record[run]
  <2> DEFINE why == WhyNot(p, run, rec)
  <2>2. /\ call'[p].then = "again" /\ call'[p].pc = (IF why = "none" THEN "admit" ELSE "record")
        /\ call'[p].job = run /\ call'[p].runnable = rec.again /\ call'[p].at = rec.at
        /\ call'[p].auto = Begun.auto
    BY <1>2, <2>1 DEF Again, CallType
  <2>3. rec \in RecordType /\ rec.again \in Runs /\ ~Begun.auto
    BY Typed DEF RecordType, Begun, Quiet
  <2>4. ASSUME why = "none"
        PROVE  Repeats(p, run, rec.again, rec.at)
    <3>1. cmd[p].rc = "ok" /\ result[run].at = rec.at
      BY <2>4 DEF WhyNot
    <3>2. Failed(rec.at, run, rec.again)
      BY <2>1 DEF IsItsFix, NotesAreTrue
    <3>3. p \in 1..started
      BY <1>0, <2>1, WaitsOfAJob
    <3>4. rec.at < p
      <4>1. rec.at \in Pids /\ cmd[rec.at].rc = "fail" /\ cmd[rec.at].runnable = rec.again
        BY <1>0, <3>2 DEF Failed
      <4>2. ~(rec.at > p)
        BY <2>1, <4>1 DEF NothingEndsMeanwhile
      <4>3. rec.at # p
        BY <2>1, <2>3, <4>1
      <4> QED
        BY <4>1, <4>2, <4>3
    <3>5. \A q \in (rec.at + 1)..(p - 1) : ~CameToAResult(q, run)
      BY <1>0, <3>1, <3>2, <3>3 DEF ResultsAreTrue, Failed
    <3> QED
      BY <2>1, <3>1, <3>2, <3>3, <3>4, <3>5 DEF Repeats
  <2>5. call'[p].pc = "admit" => Repeats(p, call[p].job, call[p].runnable, call[p].at)'
    BY <1>1, <2>2, <2>4, Lasting DEF Repeats, Failed, CameToAResult
  <2> QED
    BY <2>2, <2>3, <2>5 DEF InHand
<1>6. CASE Checks(p)
  <2>1. PICK why \in WhyType : call'[p] = Checking(cmd[p].job, why)
    BY <1>6 DEF Checks
  <2>2. /\ call'[p].then = "check" /\ call'[p].pc \in {"admit", "checked"}
        /\ call'[p].runnable = "convert-fix" /\ call'[p].at = Begun.at /\ call'[p].auto = Begun.auto
    BY <1>2, <2>1 DEF Checking, CallType
  <2>3. Begun.at = 0 /\ ~Begun.auto
    BY DEF Begun, Quiet
  <2> QED
    BY <2>2, <2>3 DEF InHand
<1>7. CASE GoesOn(p)
  <2>0. call[p].pc # "idle"
    BY <1>7 DEF GoesOn, Admit
  <2>1. ~call[p].auto /\ InHand(p)
    BY <2>0 DEF WaitersAreRight
  <2>2. CASE call[p].pc = "note" /\ call'[p] = [call[p] EXCEPT !.pc = "admit"]
    BY <1>1, <1>2, <2>1, <2>2, Lasting DEF InHand, WantedFix, CallType
  <2>3. CASE call[p].pc = "admit" /\ call'[p] = After(call[p])
    BY <1>1, <1>2, <2>1, <2>3, Lasting DEF After, InHand, WantedFix, CallType
  <2>4. CASE call[p].pc = "admit" /\ call'[p] = AfterRefusal(call[p])
    BY <1>1, <1>2, <2>1, <2>4, Lasting DEF AfterRefusal, InHand, WantedFix, CallType
  <2>5. CASE call[p].pc = "forget" /\ call'[p] = [call[p] EXCEPT !.pc = "sent", !.why = "refused"]
    BY <1>1, <1>2, <2>1, <2>5, Lasting DEF InHand, WantedFix, CallType
  <2> QED
    BY <1>2, <1>7, <2>2, <2>3, <2>4, <2>5 DEF GoesOn, Admit
<1> QED
  BY <1>2, <1>3, <1>4, <1>5, <1>6, <1>7, NewCalls DEF Presses

\* The command a thread starts, and every other as it was.
LEMMA Started ==
  ASSUME TypeOK, Numbered, NEW t \in Threads, Admit(t)
  PROVE  /\ started + 1 \in Pids /\ started' = started + 1
         /\ cmd'[started + 1] = Made(t, call[t]) /\ call[t].pc = "admit"
         /\ \A q \in Pids : q # started + 1 => cmd'[q] = cmd[q]
         /\ cmd[started + 1] = Unborn
  BY Bounds DEF Admit, TypeOK, Numbered

LEMMA AutoStep ==
  ASSUME TypeOK, OfAJob, Numbered, AtItsEnd, WaitersAreRight, AutoByPersons, [Next]_vars
  PROVE  AutoByPersons'
<1>0. started \in 0..MaxCommands
  BY DEF TypeOK
<1>1. Frame
  BY FrameStep
<1> SUFFICES ASSUME NEW p \in Pids, cmd'[p].auto
             PROVE  cmd'[p].by = "person"
  BY DEF AutoByPersons
<1>2. CASE p <= started
  BY <1>1, <1>2 DEF Frame, AutoByPersons
<1>3. CASE p > started /\ started' = started
  <2>1. cmd'[p] = Unborn
    BY <1>3, FrameStep DEF Numbered
  <2> QED
    BY <2>1 DEF Unborn
<1>4. CASE p > started /\ started' # started
  <2>1. PICK t \in Threads : Admit(t)
    BY <1>4, CmdChanges DEF EndsWith, Restart
  <2>2. CASE p = started + 1
    <3>1. cmd'[p] = Made(t, call[t]) /\ call[t].pc = "admit"
      BY <2>1, <2>2, Started
    <3>2. t \notin Pids
      BY <3>1 DEF Made, WaitersAreRight
    <3> QED
      BY <3>1, <3>2 DEF Made, By
  <2>3. CASE p # started + 1
    <3>1. cmd'[p] = cmd[p] /\ cmd[p] = Unborn
      BY <1>4, <2>1, <2>3, Started DEF Numbered
    <3> QED
      BY <3>1 DEF Unborn
  <2> QED
    BY <2>2, <2>3
<1> QED
  BY <1>0, <1>2, <1>3, <1>4

LEMMA RerunStep ==
  ASSUME TypeOK, OfAJob, Numbered, AtItsEnd, WaitersAreRight, RerunIsOfTheRunShown, [Next]_vars
  PROVE  RerunIsOfTheRunShown'
<1>0. started \in 0..MaxCommands /\ MaxCommands \in Nat
  BY Bounds DEF TypeOK
<1>1. Frame
  BY FrameStep
<1> SUFFICES ASSUME NEW p \in Pids, Rerun(p)'
             PROVE  /\ cmd'[p].cause < p /\ cmd'[p].cause \in Pids
                    /\ Repeats(cmd[p].cause, cmd[p].job, cmd[p].runnable, cmd[p].of)'
  BY <1>0 DEF RerunIsOfTheRunShown, Repeats, Failed, CameToAResult, Rerun
<1>2. CASE p <= started
  <2>1. /\ cmd'[p].cause = cmd[p].cause /\ cmd'[p].job = cmd[p].job /\ cmd'[p].of = cmd[p].of
        /\ cmd'[p].runnable = cmd[p].runnable
    BY <1>1, <1>2 DEF Frame
  <2>2. Rerun(p)
    BY <2>1 DEF Rerun
  <2>3. cmd[p].cause \in 0..MaxCommands
    BY Typed DEF CmdType
  <2>4. /\ cmd[p].cause < p /\ cmd[p].cause \in Pids
        /\ Repeats(cmd[p].cause, cmd[p].job, cmd[p].runnable, cmd[p].of)
    BY <1>0, <1>2, <2>2, <2>3 DEF RerunIsOfTheRunShown, Repeats, Failed, CameToAResult, Rerun
  <2> QED
    BY <1>1, <2>1, <2>4, Lasting DEF Repeats, Failed, CameToAResult
<1>3. CASE p > started /\ started' = started
  <2>1. cmd'[p] = Unborn
    BY <1>3, FrameStep DEF Numbered
  <2> QED
    BY <2>1 DEF Unborn, Rerun
<1>4. CASE p > started /\ started' # started
  <2>1. PICK t \in Threads : Admit(t)
    BY <1>4, CmdChanges DEF EndsWith, Restart
  <2>2. p = started + 1
    <3>1. ASSUME p # started + 1
          PROVE  cmd'[p] = Unborn
      BY <1>4, <2>1, <3>1, Started DEF Numbered
    <3> QED
      BY <3>1 DEF Unborn, Rerun
  <2>3. cmd'[p] = Made(t, call[t]) /\ call[t].pc = "admit"
    BY <2>1, <2>2, Started
  <2>4. t \in Pids /\ cmd'[p].cause = t
    BY <2>3 DEF Made, Rerun
  <2>5. /\ cmd'[p].runnable = call[t].runnable /\ cmd'[p].of = call[t].at /\ cmd'[p].job = call[t].job
    BY <2>3 DEF Made
  <2>6. InHand(t) /\ call[t].runnable \in Runs
    BY <2>3, <2>4, <2>5 DEF WaitersAreRight, Rerun
  <2>7. Repeats(t, call[t].job, call[t].runnable, call[t].at)
    BY <2>3, <2>6 DEF InHand
  <2>8. t < p
    BY <1>0, <2>2, <2>7 DEF Repeats
  <2> QED
    BY <1>1, <2>4, <2>5, <2>7, <2>8, Lasting DEF Repeats, Failed, CameToAResult
<1> QED
  BY <1>0, <1>2, <1>3, <1>4

\* A command that is done with does not come back.
LEMMA DoneStays ==
  ASSUME TypeOK, Numbered, AtItsEnd, [Next]_vars, NEW p \in Pids
  PROVE  /\ cmd[p].phase \in {"reported", "lost"} => cmd'[p].phase \in {"reported", "lost"}
         /\ cmd[p].phase = "ended" => cmd'[p].phase \in {"ended", "reported", "lost"}
<1>0. cmd \in [Pids -> CmdType]
  BY DEF TypeOK
<1>1. CASE cmd' = cmd
  BY <1>1
<1>2. ASSUME NEW t \in Threads, Admit(t)
      PROVE  cmd[p].phase \in {"ended", "reported", "lost"} => cmd'[p].phase = cmd[p].phase
  <2>1. CASE p = started + 1
    BY <1>2, <2>1, Started DEF Unborn
  <2>2. CASE p # started + 1
    BY <1>2, <2>2, Started
  <2> QED
    BY <2>1, <2>2
<1>3. ASSUME NEW q \in Pids, NEW rc \in {"ok", "fail", "stopped"}, EndsWith(q, rc)
      PROVE  cmd[p].phase \in {"ended", "reported", "lost"} => cmd'[p].phase = cmd[p].phase
  BY <1>0, <1>3 DEF EndsWith, Over
<1>4. ASSUME NEW q \in Pids, Reported(q)
      PROVE  cmd'[p] = cmd[p] \/ cmd'[p].phase = "reported"
  <2>1. cmd'[p] = cmd[p] \/ cmd'[p] = [cmd[p] EXCEPT !.phase = "reported", !.left = 0]
    BY <1>0, <1>4 DEF Reported
  <2> QED
    BY <1>0, <2>1 DEF CmdType
<1>5. CASE Restart
  <2>1. cmd'[p] = cmd[p] \/ cmd'[p] = [cmd[p] EXCEPT !.phase = "lost", !.left = 0]
    BY <1>0, <1>5 DEF Restart
  <2>2. cmd'[p] = cmd[p] \/ cmd'[p].phase = "lost"
    BY <1>0, <2>1 DEF CmdType
  <2> QED
    BY <2>2
<1> QED
  BY <1>1, <1>2, <1>3, <1>4, <1>5, CmdChanges

LEMMA SentStep ==
  ASSUME TypeOK, OfAJob, Numbered, AtItsEnd, WaitersAreRight, SentOnce, [Next]_vars
  PROVE  SentOnce'
<1>0. started \in 0..MaxCommands /\ MaxCommands \in Nat /\ call \in [Threads -> CallType]
  BY Bounds DEF TypeOK
<1>1. Frame
  BY FrameStep
<1>2. ASSUME NEW p \in Pids, SentByItself(p)', p <= started
      PROVE  /\ SentByItself(p) /\ cmd'[p].cause = cmd[p].cause /\ cmd[p].cause \in Pids
             /\ WantedFix(cmd[p].of)'
             /\ call'[cmd[p].cause].pc = "sent" \/ cmd'[cmd[p].cause].phase \in {"reported", "lost"}
  <2>1. /\ cmd'[p].cause = cmd[p].cause /\ cmd'[p].of = cmd[p].of /\ cmd'[p].runnable = cmd[p].runnable
    BY <1>1, <1>2 DEF Frame
  <2>2. SentByItself(p)
    BY <1>2, <2>1 DEF SentByItself
  <2> DEFINE c == cmd[p].cause
  <2>3. /\ c \in Pids /\ WantedFix(cmd[p].of)
        /\ call[c].pc = "sent" \/ cmd[c].phase \in {"reported", "lost"}
    BY <2>2 DEF SentOnce
  <2>4. WantedFix(cmd[p].of)'
    BY <1>1, <2>1, <2>3, Lasting DEF WantedFix
  <2>5. CASE cmd[c].phase \in {"reported", "lost"}
    BY <2>1, <2>2, <2>3, <2>4, <2>5, DoneStays
  <2>6. CASE call[c].pc = "sent"
    <3>1. cmd[c].phase = "ended" /\ call[c] # Quiet /\ c \notin Clickers /\ c \in Threads
      BY <2>3, <2>6, Bounds DEF AtItsEnd, Quiet
    <3>2. ~Presses(c) /\ ~Asks(c) /\ ~GoesOn(c) /\ ~Looks(c) /\ ~Checks(c)
      BY <2>6, <3>1 DEF Presses, Asks, GoesOn, Looks, Checks, Waits, Admit
    <3>3. call'[c] = call[c] \/ cmd'[c].phase # "ended"
      BY <3>1, <3>2, NewCalls
    <3> QED
      BY <2>1, <2>2, <2>3, <2>4, <2>6, <3>1, <3>3, DoneStays
  <2> QED
    BY <2>3, <2>5, <2>6
<1>3. ASSUME NEW p \in Pids, SentByItself(p)', p > started
      PROVE  \E t \in Pids : /\ p = started + 1 /\ cmd'[p].cause = t /\ WantedFix(cmd[p].of)'
                            /\ call'[t].pc = "sent" /\ call[t].pc = "admit"
  <2>1. started' # started
    <3>1. ASSUME started' = started
          PROVE  cmd'[p] = Unborn
      BY <1>3, <3>1, FrameStep DEF Numbered
    <3> QED
      BY <1>3, <3>1 DEF Unborn, SentByItself
  <2>2. PICK t \in Threads : Admit(t)
    BY <2>1, CmdChanges DEF EndsWith, Restart
  <2>3. p = started + 1
    <3>1. ASSUME p # started + 1
          PROVE  cmd'[p] = Unborn
      BY <1>3, <2>2, <3>1, Started DEF Numbered
    <3> QED
      BY <1>3, <3>1 DEF Unborn, SentByItself
  <2>4. cmd'[p] = Made(t, call[t]) /\ call[t].pc = "admit"
    BY <2>2, <2>3, Started
  <2>5. /\ t \in Pids /\ cmd'[p].cause = t /\ cmd'[p].of = call[t].at /\ call[t].at # 0
        /\ call[t].runnable \in Fixes
    BY <1>3, <2>4 DEF Made, SentByItself
  <2>6. call[t].then = "auto" /\ WantedFix(call[t].at)
    BY <2>4, <2>5 DEF WaitersAreRight, InHand
  <2>7. WantedFix(cmd[p].of)'
    BY <1>1, <2>5, <2>6, Lasting DEF WantedFix
  <2>8. call'[t] = [call[t] EXCEPT !.pc = "sent"]
    BY <2>2, <2>6, CallFrame DEF Admit, After
  <2>9. call'[t].pc = "sent"
    BY <1>0, <2>8 DEF CallType
  <2> QED
    BY <2>3, <2>4, <2>5, <2>7, <2>9
<1>4. ASSUME NEW p \in Pids, SentByItself(p)'
      PROVE  /\ cmd'[p].cause \in Pids /\ WantedFix(cmd[p].of)'
             /\ call'[cmd'[p].cause].pc = "sent" \/ cmd'[cmd'[p].cause].phase \in {"reported", "lost"}
  <2>1. CASE p <= started
    BY <1>2, <1>4, <2>1
  <2>2. CASE p > started
    BY <1>3, <1>4, <2>2
  <2> QED
    BY <1>0, <2>1, <2>2
<1>5. ASSUME NEW p \in Pids, NEW q \in Pids, SentByItself(p)', SentByItself(q)', p > started, q <= started
      PROVE  cmd'[p].cause # cmd'[q].cause
  <2>1. PICK t \in Pids : cmd'[p].cause = t /\ call[t].pc = "admit"
    BY <1>3, <1>5
  <2>2. cmd[t].phase = "ended"
    BY <2>1 DEF AtItsEnd
  <2>3. SentByItself(q) /\ cmd'[q].cause = cmd[q].cause
    BY <1>2, <1>5
  <2>4. cmd[q].cause # t
    BY <2>1, <2>2, <2>3 DEF SentOnce
  <2> QED
    BY <2>1, <2>3, <2>4
<1>6. ASSUME NEW p \in Pids, NEW q \in Pids, SentByItself(p)', SentByItself(q)', cmd'[p].cause = cmd'[q].cause
      PROVE  p = q
  <2>1. CASE p <= started /\ q <= started
    BY <1>2, <1>6, <2>1 DEF SentOnce
  <2>2. CASE p > started /\ q > started
    BY <1>3, <1>6, <2>2
  <2> QED
    BY <1>0, <1>5, <1>6, <2>1, <2>2
<1> QED
  BY <1>4, <1>6 DEF SentOnce, WantedFix, SentByItself

LEMMA ChainedStep == Chained /\ [Next]_vars => Chained'
<1> SUFFICES ASSUME Chained, [Next]_vars PROVE Chained'
  OBVIOUS
<1>1. /\ TypeOK /\ OfAJob /\ Numbered /\ AtItsEnd /\ ResultsAreTrue /\ NotesAreTrue
      /\ NothingEndsMeanwhile /\ WaitersAreRight /\ SentOnce /\ AutoByPersons /\ RerunIsOfTheRunShown
  BY DEF Chained
<1>2. TypeOK' /\ OfAJob' /\ Numbered' /\ AtItsEnd'
  BY <1>1, TypeStep, OfAJobStep, FrameStep, AtItsEndStep
<1>3. ResultsAreTrue' /\ NotesAreTrue' /\ NothingEndsMeanwhile'
  BY <1>1, ResultsStep, NotesStep, MeanwhileStep
<1>4. WaitersAreRight' /\ SentOnce' /\ AutoByPersons' /\ RerunIsOfTheRunShown'
  BY <1>1, WaitersStep, SentStep, AutoStep, RerunStep
<1> QED
  BY <1>2, <1>3, <1>4 DEF Chained

-----------------------------------------------------------------------------
\* The chain's invariant holds throughout, whatever is pressed, stopped or
\* restarted, for any jobs, threads and bounds.
THEOREM ChainHolds == Spec => []Chained
  BY InitChained, ChainedStep, PTL DEF Spec

\* Every call, command and file keeps its type.
THEOREM FixTypes == Spec => []TypeOK
<1>1. Chained => TypeOK
  BY DEF Chained
<1> QED
  BY <1>1, ChainHolds, PTL

\* rerun_after_fix repeats the run that failed and is still the one shown,
\* after a fix of it that passed its check.
THEOREM RerunsAreRight == Spec => []RerunIsOfTheRunShown
<1>1. Chained => RerunIsOfTheRunShown
  BY DEF Chained
<1> QED
  BY <1>1, ChainHolds, PTL

\* auto_fix answers only a run a person asked to be fixed, and each once: no
\* chain of fixes and runs goes on by itself.
THEOREM NoLoop == Spec => []NeverLoopsBack
<1>1. Chained => NeverLoopsBack
  <2> SUFFICES ASSUME Chained PROVE NeverLoopsBack
    OBVIOUS
  <2>1. ASSUME NEW p \in Pids, SentByItself(p)
        PROVE  WantedFix(cmd[p].of)
    BY <2>1 DEF Chained, SentOnce
  <2>2. ASSUME NEW p \in Pids, call[p].pc # "idle", call[p].then = "auto"
        PROVE  WantedFix(call[p].at)
    BY <2>2 DEF Chained, WaitersAreRight, InHand
  <2> QED
    BY <2>1, <2>2 DEF NeverLoopsBack, Sent, WantedFix, Chained, SentOnce
<1> QED
  BY <1>1, ChainHolds, PTL
=============================================================================
