------------------------------ MODULE FixChain ------------------------------
(***************************************************************************)
(* What the workbench server starts by itself (tools/agent/jobs.py): a     *)
(* failed compile goes to the AI agent (auto_fix), the failures of a run   *)
(* go there when a person presses Fix Failures (run_ask), the failed run   *)
(* is made again once that fix has passed its check (rerun_after_fix), and *)
(* a convert is followed by its compile check (check_after_convert).       *)
(*                                                                         *)
(* A request of the page and the waiter of a command that ended are the    *)
(* threads that do this. They talk through files beside the jobs: the      *)
(* run's result, the record of the re-run that waits (RERUN_RECORD), the   *)
(* pointer to it in the job of the fix (RERUN_FROM). How start() admits a  *)
(* command is JobRunner's; every command here is of EXCLUSIVE, so one runs *)
(* at a time, but the next may start before the waiter of the last is done.*)
(***************************************************************************)
EXTENDS Naturals

CONSTANTS
  Jobs,          \* jobs a run is made in
  FixJob,        \* whose Ask AI Agent a run's failures go to (classify): run's job -> job
  Clickers,      \* HTTP handler threads
  NoJob,
  Pressed,       \* the commands a person starts: <<job, runnable, "fix by itself">>
  MaxCommands,   \* bound: commands ever started
  MaxRestarts    \* bound: restarts of the server

ASSUME FixChainAssumption ==
  /\ FixJob \in [Jobs -> Jobs]
  /\ NoJob \notin Jobs
  /\ Pressed \subseteq Jobs \X {"mvn-test", "mvn-compile", "agent-followup", "convert"} \X BOOLEAN
  /\ MaxCommands \in Nat /\ MaxRestarts \in Nat
  /\ Clickers \cap (1..MaxCommands) = {}

Pids == 1..MaxCommands
Threads == Clickers \cup Pids      \* Pids: the waiter of each command
Runs == {"mvn-test", "mvn-compile"}
Fixes == {"agent-followup", "convert-fix"}        \* of RERUN_AFTER
Runnables == Runs \cup Fixes \cup {"convert"}

VARIABLES
  started,   \* commands so far; the number is the command's, and its run's time
  cmd,       \* the commands: [job, runnable, by, auto, of, cause, phase, rc, left]
  call,      \* what each thread is doing
  result,    \* mvnrun-result.json of each job
  record,    \* RERUN_RECORD of each run's job
  from,      \* RERUN_FROM of each fix's job: [run, runnable]
  autoSent,  \* AUTO_FIX_FILE: [at, sent]
  checked,   \* CONVERT_CHECK: "none", "started" or "said" why not
  review,    \* the state of the job's change ("none": also rejected, verify-failed)
  restarts

vars == <<started, cmd, call, result, record, from, autoSent, checked, review, restarts>>
files == <<result, record, from, autoSent, checked>>

NoResult == [at |-> 0, what |-> "mvn-test", failed |-> "nothing", auto |-> FALSE, way |-> "none"]
NoRecord == [state |-> "none", at |-> 0, fix |-> NoJob, again |-> "mvn-test", why |-> "none"]
NoPointer == [run |-> NoJob, runnable |-> "none"]
Unborn == [job |-> NoJob, runnable |-> "convert", by |-> "person", auto |-> FALSE,
           of |-> 0, cause |-> 0, phase |-> "unborn", rc |-> "none", left |-> 0]

\* A call of start(): for whom (then), and what run_ask or rerun_after_fix
\* has in its hands meanwhile.
Quiet == [pc |-> "idle", then |-> "nothing", job |-> NoJob, runnable |-> "convert",
          auto |-> FALSE, run |-> NoJob, at |-> 0, again |-> "mvn-test", why |-> "none", since |-> 0]

\* A thread that begins when `started` commands have been started.
Begun == [Quiet EXCEPT !.since = started]

Init ==
  /\ started = 0
  /\ cmd = [p \in Pids |-> Unborn]
  /\ call = [t \in Threads |-> Quiet]
  /\ result = [j \in Jobs |-> NoResult]
  /\ record = [j \in Jobs |-> NoRecord]
  /\ from = [j \in Jobs |-> NoPointer]
  /\ autoSent = [j \in Jobs |-> [at |-> 0, sent |-> FALSE]]
  /\ checked = [j \in Jobs |-> "none"]
  /\ review = [j \in Jobs |-> "none"]
  /\ restarts = 0

\* running_now(): the process has not ended, whatever its waiter still does.
Nothing == \A p \in Pids : cmd[p].phase # "running"

By(t) == IF t \in Pids THEN "server" ELSE "person"

-----------------------------------------------------------------------------
(* start(), by whichever thread *)

\* clear_result: done before the slot is asked for.
Cleared(j, r) == IF r \in Runs THEN [result EXCEPT ![j] = NoResult] ELSE result

\* A person presses Compile or Run (with or without "fix by itself"), Ask AI
\* Agent, or Convert.
Click(c, j, r, auto) ==
  /\ call[c] = Quiet /\ <<j, r, auto>> \in Pressed
  /\ result' = Cleared(j, r)
  /\ call' = [call EXCEPT ![c] = [Begun EXCEPT !.pc = "admit", !.job = j, !.runnable = r, !.auto = auto]]
  /\ UNCHANGED <<started, cmd, record, from, autoSent, checked, review, restarts>>

\* What a thread does once start() has returned.
After(c) ==
  CASE c.then = "again" -> [c EXCEPT !.pc = "record"]
    [] c.then = "auto"  -> [c EXCEPT !.pc = "sent"]
    [] c.then = "check" -> [c EXCEPT !.pc = "checked"]
    [] OTHER            -> Quiet

\* ...and once it has raised.
AfterRefusal(c) ==
  CASE c.then = "again" -> [c EXCEPT !.pc = "record", !.why = "refused"]
    [] c.then = "check" -> [c EXCEPT !.pc = "checked", !.why = "refused"]
    [] c.then \in {"ask", "auto"} -> [c EXCEPT !.pc = "forget"]
    [] OTHER            -> Quiet

\* The command never leaves the placeholder it was admitted with.
MadeAPlaceholder(t, c) ==
  [job |-> c.job, runnable |-> c.runnable, by |-> By(t), auto |-> c.auto, of |-> c.at,
   cause |-> IF t \in Pids THEN t ELSE 0, phase |-> "starting", rc |-> "none", left |-> 0]

\* The command as start() makes it; cause: the command whose waiter started it.
Made(t, c) ==
  [job |-> c.job, runnable |-> c.runnable, by |-> By(t), auto |-> c.auto, of |-> c.at,
   cause |-> IF t \in Pids THEN t ELSE 0, phase |-> "running", rc |-> "none", left |-> 0]

Admit(t) ==
  /\ call[t].pc = "admit" /\ Nothing /\ started < MaxCommands
  /\ started' = started + 1
  /\ cmd' = [cmd EXCEPT ![started + 1] = Made(t, call[t])]
  /\ checked' = IF call[t].runnable = "convert" THEN [checked EXCEPT ![call[t].job] = "none"] ELSE checked
  /\ call' = [call EXCEPT ![t] = After(call[t])]
  /\ UNCHANGED <<result, record, from, autoSent, review, restarts>>

\* Another command runs, the workflow gate says no, or Popen raised.
Turned(t) ==
  /\ call[t].pc = "admit"
  /\ call' = [call EXCEPT ![t] = AfterRefusal(call[t])]
  /\ UNCHANGED <<started, cmd, files, review, restarts>>

-----------------------------------------------------------------------------
(* The commands *)

Waits(p) == cmd[p].phase = "ended" /\ call[p] = Quiet

\* A thread takes its few steps before a command that was started meanwhile
\* (Maven, the converter, the agent) has ended. Only the waiter of a test run
\* may be long: it first compares the failures with the last run's.
Outlived(p) ==
  \A t \in Threads :
    /\ call[t] # Quiet => call[t].since >= p
    /\ t \in Pids => (Waits(t) => cmd[t].runnable = "mvn-test" \/ cmd[t].left >= p)

\* A command that ends, after `started` commands were.
Over(p, rc) == [cmd EXCEPT ![p] = [cmd[p] EXCEPT !.phase = "ended", !.rc = rc, !.left = started]]

\* A compile or a test run ends: what failed, and where its failures would go
\* (classify: the job's own change, convert-fix, or nowhere).
RunEnds(p) ==
  /\ cmd[p].phase = "running" /\ Outlived(p) /\ cmd[p].runnable \in Runs
  /\ \E failed \in {"nothing", "errors"} \cup (IF cmd[p].runnable = "mvn-test" THEN {"tests"} ELSE {}) :
     \E way \in (CASE failed = "nothing" -> {"none"} [] failed = "tests" -> {"none", "agent-followup"}
                   [] OTHER -> {"none"} \cup Fixes) :
       /\ result' = [result EXCEPT ![cmd[p].job] = [at |-> p, what |-> cmd[p].runnable,
                       failed |-> failed, auto |-> cmd[p].auto, way |-> way]]
       /\ cmd' = Over(p, IF failed = "nothing" THEN "ok" ELSE "fail")
  /\ UNCHANGED <<started, call, record, from, autoSent, checked, review, restarts>>

\* Stopped, or refused before it ran anything: no result.
RunStopped(p) ==
  /\ cmd[p].phase = "running" /\ Outlived(p) /\ cmd[p].runnable \in Runs
  /\ cmd' = Over(p, "stopped")
  /\ UNCHANGED <<started, call, files, review, restarts>>

\* The follow-up's change, checked or not; a change that is approved or not
\* finished refuses it (cmd_ask).
FollowupEnds(p) ==
  /\ cmd[p].phase = "running" /\ Outlived(p) /\ cmd[p].runnable = "agent-followup"
  /\ \E rc \in {"ok", "fail"} : \E state \in {"none", "pending-review"} :
       /\ cmd' = Over(p, IF review[cmd[p].job] \in {"pushed", "generating"} THEN "fail" ELSE rc)
       /\ review' = IF review[cmd[p].job] \in {"pushed", "generating"} THEN review
                    ELSE [review EXCEPT ![cmd[p].job] = state]
  /\ UNCHANGED <<started, call, files, restarts>>

ConvertEnds(p) ==
  /\ cmd[p].phase = "running" /\ Outlived(p) /\ cmd[p].runnable \in {"convert", "convert-fix"}
  /\ \E rc \in {"ok", "fail"} : cmd' = Over(p, rc)
  /\ UNCHANGED <<started, call, files, review, restarts>>

\* Approve & push, and Discard; neither runs beside another command.
Settled(j) ==
  /\ Nothing
  /\ \/ review[j] = "pending-review" /\ review' = [review EXCEPT ![j] = "pushed"]
     \/ review[j] # "none" /\ review' = [review EXCEPT ![j] = "none"]
  /\ UNCHANGED <<started, cmd, call, files, restarts>>

-----------------------------------------------------------------------------
(* run_ask: the failures of a run go to the AI agent *)

\* runask.blocked: a change that is approved, or not finished, takes no request.
Blocked(j) == review[j] \in {"pushed", "generating"}

Target(j, way) == IF way = "agent-followup" THEN FixJob[j] ELSE j

\* What run_ask has decided, from the result as it read it.
Asking(j, then) ==
  LET r == result[j] IN
    [Begun EXCEPT !.pc = "note", !.then = then, !.job = Target(j, r.way), !.runnable = r.way,
       !.run = j, !.at = r.at, !.again = r.what]

MayAsk(j) ==
  /\ result[j].way \in Fixes
  /\ ~(result[j].way = "agent-followup" /\ Blocked(FixJob[j]))
  /\ Nothing

\* A person presses Fix Failures.
Ask(c, j) ==
  /\ call[c] = Quiet /\ MayAsk(j)
  /\ call' = [call EXCEPT ![c] = Asking(j, "ask")]
  /\ UNCHANGED <<started, cmd, files, review, restarts>>

\* _rerun_note: what is to run again, and, in the job of the fix, for which run.
Note(t) ==
  /\ call[t].pc = "note"
  /\ record' = [record EXCEPT ![call[t].run] =
                  [state |-> "waiting", at |-> call[t].at, fix |-> call[t].job,
                   again |-> call[t].again, why |-> "none"]]
  /\ from' = [from EXCEPT ![call[t].job] = [run |-> call[t].run, runnable |-> call[t].runnable]]
  /\ call' = [call EXCEPT ![t].pc = "admit"]
  /\ UNCHANGED <<started, cmd, result, autoSent, checked, review, restarts>>

\* _rerun_forget: the fix was not let in.
Forget(t) ==
  /\ call[t].pc = "forget"
  /\ IF record[call[t].run].fix = call[t].job
     THEN /\ record' = [record EXCEPT ![call[t].run] = NoRecord]
          /\ from' = [from EXCEPT ![call[t].job] = NoPointer]
     ELSE UNCHANGED <<record, from>>
  /\ call' = [call EXCEPT ![t] = IF call[t].then = "auto"
                                 THEN [call[t] EXCEPT !.pc = "sent", !.why = "refused"] ELSE Quiet]
  /\ UNCHANGED <<started, cmd, result, autoSent, checked, review, restarts>>

-----------------------------------------------------------------------------
(* The waiter of a command that ended *)

\* Its last act: the command's status is done or failed.
Reported(p) == cmd' = [cmd EXCEPT ![p] = [cmd[p] EXCEPT !.phase = "reported", !.left = 0]]

\* auto_fix asks only for a compile that failed, of a run that asked for it.
WantsAutoFix(p) == result[cmd[p].job].auto /\ result[cmd[p].job].failed = "errors"

AutoAsks(p) ==
  /\ Waits(p) /\ cmd[p].runnable \in Runs /\ cmd[p].rc # "ok" /\ WantsAutoFix(p)
  /\ MayAsk(cmd[p].job)
  /\ call' = [call EXCEPT ![p] = Asking(cmd[p].job, "auto")]
  /\ UNCHANGED <<started, cmd, files, review, restarts>>

\* Nothing to send, nowhere to send it, or (it is said) a change in the way.
AutoAsksNothing(p) ==
  /\ Waits(p) /\ cmd[p].runnable \in Runs
  /\ ~(cmd[p].rc # "ok" /\ WantsAutoFix(p) /\ MayAsk(cmd[p].job))
  /\ autoSent' = IF cmd[p].rc # "ok" /\ WantsAutoFix(p) /\ result[cmd[p].job].way # "none"
                 THEN [autoSent EXCEPT ![cmd[p].job] = [at |-> result[cmd[p].job].at, sent |-> FALSE]]
                 ELSE autoSent
  /\ Reported(p)
  /\ UNCHANGED <<started, call, result, record, from, checked, review, restarts>>

AutoSent(p) ==
  /\ call[p].pc = "sent"
  /\ autoSent' = [autoSent EXCEPT ![call[p].run] = [at |-> call[p].at, sent |-> call[p].why = "none"]]
  /\ call' = [call EXCEPT ![p] = Quiet]
  /\ Reported(p)
  /\ UNCHANGED <<started, result, record, from, checked, review, restarts>>

\* The record this fix was made for, if it was: the pointer is of this
\* command and the record still waits for this job.
Pointed(p) == from[cmd[p].job].run # NoJob /\ from[cmd[p].job].runnable = cmd[p].runnable
IsItsFix(p, rec) == rec.state = "waiting" /\ rec.fix = cmd[p].job

\* The same, whether or not the fix passed its check.
WhyNotUnchecked(p, run, rec) ==
  CASE cmd[p].runnable # "convert-fix" /\ review[cmd[p].job] # "pending-review" -> "no change"
    [] result[run].at # rec.at -> "by hand"
    [] OTHER -> "none"

\* Why the run is not made again, or "none".
WhyNot(p, run, rec) ==
  CASE cmd[p].rc # "ok" -> "not checked"
    [] cmd[p].runnable # "convert-fix" /\ review[cmd[p].job] # "pending-review" -> "no change"
    [] result[run].at # rec.at -> "by hand"
    [] OTHER -> "none"

\* The run is made again with the automatic fix of the first.
AgainWithAutoFix(run, rec, why) ==
  [Begun EXCEPT !.pc = IF why = "none" THEN "admit" ELSE "record", !.then = "again", !.job = run,
     !.runnable = rec.again, !.auto = TRUE, !.run = run, !.at = rec.at, !.again = rec.again, !.why = why]

\* "No auto-fix on the re-run".
Again(run, rec, why) ==
  [Begun EXCEPT !.pc = IF why = "none" THEN "admit" ELSE "record", !.then = "again", !.job = run,
     !.runnable = rec.again, !.run = run, !.at = rec.at, !.again = rec.again, !.why = why]

\* rerun_after_fix, into start(); the pointer is taken away first.
LooksBack(p) ==
  /\ Waits(p) /\ cmd[p].runnable \in Fixes /\ Pointed(p)
  /\ from' = [from EXCEPT ![cmd[p].job] = NoPointer]
  /\ LET run == from[cmd[p].job].run
         rec == record[run]
         why == WhyNot(p, run, rec)
     IN IF IsItsFix(p, rec)
        THEN /\ result' = IF why = "none" THEN Cleared(run, rec.again) ELSE result
             /\ call' = [call EXCEPT ![p] = Again(run, rec, why)]
             /\ UNCHANGED cmd
        ELSE Reported(p) /\ UNCHANGED <<call, result>>
  /\ UNCHANGED <<started, record, autoSent, checked, review, restarts>>

NotForARun(p) ==
  /\ Waits(p) /\ cmd[p].runnable \in Fixes /\ ~Pointed(p)
  /\ Reported(p)
  /\ UNCHANGED <<started, call, files, review, restarts>>

\* What came of it is not written down.
RecordsNothing(p) ==
  /\ call[p].pc = "record"
  /\ call' = [call EXCEPT ![p] = Quiet]
  /\ Reported(p)
  /\ UNCHANGED <<started, files, review, restarts>>

\* The record is written back as it was read, with what came of it.
RecordsAgain(p) ==
  /\ call[p].pc = "record"
  /\ record' = [record EXCEPT ![call[p].run] =
                  [state |-> IF call[p].why = "none" THEN "started" ELSE "skipped", at |-> call[p].at,
                   fix |-> cmd[p].job, again |-> call[p].again, why |-> call[p].why]]
  /\ call' = [call EXCEPT ![p] = Quiet]
  /\ Reported(p)
  /\ UNCHANGED <<started, result, from, autoSent, checked, review, restarts>>

\* Its compile check, or why there is none.
Checking(j, why) ==
  [Begun EXCEPT !.pc = IF why = "none" THEN "admit" ELSE "checked", !.then = "check",
     !.job = j, !.runnable = "convert-fix", !.why = why]

\* check_after_convert: after a convert that finished and wrote suites.
ConvertEnded(p) ==
  /\ Waits(p) /\ cmd[p].runnable = "convert"
  /\ \E why \in (IF cmd[p].rc = "ok" THEN {"none", "no suite"} ELSE {"not finished"}) :
       call' = [call EXCEPT ![p] = Checking(cmd[p].job, why)]
  /\ UNCHANGED <<started, cmd, files, review, restarts>>

\* ...nor here.
ConvertUnchecked(p) ==
  /\ call[p].pc = "checked"
  /\ call' = [call EXCEPT ![p] = Quiet]
  /\ Reported(p)
  /\ UNCHANGED <<started, files, review, restarts>>

ConvertChecked(p) ==
  /\ call[p].pc = "checked"
  /\ checked' = [checked EXCEPT ![cmd[p].job] = IF call[p].why = "none" THEN "started" ELSE "said"]
  /\ call' = [call EXCEPT ![p] = Quiet]
  /\ Reported(p)
  /\ UNCHANGED <<started, result, record, from, autoSent, review, restarts>>

-----------------------------------------------------------------------------
\* The workbench is stopped with what it started, and started again: the
\* threads are gone, no waiter reports a command that was under way.
Restart ==
  /\ restarts < MaxRestarts
  /\ restarts' = restarts + 1
  /\ call' = [t \in Threads |-> Quiet]
  /\ cmd' = [p \in Pids |-> IF cmd[p].phase \in {"running", "ended"}
                            THEN [cmd[p] EXCEPT !.phase = "lost", !.left = 0] ELSE cmd[p]]
  /\ review' = [j \in Jobs |-> IF \E p \in Pids : cmd[p].phase = "running" /\ cmd[p].job = j
                                                  /\ cmd[p].runnable = "agent-followup"
                               THEN "generating" ELSE review[j]]
  /\ UNCHANGED <<started, files>>

StartStep(t) == Admit(t) \/ Turned(t) \/ Note(t) \/ Forget(t)
Ends(p) == RunEnds(p) \/ RunStopped(p) \/ FollowupEnds(p) \/ ConvertEnds(p)
WaiterStep(p) ==
  \/ AutoAsks(p) \/ AutoAsksNothing(p) \/ AutoSent(p)
  \/ LooksBack(p) \/ NotForARun(p) \/ RecordsAgain(p)
  \/ ConvertEnded(p) \/ ConvertChecked(p)

Next ==
  \/ \E c \in Clickers, k \in Pressed : Click(c, k[1], k[2], k[3])
  \/ \E c \in Clickers, j \in Jobs : Ask(c, j)
  \/ \E t \in Threads : StartStep(t)
  \/ \E p \in Pids : Ends(p) \/ WaiterStep(p)
  \/ \E j \in Jobs : Settled(j)
  \/ Restart

Spec == Init /\ [][Next]_vars

\* The server's threads are scheduled; a command ends (its own time limits).
FairSpec ==
  /\ Spec
  /\ \A c \in Clickers : WF_vars(StartStep(c))
  /\ \A p \in Pids : WF_vars(Ends(p) \/ StartStep(p) \/ WaiterStep(p))

-----------------------------------------------------------------------------
(* Properties *)

WhyType == {"none", "not checked", "no change", "by hand", "refused", "no suite", "not finished"}
ResultType == [at : 0..MaxCommands, what : Runs, failed : {"nothing", "tests", "errors"},
               auto : BOOLEAN, way : {"none"} \cup Fixes]
RecordType == [state : {"none", "waiting", "started", "skipped"}, at : 0..MaxCommands,
               fix : Jobs \cup {NoJob}, again : Runs, why : WhyType]
PointerType == [run : Jobs \cup {NoJob}, runnable : {"none"} \cup Fixes]
CmdType == [job : Jobs \cup {NoJob}, runnable : Runnables, by : {"person", "server"}, auto : BOOLEAN,
            of : 0..MaxCommands, cause : 0..MaxCommands,
            phase : {"unborn", "running", "ended", "reported", "lost"}, rc : {"none", "ok", "fail", "stopped"},
            left : 0..MaxCommands]
CallType == [pc : {"idle", "admit", "note", "forget", "sent", "record", "checked"},
             then : {"nothing", "ask", "auto", "again", "check"}, job : Jobs \cup {NoJob},
             runnable : Runnables, auto : BOOLEAN, run : Jobs \cup {NoJob}, at : 0..MaxCommands,
             again : Runs, why : WhyType, since : 0..MaxCommands]

TypeOK ==
  /\ started \in 0..MaxCommands
  /\ cmd \in [Pids -> CmdType]
  /\ call \in [Threads -> CallType]
  /\ result \in [Jobs -> ResultType]
  /\ record \in [Jobs -> RecordType]
  /\ from \in [Jobs -> PointerType]
  /\ autoSent \in [Jobs -> [at : 0..MaxCommands, sent : BOOLEAN]]
  /\ checked \in [Jobs -> {"none", "started", "said"}]
  /\ review \in [Jobs -> {"none", "pending-review", "pushed", "generating"}]
  /\ restarts \in 0..MaxRestarts

Rerun(p) == cmd[p].cause # 0 /\ cmd[p].runnable \in Runs
SentByItself(p) == cmd[p].cause # 0 /\ cmd[p].of # 0 /\ cmd[p].runnable \in Fixes

\* rerun_after_fix: "the failed run is made again ... once the change passed
\* its check", and a run made by hand meanwhile is not run over. A re-run
\* repeats a run that failed, of the same job, from before the fix that
\* caused it; that fix passed; no other run of the job came to a result between.
RerunIsOfTheRunShown ==
  \A p \in Pids : Rerun(p) =>
    LET fix == cmd[p].cause
        run == cmd[p].of
    IN /\ fix < p /\ cmd[fix].rc = "ok" /\ cmd[fix].runnable \in Fixes
       /\ run \in 1..(fix - 1) /\ cmd[run].rc = "fail"
       /\ cmd[run].job = cmd[p].job /\ cmd[run].runnable = cmd[p].runnable
       /\ \A q \in (run + 1)..(fix - 1) :
            ~(cmd[q].job = cmd[p].job /\ cmd[q].runnable \in Runs /\ cmd[q].rc \in {"ok", "fail"})

\* What the server sends, or is sending, to the agent by itself: <<waiter, run>>.
Sent == {<<cmd[p].cause, cmd[p].of>> : p \in {p \in Pids : SentByItself(p)}}
        \cup {<<p, call[p].at>> : p \in {p \in Pids : call[p].pc # "idle" /\ call[p].then = "auto"}}

\* "what still fails waits for a person, never loops back to AI Agent": what
\* the server sends to the agent by itself answers a run that a person started
\* and asked it for, never a re-run of its own; and a run's end sends once.
NeverLoopsBack ==
  /\ \A s \in Sent : cmd[s[2]].by = "person" /\ cmd[s[2]].auto
  /\ \A p, q \in Pids : SentByItself(p) /\ SentByItself(q) /\ cmd[p].cause = cmd[q].cause => p = q

\* A record that says a re-run is coming is followed by what came of it,
\* while the server lives ("the page says the tests will run again").
WaitingIsSettled ==
  \A j \in Jobs : (record[j].state = "waiting") ~> (record[j].state # "waiting" \/ restarts > 0)

\* After a convert its compile check is started, or why not is kept.
ConvertIsFollowed ==
  \A j \in Jobs :
    (\E p \in Pids : cmd[p].runnable = "convert" /\ cmd[p].phase = "ended" /\ cmd[p].job = j)
      ~> (checked[j] # "none" \/ restarts > 0)

=============================================================================
