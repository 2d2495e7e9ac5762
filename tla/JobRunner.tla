------------------------------ MODULE JobRunner ------------------------------
(***************************************************************************)
(* The workbench server's command runner (tools/agent/jobs.py).            *)
(*                                                                         *)
(* A command is a <<job, runnable>> pair. A request thread runs start():   *)
(* it clears the command's result file, takes a slot of _RUNNING under     *)
(* _LOCK, announces "running" in the status file, spawns the process and   *)
(* registers it. A waiter thread per process runs the hooks after the      *)
(* exit, reports the outcome in the status file and forgets the Stop flag. *)
(* stop() looks the process up, flags the command in _STOPPED and kills.   *)
(* The server itself may be stopped (launch.py, with the processes it      *)
(* started) or die (the processes stay), and be started again.             *)
(***************************************************************************)
EXTENDS Naturals, FiniteSets

CONSTANTS
  Jobs,                 \* job ids
  WorkbenchJobs,        \* those named "workbench-<time>"
  Runnables,            \* the keys of RUNNABLES a run explores
  Exclusive,            \* EXCLUSIVE
  AgentRunnables,       \* AGENT_RUNNABLES
  WorkbenchRunnables,   \* WORKBENCH_RUNNABLES
  Files, NoFile, FileOf,\* RESULT_FILES: runnable -> result file (or NoFile)
  Requests, Stoppers,   \* HTTP handler threads inside start() / stop()
  MaxStarts,            \* bound: starts ever let in
  MaxDeaths             \* bound: times the server is stopped or dies

ASSUME JobRunnerAssumption ==
  /\ Jobs # {} /\ Runnables # {}
  /\ WorkbenchJobs \subseteq Jobs
  /\ Exclusive \subseteq Runnables
  /\ AgentRunnables \subseteq Runnables
  /\ WorkbenchRunnables \subseteq Runnables
  /\ NoFile \notin Files
  /\ FileOf \in [Runnables -> Files \cup {NoFile}]
  /\ MaxStarts \in Nat
  /\ MaxDeaths \in Nat

Keys == Jobs \X Runnables
Pids == 1..MaxStarts
NoPid == 0

\* What a slot of _RUNNING holds besides a process.
Empty == MaxStarts + 1        \* no entry
Starting == MaxStarts + 2     \* the _Starting placeholder

VARIABLES
  slot,      \* _RUNNING: key -> Empty, Starting or a pid
  status,    \* <runnable>.status.json: key -> [state, by]
  result,    \* result files: <<job, file>> -> the pid that wrote it, or NoPid
  stopped,   \* _STOPPED: commands a person stopped
  starts,    \* how many starts were let in: each one's number is its process's
  proc,      \* the processes: pid -> [key, alive, rc]
  waiter,    \* the waiter thread of each process
  req,       \* start() threads: [pc, key, pid]
  stopper,   \* stop() threads: [pc, key, target]
  up,        \* the server answers
  deaths     \* how often it was stopped or died

vars == <<slot, status, result, stopped, starts, proc, waiter, req, stopper,
          up, deaths>>

IsWorkbench(k) == k[1] \in WorkbenchJobs
Conflicts(k) == k[2] \in Exclusive
ChangesWorkbench(k) == IsWorkbench(k) /\ k[2] \in AgentRunnables

\* workflow_gate: a workbench job runs its own commands only.
Startable == {k \in Keys : IsWorkbench(k) => k[2] \in WorkbenchRunnables}

Idle == [pc |-> "idle", key |-> CHOOSE k \in Keys : TRUE, pid |-> NoPid]
Quiet == [pc |-> "idle", key |-> CHOOSE k \in Keys : TRUE, target |-> Empty]
Unborn == [key |-> CHOOSE k \in Keys : TRUE, alive |-> FALSE, rc |-> "none"]

\* The same, had the placeholder not counted as running.
PollsProcessOnly(v) == v \in Pids /\ proc[v].alive

\* A process that has ended.
Ended(q, rc) == [q EXCEPT !.alive = FALSE, !.rc = rc]

\* Popen.poll() is None: a placeholder, or a process that has not ended.
Polls(v) == v = Starting \/ (v \in Pids /\ proc[v].alive)
Running == {k \in Keys : Polls(slot[k])}

Init ==
  /\ slot = [k \in Keys |-> Empty]
  /\ status = [k \in Keys |-> [state |-> "none", by |-> NoPid]]
  /\ result = [jf \in Jobs \X Files |-> NoPid]
  /\ stopped = {}
  /\ starts = 0
  /\ proc = [p \in Pids |-> Unborn]
  /\ waiter = [p \in Pids |-> "none"]
  /\ req = [r \in Requests |-> Idle]
  /\ stopper = [s \in Stoppers |-> Quiet]
  /\ up = TRUE
  /\ deaths = 0

-----------------------------------------------------------------------------
(* start() *)

\* Everything before the lock; clear_result removes the file the command
\* writes, whether or not the command is then let in.
Request(r, k) ==
  /\ up /\ req[r].pc = "idle" /\ k \in Startable
  /\ req' = [req EXCEPT ![r] = [pc |-> "reserve", key |-> k, pid |-> NoPid]]
  /\ result' = [jf \in Jobs \X Files |->
                  IF jf = <<k[1], FileOf[k[2]]>> THEN NoPid ELSE result[jf]]
  /\ UNCHANGED <<slot, status, stopped, starts, proc, waiter, stopper, up, deaths>>

\* The checks made under _LOCK, with one of them forgotten.
MayRunBesideExclusive(k) ==
  /\ k \notin Running
  /\ ChangesWorkbench(k) => Running = {}
  /\ ~IsWorkbench(k) => \A o \in Running : ~IsWorkbench(o)

MayRunBesideBench(k) ==
  /\ k \notin Running
  /\ Conflicts(k) => \A o \in Running : ~Conflicts(o)
  /\ ChangesWorkbench(k) => Running = {}

\* The checks made under _LOCK.
MayRun(k) ==
  /\ k \notin Running
  /\ Conflicts(k) => \A o \in Running : ~Conflicts(o)
  /\ ChangesWorkbench(k) => Running = {}
  /\ ~IsWorkbench(k) => \A o \in Running : ~IsWorkbench(o)

Reserve(r) ==
  /\ req[r].pc = "reserve" /\ MayRun(req[r].key) /\ starts < MaxStarts
  /\ starts' = starts + 1
  /\ slot' = [slot EXCEPT ![req[r].key] = Starting]
  /\ req' = [req EXCEPT ![r].pc = "announce", ![r].pid = starts + 1]
  /\ UNCHANGED <<status, result, stopped, proc, waiter, stopper, up, deaths>>

Refuse(r) ==
  /\ req[r].pc = "reserve" /\ ~MayRun(req[r].key)
  /\ req' = [req EXCEPT ![r] = Idle]
  /\ UNCHANGED <<slot, status, result, stopped, starts, proc, waiter, stopper, up, deaths>>

Announce(r) ==
  /\ req[r].pc = "announce"
  /\ status' = [status EXCEPT ![req[r].key] = [state |-> "running", by |-> NoPid]]
  /\ req' = [req EXCEPT ![r].pc = "spawn"]
  /\ UNCHANGED <<slot, result, stopped, starts, proc, waiter, stopper, up, deaths>>

Spawn(r) ==
  /\ req[r].pc = "spawn"
  /\ proc' = [proc EXCEPT ![req[r].pid] =
                [key |-> req[r].key, alive |-> TRUE, rc |-> "none"]]
  /\ req' = [req EXCEPT ![r].pc = "register"]
  /\ UNCHANGED <<slot, status, result, stopped, starts, waiter, stopper, up, deaths>>

\* Popen raised: the slot is given back under the lock, then the status says so.
SpawnFails(r) ==
  /\ req[r].pc = "spawn"
  /\ slot' = [slot EXCEPT ![req[r].key] = Empty]
  /\ req' = [req EXCEPT ![r].pc = "failed"]
  /\ UNCHANGED <<status, result, stopped, starts, proc, waiter, stopper, up, deaths>>

\* The page would poll "running" forever.
ReportFailedSilently(r) ==
  /\ req[r].pc = "failed"
  /\ req' = [req EXCEPT ![r] = Idle]
  /\ UNCHANGED <<slot, status, result, stopped, starts, proc, waiter, stopper, up, deaths>>

ReportFailed(r) ==
  /\ req[r].pc = "failed"
  /\ status' = [status EXCEPT ![req[r].key] = [state |-> "failed", by |-> NoPid]]
  /\ req' = [req EXCEPT ![r] = Idle]
  /\ UNCHANGED <<slot, result, stopped, starts, proc, waiter, stopper, up, deaths>>

Register(r) ==
  /\ req[r].pc = "register"
  /\ slot' = [slot EXCEPT ![req[r].key] = req[r].pid]
  /\ waiter' = [waiter EXCEPT ![req[r].pid] = "waiting"]
  /\ req' = [req EXCEPT ![r] = Idle]
  /\ UNCHANGED <<status, result, stopped, starts, proc, stopper, up, deaths>>

-----------------------------------------------------------------------------
(* The processes, and the waiter thread of each *)

\* It ends: exit code 0, or another ("fail" is 1). Its result file, if it has
\* one and gets so far, is written last.
Exit(p, rc) ==
  /\ proc[p].alive /\ rc \in {"ok", "fail"}
  /\ proc' = [proc EXCEPT ![p] = Ended(proc[p], rc)]
  /\ \E w \in {FALSE} \cup {FileOf[proc[p].key[2]] # NoFile} :
       result' = IF w THEN [result EXCEPT ![<<proc[p].key[1], FileOf[proc[p].key[2]]>>] = p]
                      ELSE result
  /\ UNCHANGED <<slot, status, stopped, starts, waiter, req, stopper, up, deaths>>

\* proc.wait() returns; what the hooks start comes as a Request of its own.
BeginHooks(p) ==
  /\ waiter[p] = "waiting" /\ ~proc[p].alive
  /\ waiter' = [waiter EXCEPT ![p] = "hooks"]
  /\ UNCHANGED <<slot, status, result, stopped, starts, proc, req, stopper, up, deaths>>

\* The exit code itself in place of its meaning.
OutcomeIsTheCode(rc) == rc

Outcome(rc) == IF rc = "ok" THEN "done" ELSE "failed"

Report(p) ==
  /\ waiter[p] = "hooks"
  /\ status' = [status EXCEPT ![proc[p].key] =
                  [state |-> Outcome(proc[p].rc), by |-> p]]
  /\ waiter' = [waiter EXCEPT ![p] = IF proc[p].rc = "ok" THEN "none" ELSE "noting"]
  /\ UNCHANGED <<slot, result, stopped, starts, proc, req, stopper, up, deaths>>

\* Only after a failure: the job's record says whether a person stopped it,
\* and the flag is forgotten.
NoteFailure(p) ==
  /\ waiter[p] = "noting"
  /\ stopped' = stopped \ {proc[p].key}
  /\ waiter' = [waiter EXCEPT ![p] = "none"]
  /\ UNCHANGED <<slot, status, result, starts, proc, req, stopper, up, deaths>>

-----------------------------------------------------------------------------
(* stop() *)

StopLooks(s, k) ==
  /\ up /\ stopper[s].pc = "idle" /\ Polls(slot[k])
  /\ stopper' = [stopper EXCEPT ![s] = [pc |-> "flag", key |-> k, target |-> slot[k]]]
  /\ UNCHANGED <<slot, status, result, stopped, starts, proc, waiter, req, up, deaths>>

StopFlags(s) ==
  /\ stopper[s].pc = "flag"
  /\ stopped' = stopped \cup {stopper[s].key}
  /\ stopper' = [stopper EXCEPT ![s].pc = "kill"]
  /\ UNCHANGED <<slot, status, result, starts, proc, waiter, req, up, deaths>>

\* The placeholder has no pid: AttributeError, nothing is killed. A process
\* ends by the signal, or with code 1 (taskkill).
StopKills(s) ==
  /\ stopper[s].pc = "kill"
  /\ stopper' = [stopper EXCEPT ![s] = Quiet]
  /\ LET p == stopper[s].target IN
       IF p \in Pids
       THEN \E rc \in {"killed", "fail"} :
              proc' = IF proc[p].alive
                      THEN [proc EXCEPT ![p] = Ended(proc[p], rc)]
                      ELSE proc
       ELSE UNCHANGED proc
  /\ UNCHANGED <<slot, status, result, stopped, starts, waiter, req, up, deaths>>

-----------------------------------------------------------------------------
(* The server *)

\* What only the server's memory held is gone with it.
Forget ==
  /\ up /\ deaths < MaxDeaths
  /\ up' = FALSE
  /\ deaths' = deaths + 1
  /\ slot' = [k \in Keys |-> Empty]
  /\ stopped' = {}
  /\ waiter' = [p \in Pids |-> "none"]
  /\ req' = [r \in Requests |-> Idle]
  /\ stopper' = [s \in Stoppers |-> Quiet]
  /\ UNCHANGED <<status, result, starts>>

Dies == Forget /\ UNCHANGED proc

\* launch.py stop: the server's process group goes with it (taskkill /T).
StopWorkbench ==
  /\ Forget
  /\ proc' = [p \in Pids |-> IF proc[p].alive
                             THEN Ended(proc[p], "killed")
                             ELSE proc[p]]

StartWorkbench ==
  /\ ~up
  /\ up' = TRUE
  /\ UNCHANGED <<slot, status, result, stopped, starts, proc, waiter, req, stopper, deaths>>

-----------------------------------------------------------------------------
StartStep(r) ==
  \/ Reserve(r) \/ Refuse(r) \/ Announce(r) \/ Spawn(r)
  \/ SpawnFails(r) \/ ReportFailed(r) \/ Register(r)

WaiterStep(p) == BeginHooks(p) \/ Report(p) \/ NoteFailure(p)

Next ==
  \/ \E r \in Requests : \E k \in Keys : Request(r, k)
  \/ \E r \in Requests : StartStep(r)
  \/ \E p \in Pids : \E rc \in {"ok", "fail"} : Exit(p, rc)
  \/ \E p \in Pids : WaiterStep(p)
  \/ \E s \in Stoppers : \E k \in Keys : StopLooks(s, k)
  \/ \E s \in Stoppers : StopFlags(s) \/ StopKills(s)
  \/ Dies \/ StopWorkbench \/ StartWorkbench

Spec == Init /\ [][Next]_vars

\* Threads the interpreter schedules; commands that end by their own limits.
FairSpec ==
  /\ Spec
  /\ \A r \in Requests : WF_vars(StartStep(r))
  /\ \A p \in Pids : WF_vars(WaiterStep(p)) /\ WF_vars(\E rc \in {"ok", "fail"} : Exit(p, rc))
  /\ \A s \in Stoppers : WF_vars(StopFlags(s) \/ StopKills(s))

-----------------------------------------------------------------------------
(* Properties *)

ProcType == [key : Keys, alive : BOOLEAN, rc : {"none", "ok", "fail", "killed"}]
ReqType == [pc : {"idle", "reserve", "announce", "spawn", "failed", "register"},
            key : Keys, pid : {NoPid} \cup Pids]
StopperType == [pc : {"idle", "flag", "kill"}, key : Keys, target : Pids \cup {Empty, Starting}]
StatusType == [state : {"none", "running", "done", "failed"}, by : {NoPid} \cup Pids]

TypeOK ==
  /\ slot \in [Keys -> Pids \cup {Empty, Starting}]
  /\ status \in [Keys -> StatusType]
  /\ result \in [Jobs \X Files -> {NoPid} \cup Pids]
  /\ stopped \subseteq Keys
  /\ starts \in 0..MaxStarts
  /\ proc \in [Pids -> ProcType]
  /\ waiter \in [Pids -> {"none", "waiting", "hooks", "noting"}]
  /\ req \in [Requests -> ReqType]
  /\ stopper \in [Stoppers -> StopperType]
  /\ up \in BOOLEAN
  /\ deaths \in 0..MaxDeaths

\* The processes this server started and has not seen end.
Registering(p) == \E r \in Requests : req[r].pc = "register" /\ req[r].pid = p
Mine(p) == proc[p].alive /\ (waiter[p] = "waiting" \/ Registering(p))

\* Two processes of this server never run the same command of the same job,
\* whatever requests raced for the slot ("two converts into one output would
\* interleave their writes", start()).
OneRunnerPerKey ==
  \A p, q \in Pids : p # q /\ Mine(p) /\ Mine(q) => proc[p].key # proc[q].key

\* Two processes of this server are never both of EXCLUSIVE, the commands
\* that write or judge the working tree.
OneExclusive ==
  \A p, q \in Pids : p # q /\ Mine(p) /\ Mine(q)
    => ~(Conflicts(proc[p].key) /\ Conflicts(proc[q].key))

\* While a change to the workbench runs, whatever else runs is a read-only
\* command (review, question) of a workbench job: what start() guarantees.
WorkbenchUndisturbed ==
  \A p, q \in Pids : p # q /\ Mine(p) /\ Mine(q) /\ ChangesWorkbench(proc[p].key)
    => IsWorkbench(proc[q].key) /\ ~ChangesWorkbench(proc[q].key)

\* What start()'s checks keep apart, however two requests race for the lock, a
\* start fails, a command is stopped or the server is started anew.
RunsApart == OneRunnerPerKey /\ OneExclusive /\ WorkbenchUndisturbed

\* running_now() and stop() see every process this server has registered,
\* also when a second start of the command was refused or failed to spawn.
NothingRunsUnseen ==
  \A p \in Pids : Mine(p) /\ waiter[p] = "waiting" => slot[proc[p].key] = p

\* Why the above hold: a start past the lock holds its own slot and its own
\* number, a slot names a process of its own command, and what is running is
\* compatible. Inductive together with TypeOK (JobRunnerProofs).
LetIn(r) == req[r].pc \in {"announce", "spawn", "register"}

StartsHoldTheirSlots ==
  \A r \in Requests : LetIn(r) =>
    /\ slot[req[r].key] = Starting
    /\ req[r].pid \in 1..starts
    /\ waiter[req[r].pid] = "none"
    /\ req[r].pc # "register" => ~proc[req[r].pid].alive
    /\ req[r].pc = "register" => proc[req[r].pid].key = req[r].key
    /\ \A k \in Keys : slot[k] # req[r].pid

StartsAreApart ==
  \A r, t \in Requests : r # t /\ LetIn(r) /\ LetIn(t)
    => req[r].key # req[t].key /\ req[r].pid # req[t].pid

NumbersAreFresh ==
  /\ \A p \in Pids : p > starts => waiter[p] = "none" /\ ~proc[p].alive
  /\ \A k \in Keys : slot[k] \in Pids => slot[k] <= starts

SlotsNameTheirOwn ==
  /\ \A k \in Keys : slot[k] \in Pids => proc[slot[k]].key = k
  /\ \A p \in Pids : proc[p].alive /\ waiter[p] = "waiting" => slot[proc[p].key] = p

RunningIsCompatible ==
  \A k, o \in Running : k # o =>
    /\ ~(Conflicts(k) /\ Conflicts(o))
    /\ ChangesWorkbench(k) => IsWorkbench(o) /\ ~ChangesWorkbench(o)

SlotDiscipline ==
  StartsHoldTheirSlots /\ StartsAreApart /\ NumbersAreFresh /\ SlotsNameTheirOwn
  /\ RunningIsCompatible

\* Every run is reported, also one that could not be started: while the
\* server lives, a status of "running" does not stay.
EveryRunIsReported ==
  \A k \in Keys : (status[k].state = "running") ~> (status[k].state # "running" \/ deaths > 0)

\* The slots keep the promise of CommandSlots: what Polls() says is running
\* grows by one admitted command at a time, through every race of start(),
\* stop(), exits and deaths of the server.
Promised == INSTANCE CommandSlots WITH underWay <- Running
KeepsThePromise == Promised!Promise

=============================================================================
