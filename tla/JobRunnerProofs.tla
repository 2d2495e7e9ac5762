--------------------------- MODULE JobRunnerProofs ---------------------------
(***************************************************************************)
(* Theorems about JobRunner, for any sets of jobs, commands and threads:   *)
(* the types and the slot discipline (the inductive invariant), what it    *)
(* says of the processes, and that the slots implement CommandSlots.       *)
(***************************************************************************)
EXTENDS JobRunner, TLAPS

\* Commands, placeholders and processes are told apart by their numbers.
LEMMA Numbers ==
  /\ Empty \notin Pids /\ Starting \notin Pids /\ Empty # Starting /\ NoPid \notin Pids
  /\ \A n \in 0..MaxStarts : n < MaxStarts => n + 1 \in Pids /\ n + 1 \in 0..MaxStarts
  /\ \A n \in 0..MaxStarts : 1..n \subseteq Pids
  BY JobRunnerAssumption DEF Empty, Starting, Pids, NoPid

LEMMA KeysExist == (CHOOSE k \in Keys : TRUE) \in Keys
<1>1. PICK j \in Jobs, r \in Runnables : TRUE
  BY JobRunnerAssumption
<1>2. <<j, r>> \in Keys
  BY <1>1 DEF Keys
<1>3. \E k \in Keys : TRUE
  BY <1>2
<1> QED
  BY <1>3, Zenon

LEMMA IdleTyped ==
  Idle \in ReqType /\ Quiet \in StopperType /\ Unborn \in ProcType
  BY KeysExist DEF Idle, Quiet, Unborn, ReqType, StopperType, ProcType

\* What has ended is typed, and is not alive; nothing else of it changed.
LEMMA EndedTyped ==
  ASSUME TypeOK, NEW p \in Pids, NEW rc \in {"ok", "fail", "killed"}
  PROVE  /\ Ended(proc[p], rc) \in ProcType
         /\ ~Ended(proc[p], rc).alive /\ Ended(proc[p], rc).key = proc[p].key
<1>1. proc[p] \in ProcType
  BY DEF TypeOK
<1> QED
  BY <1>1 DEF Ended, ProcType

LEMMA DeathsCount == \A n \in 0..MaxDeaths : n < MaxDeaths => n + 1 \in 0..MaxDeaths
  BY JobRunnerAssumption

\* A thread not yet let in, or done, holds nothing.
LEMMA IdleHoldsNothing == Idle.pc = "idle" /\ Quiet.pc = "idle" /\ ~Unborn.alive
  BY DEF Idle, Quiet, Unborn

\* The starting state has the types and the discipline.
LEMMA InitDiscipline == Init => TypeOK /\ SlotDiscipline
<1> SUFFICES ASSUME Init PROVE TypeOK /\ SlotDiscipline
  OBVIOUS
<1>1. TypeOK
  <2>1. 0 \in 0..MaxStarts /\ 0 \in 0..MaxDeaths
    BY JobRunnerAssumption
  <2>2. [state |-> "none", by |-> NoPid] \in StatusType
    BY DEF StatusType
  <2>3. /\ status \in [Keys -> StatusType] /\ proc \in [Pids -> ProcType]
        /\ req \in [Requests -> ReqType] /\ stopper \in [Stoppers -> StopperType]
    BY <2>2, IdleTyped DEF Init
  <2> QED
    BY <2>1, <2>3 DEF Init, TypeOK
<1>2. SlotDiscipline
  BY IdleHoldsNothing, Numbers
  DEF Init, SlotDiscipline, StartsHoldTheirSlots, StartsAreApart, NumbersAreFresh,
      SlotsNameTheirOwn, RunningIsCompatible, Running, Polls, LetIn
<1> QED
  BY <1>1, <1>2

\* What the threads write of themselves, and a status.
LEMMA ThreadsTyped ==
  ASSUME TypeOK
  PROVE  /\ \A r \in Requests : \A c \in {"announce", "spawn", "failed", "register"} :
              [req EXCEPT ![r].pc = c] \in [Requests -> ReqType]
         /\ \A r \in Requests : \A p \in Pids :
              [req EXCEPT ![r].pc = "announce", ![r].pid = p] \in [Requests -> ReqType]
         /\ \A s \in Stoppers : [stopper EXCEPT ![s].pc = "kill"] \in [Stoppers -> StopperType]
         /\ \A r \in Requests : req[r].key \in Keys /\ req[r].pid \in {NoPid} \cup Pids
         /\ \A s \in Stoppers : stopper[s].key \in Keys
         /\ \A p \in Pids : proc[p].key \in Keys
         /\ \A st \in {"running", "done", "failed"} : \A p \in {NoPid} \cup Pids :
              [state |-> st, by |-> p] \in StatusType
<1>1. /\ req \in [Requests -> ReqType] /\ stopper \in [Stoppers -> StopperType]
      /\ proc \in [Pids -> ProcType]
  BY DEF TypeOK
<1>2. ASSUME NEW r \in Requests, NEW c \in {"announce", "spawn", "failed", "register"}
      PROVE  [req EXCEPT ![r].pc = c] \in [Requests -> ReqType]
  <2>1. req[r] \in ReqType
    BY <1>1
  <2>2. [req[r] EXCEPT !.pc = c] \in ReqType
    BY <2>1 DEF ReqType
  <2> QED
    BY <1>1, <2>2
<1>3. ASSUME NEW r \in Requests, NEW p \in Pids
      PROVE  [req EXCEPT ![r].pc = "announce", ![r].pid = p] \in [Requests -> ReqType]
  <2>1. req[r] \in ReqType
    BY <1>1
  <2>2. [req[r] EXCEPT !.pc = "announce", !.pid = p] \in ReqType
    BY <2>1 DEF ReqType
  <2>3. [req EXCEPT ![r].pc = "announce", ![r].pid = p]
          = [req EXCEPT ![r] = [req[r] EXCEPT !.pc = "announce", !.pid = p]]
    BY <1>1
  <2> QED
    BY <1>1, <2>2, <2>3
<1>4. ASSUME NEW s \in Stoppers
      PROVE  [stopper EXCEPT ![s].pc = "kill"] \in [Stoppers -> StopperType]
  <2>1. stopper[s] \in StopperType
    BY <1>1
  <2>2. [stopper[s] EXCEPT !.pc = "kill"] \in StopperType
    BY <2>1 DEF StopperType
  <2> QED
    BY <1>1, <2>2
<1>5. \A r \in Requests : req[r].key \in Keys /\ req[r].pid \in {NoPid} \cup Pids
  BY <1>1 DEF ReqType
<1>6. \A s \in Stoppers : stopper[s].key \in Keys
  BY <1>1 DEF StopperType
<1>7. \A p \in Pids : proc[p].key \in Keys
  BY <1>1 DEF ProcType
<1>8. \A st \in {"running", "done", "failed"} : \A p \in {NoPid} \cup Pids :
        [state |-> st, by |-> p] \in StatusType
  BY DEF StatusType
<1> QED
  BY <1>2, <1>3, <1>4, <1>5, <1>6, <1>7, <1>8

LEMMA ReplacedTyped ==
  ASSUME TypeOK, NEW p \in Pids, NEW x \in ProcType
  PROVE  [proc EXCEPT ![p] = x] \in [Pids -> ProcType]
  BY DEF TypeOK

LEMMA RegistersItsProcess ==
  ASSUME TypeOK, SlotDiscipline, NEW r \in Requests, req[r].pc = "register"
  PROVE  req[r].pid \in Pids
<1>1. LetIn(r)
  BY DEF LetIn
<1>2. req[r].pid \in 1..starts
  BY <1>1 DEF SlotDiscipline, StartsHoldTheirSlots
<1> QED
  BY <1>2, Numbers DEF TypeOK

\* Every step keeps the types.
LEMMA TypeStep == TypeOK /\ SlotDiscipline /\ [Next]_vars => TypeOK'
<1> SUFFICES ASSUME TypeOK, SlotDiscipline, [Next]_vars PROVE TypeOK'
  OBVIOUS
<1> USE IdleTyped, ThreadsTyped
<1>1. ASSUME NEW r \in Requests, NEW k \in Keys, Request(r, k) PROVE TypeOK'
  <2>1. [pc |-> "reserve", key |-> k, pid |-> NoPid] \in ReqType
    BY DEF ReqType
  <2>2. result' \in [Jobs \X Files -> {NoPid} \cup Pids]
    BY <1>1 DEF TypeOK, Request
  <2> QED
    BY <1>1, <2>1, <2>2 DEF TypeOK, Request
<1>2. ASSUME NEW r \in Requests, Reserve(r) PROVE TypeOK'
  <2>1. starts + 1 \in Pids /\ starts + 1 \in 0..MaxStarts
    BY <1>2, Numbers DEF TypeOK, Reserve
  <2>2. slot' \in [Keys -> Pids \cup {Empty, Starting}]
    BY <1>2 DEF TypeOK, Reserve
  <2>3. req' \in [Requests -> ReqType]
    BY <1>2, <2>1 DEF Reserve
  <2> QED
    BY <1>2, <2>1, <2>2, <2>3 DEF TypeOK, Reserve
<1>3. ASSUME NEW r \in Requests, Refuse(r) PROVE TypeOK'
  BY <1>3 DEF TypeOK, Refuse
<1>4. ASSUME NEW r \in Requests, Announce(r) PROVE TypeOK'
  <2>1. req' \in [Requests -> ReqType]
    BY <1>4 DEF Announce
  <2>2. status' \in [Keys -> StatusType]
    BY <1>4 DEF TypeOK, Announce
  <2> QED
    BY <1>4, <2>1, <2>2 DEF TypeOK, Announce
<1>5. ASSUME NEW r \in Requests, Spawn(r) PROVE TypeOK'
  <2>1. req' \in [Requests -> ReqType]
    BY <1>5 DEF Spawn
  <2>2. [key |-> req[r].key, alive |-> TRUE, rc |-> "none"] \in ProcType
    BY DEF ProcType
  <2>3. proc' \in [Pids -> ProcType]
    BY <1>5, <2>2 DEF TypeOK, Spawn
  <2> QED
    BY <1>5, <2>1, <2>3 DEF TypeOK, Spawn
<1>6. ASSUME NEW r \in Requests, SpawnFails(r) PROVE TypeOK'
  <2>1. req' \in [Requests -> ReqType]
    BY <1>6 DEF SpawnFails
  <2>2. slot' \in [Keys -> Pids \cup {Empty, Starting}]
    BY <1>6 DEF TypeOK, SpawnFails
  <2> QED
    BY <1>6, <2>1, <2>2 DEF TypeOK, SpawnFails
<1>7. ASSUME NEW r \in Requests, ReportFailed(r) PROVE TypeOK'
  <2>1. status' \in [Keys -> StatusType]
    BY <1>7 DEF TypeOK, ReportFailed
  <2> QED
    BY <1>7, <2>1 DEF TypeOK, ReportFailed
<1>8. ASSUME NEW r \in Requests, Register(r) PROVE TypeOK'
  <2>1. req[r].pid \in Pids
    <3>1. req[r].pc = "register"
      BY <1>8 DEF Register
    <3> QED
      BY <3>1, RegistersItsProcess
  <2>2. /\ slot' \in [Keys -> Pids \cup {Empty, Starting}]
        /\ waiter' \in [Pids -> {"none", "waiting", "hooks", "noting"}]
    BY <1>8, <2>1 DEF TypeOK, Register
  <2> QED
    BY <1>8, <2>2 DEF TypeOK, Register
<1>10. ASSUME NEW p \in Pids, NEW rc \in {"ok", "fail"}, Exit(p, rc) PROVE TypeOK'
  <2>0. proc' = [proc EXCEPT ![p] = Ended(proc[p], rc)]
    BY <1>10 DEF Exit
  <2>1. PICK w \in BOOLEAN :
          result' = IF w THEN [result EXCEPT ![<<proc[p].key[1], FileOf[proc[p].key[2]]>>] = p]
                         ELSE result
    BY <1>10 DEF Exit
  <2>2. proc' \in [Pids -> ProcType]
    BY <2>0, EndedTyped DEF TypeOK
  <2>3. result' \in [Jobs \X Files -> {NoPid} \cup Pids]
    BY <2>1 DEF TypeOK
  <2> QED
    BY <1>10, <2>2, <2>3 DEF TypeOK, Exit
<1>11. ASSUME NEW p \in Pids, BeginHooks(p) PROVE TypeOK'
  BY <1>11 DEF TypeOK, BeginHooks
<1>12. ASSUME NEW p \in Pids, Report(p) PROVE TypeOK'
  <2>1. [state |-> Outcome(proc[p].rc), by |-> p] \in StatusType
    BY DEF Outcome, StatusType
  <2>2. status' \in [Keys -> StatusType]
    BY <1>12, <2>1 DEF TypeOK, Report
  <2>3. waiter' \in [Pids -> {"none", "waiting", "hooks", "noting"}]
    BY <1>12 DEF TypeOK, Report
  <2> QED
    BY <1>12, <2>2, <2>3 DEF TypeOK, Report
<1>13. ASSUME NEW p \in Pids, NoteFailure(p) PROVE TypeOK'
  <2>1. waiter' \in [Pids -> {"none", "waiting", "hooks", "noting"}]
    BY <1>13 DEF TypeOK, NoteFailure
  <2>2. stopped' \subseteq Keys
    BY <1>13 DEF TypeOK, NoteFailure
  <2> QED
    BY <1>13, <2>1, <2>2 DEF TypeOK, NoteFailure
<1>14. ASSUME NEW s \in Stoppers, NEW k \in Keys, StopLooks(s, k) PROVE TypeOK'
  <2>1. [pc |-> "flag", key |-> k, target |-> slot[k]] \in StopperType
    BY DEF TypeOK, StopperType
  <2>2. stopper' \in [Stoppers -> StopperType]
    BY <1>14, <2>1 DEF TypeOK, StopLooks
  <2> QED
    BY <1>14, <2>2 DEF TypeOK, StopLooks
<1>15. ASSUME NEW s \in Stoppers, StopFlags(s) PROVE TypeOK'
  <2>1. stopper' \in [Stoppers -> StopperType]
    BY <1>15 DEF StopFlags
  <2>2. stopped' = stopped \cup {stopper[s].key} /\ stopped \subseteq Keys
    BY <1>15 DEF TypeOK, StopFlags
  <2>3. stopped' \subseteq Keys
    BY <2>2
  <2> QED
    BY <1>15, <2>1, <2>3 DEF TypeOK, StopFlags
<1>16. ASSUME NEW s \in Stoppers, StopKills(s) PROVE TypeOK'
  <2>1. stopper' \in [Stoppers -> StopperType]
    BY <1>16 DEF TypeOK, StopKills
  <2>2. CASE stopper[s].target \in Pids
    <3>1. PICK rc \in {"killed", "fail"} :
            proc' = IF proc[stopper[s].target].alive
                    THEN [proc EXCEPT ![stopper[s].target] = Ended(proc[stopper[s].target], rc)]
                    ELSE proc
      BY <1>16, <2>2 DEF StopKills
    <3>2. Ended(proc[stopper[s].target], rc) \in ProcType
      BY <2>2, EndedTyped
    <3>3. proc' \in [Pids -> ProcType]
      <4>1. [proc EXCEPT ![stopper[s].target] = Ended(proc[stopper[s].target], rc)]
              \in [Pids -> ProcType]
        BY <2>2, <3>2, ReplacedTyped
      <4>2. proc \in [Pids -> ProcType]
        BY DEF TypeOK
      <4>3. CASE proc[stopper[s].target].alive
        BY <3>1, <4>1, <4>3, Zenon
      <4>4. CASE ~proc[stopper[s].target].alive
        BY <3>1, <4>2, <4>4, Zenon
      <4> QED
        BY <4>3, <4>4, Zenon
    <3>5. UNCHANGED <<slot, status, result, stopped, starts, waiter, req, up, deaths>>
      BY <1>16 DEF StopKills
    <3> QED
      BY <2>1, <3>3, <3>5 DEF TypeOK
  <2>3. CASE stopper[s].target \notin Pids
    <3>1. UNCHANGED proc
      BY <1>16, <2>3 DEF StopKills
    <3> QED
      BY <1>16, <2>1, <3>1 DEF TypeOK, StopKills
  <2> QED
    BY <2>2, <2>3
<1>17. ASSUME Forget
       PROVE  /\ slot' \in [Keys -> Pids \cup {Empty, Starting}]
              /\ stopped' \subseteq Keys /\ deaths' \in 0..MaxDeaths /\ up' \in BOOLEAN
              /\ waiter' \in [Pids -> {"none", "waiting", "hooks", "noting"}]
              /\ req' \in [Requests -> ReqType] /\ stopper' \in [Stoppers -> StopperType]
  BY <1>17, DeathsCount DEF TypeOK, Forget
<1>18. ASSUME Dies PROVE TypeOK'
  <2>1. Forget /\ proc' = proc
    BY <1>18 DEF Dies
  <2> QED
    BY <1>17, <2>1 DEF TypeOK, Forget
<1>19. ASSUME StopWorkbench PROVE TypeOK'
  <2>1. proc' \in [Pids -> ProcType]
    BY <1>19, EndedTyped DEF TypeOK, StopWorkbench
  <2>2. Forget
    BY <1>19 DEF StopWorkbench
  <2> QED
    BY <1>17, <2>1, <2>2 DEF TypeOK, Forget
<1>21. ASSUME StartWorkbench PROVE TypeOK'
  BY <1>21 DEF TypeOK, StartWorkbench
<1>20. ASSUME UNCHANGED vars PROVE TypeOK'
  BY <1>20 DEF TypeOK, vars
<1> QED
  BY <1>1, <1>2, <1>3, <1>4, <1>5, <1>6, <1>7, <1>8, <1>10, <1>11, <1>12, <1>13, <1>14,
      <1>15, <1>16, <1>18, <1>19, <1>20, <1>21
  DEF Next, StartStep, WaiterStep

\* A process that ends changes no slot, no number and no waiter's process.
LEMMA EndKeepsDiscipline ==
  ASSUME TypeOK, SlotDiscipline, NEW p \in Pids, NEW rc \in {"ok", "fail", "killed"},
         proc' = [proc EXCEPT ![p] = Ended(proc[p], rc)],
         UNCHANGED <<slot, starts, waiter, req>>
  PROVE  SlotDiscipline'
<1>1. \A q \in Pids : proc'[q].key = proc[q].key /\ (proc'[q].alive => proc[q].alive)
  <2>1. proc'[p].key = proc[p].key /\ ~proc'[p].alive
    BY EndedTyped DEF TypeOK, ReqType, ProcType
  <2>2. \A q \in Pids : q # p => proc'[q] = proc[q]
    BY DEF TypeOK, ReqType, ProcType
  <2> QED
    BY <2>1, <2>2
<1>2. Running' \subseteq Running /\ (\A r \in Requests : LetIn(r)' <=> LetIn(r))
  BY <1>1 DEF Running, Polls, LetIn, TypeOK, ReqType, ProcType
<1>3. StartsHoldTheirSlots' /\ StartsAreApart' /\ NumbersAreFresh'
  BY <1>1, <1>2 DEF SlotDiscipline, StartsHoldTheirSlots, StartsAreApart, NumbersAreFresh, LetIn, TypeOK, ReqType, ProcType
<1>4. SlotsNameTheirOwn'
  BY <1>1 DEF SlotDiscipline, SlotsNameTheirOwn, TypeOK, ReqType, ProcType
<1>5. RunningIsCompatible'
  BY <1>2 DEF SlotDiscipline, RunningIsCompatible
<1> QED
  BY <1>3, <1>4, <1>5 DEF SlotDiscipline

\* Every step keeps the slot discipline.
LEMMA SlotStep == TypeOK /\ SlotDiscipline /\ [Next]_vars => SlotDiscipline'
<1> SUFFICES ASSUME TypeOK, SlotDiscipline, [Next]_vars PROVE SlotDiscipline'
  OBVIOUS
<1> USE IdleTyped, Numbers, IdleHoldsNothing
<1>1. ASSUME NEW r \in Requests, NEW k \in Keys, Request(r, k) PROVE SlotDiscipline'
  BY <1>1
  DEF TypeOK, ReqType, ProcType, SlotDiscipline, StartsHoldTheirSlots, StartsAreApart, NumbersAreFresh,
      SlotsNameTheirOwn, RunningIsCompatible, Running, Polls, LetIn, Request
<1>2. ASSUME NEW r \in Requests, Reserve(r) PROVE SlotDiscipline'
  <2> DEFINE c == req[r].key
  <2>0. c \in Keys /\ starts \in 0..MaxStarts /\ starts + 1 \in Pids /\ starts + 1 > starts
    BY <1>2 DEF TypeOK, ReqType, ProcType, Reserve
  <2>1. /\ slot' = [slot EXCEPT ![c] = Starting]
        /\ starts' = starts + 1
        /\ req' = [req EXCEPT ![r].pc = "announce", ![r].pid = starts + 1]
        /\ UNCHANGED <<proc, waiter>>
        /\ MayRun(c)
    BY <1>2 DEF Reserve
  <2>2. \A t \in Requests : LetIn(t) => req[t].key # c /\ req[t].pid # starts + 1
    BY <2>0, <2>1 DEF TypeOK, ReqType, ProcType, SlotDiscipline, StartsHoldTheirSlots, LetIn, MayRun, Running, Polls
  <2>3. \A t \in Requests : t # r => req'[t] = req[t]
    BY <2>1 DEF TypeOK, ReqType, ProcType
  <2>4. req'[r].key = c /\ req'[r].pc = "announce" /\ req'[r].pid = starts + 1
    BY <2>1 DEF TypeOK, ReqType, ProcType
  <2>5. StartsAreApart'
    BY <2>2, <2>3, <2>4 DEF SlotDiscipline, StartsAreApart, LetIn
  <2>6. StartsHoldTheirSlots'
    BY <2>0, <2>1, <2>2, <2>3, <2>4
    DEF TypeOK, ReqType, ProcType, SlotDiscipline, StartsHoldTheirSlots, NumbersAreFresh, LetIn
  <2>7. NumbersAreFresh'
    BY <2>0, <2>1 DEF TypeOK, ReqType, ProcType, SlotDiscipline, NumbersAreFresh, Pids
  <2>8. SlotsNameTheirOwn'
    BY <2>0, <2>1 DEF TypeOK, ReqType, ProcType, SlotDiscipline, SlotsNameTheirOwn, MayRun, Running, Polls
  <2>9. Running' = Running \cup {c}
    BY <2>0, <2>1 DEF TypeOK, ReqType, ProcType, Running, Polls
  <2>10. RunningIsCompatible'
    BY <2>1, <2>9
    DEF SlotDiscipline, RunningIsCompatible, MayRun, Conflicts, ChangesWorkbench, IsWorkbench
  <2> QED
    BY <2>5, <2>6, <2>7, <2>8, <2>10 DEF SlotDiscipline
<1>3. ASSUME NEW r \in Requests, Refuse(r) PROVE SlotDiscipline'
  BY <1>3
  DEF TypeOK, ReqType, ProcType, SlotDiscipline, StartsHoldTheirSlots, StartsAreApart, NumbersAreFresh,
      SlotsNameTheirOwn, RunningIsCompatible, Running, Polls, LetIn, Refuse
<1>4. ASSUME NEW r \in Requests, Announce(r) PROVE SlotDiscipline'
  BY <1>4
  DEF TypeOK, ReqType, ProcType, SlotDiscipline, StartsHoldTheirSlots, StartsAreApart, NumbersAreFresh,
      SlotsNameTheirOwn, RunningIsCompatible, Running, Polls, LetIn, Announce
<1>5. ASSUME NEW r \in Requests, Spawn(r) PROVE SlotDiscipline'
  BY <1>5
  DEF TypeOK, ReqType, ProcType, SlotDiscipline, StartsHoldTheirSlots, StartsAreApart, NumbersAreFresh,
      SlotsNameTheirOwn, RunningIsCompatible, Running, Polls, LetIn, Spawn
<1>6. ASSUME NEW r \in Requests, SpawnFails(r) PROVE SlotDiscipline'
  BY <1>6
  DEF TypeOK, ReqType, ProcType, SlotDiscipline, StartsHoldTheirSlots, StartsAreApart, NumbersAreFresh,
      SlotsNameTheirOwn, RunningIsCompatible, Running, Polls, LetIn, SpawnFails
<1>7. ASSUME NEW r \in Requests, ReportFailed(r) PROVE SlotDiscipline'
  BY <1>7
  DEF TypeOK, ReqType, ProcType, SlotDiscipline, StartsHoldTheirSlots, StartsAreApart, NumbersAreFresh,
      SlotsNameTheirOwn, RunningIsCompatible, Running, Polls, LetIn, ReportFailed
<1>8. ASSUME NEW r \in Requests, Register(r) PROVE SlotDiscipline'
  BY <1>8
  DEF TypeOK, ReqType, ProcType, SlotDiscipline, StartsHoldTheirSlots, StartsAreApart, NumbersAreFresh,
      SlotsNameTheirOwn, RunningIsCompatible, Running, Polls, LetIn, Register
<1>10. ASSUME NEW p \in Pids, NEW rc \in {"ok", "fail"}, Exit(p, rc) PROVE SlotDiscipline'
  <2>1. proc' = [proc EXCEPT ![p] = Ended(proc[p], rc)]
    BY <1>10 DEF Exit
  <2>2. UNCHANGED <<slot, starts, waiter, req>>
    BY <1>10 DEF Exit
  <2> QED
    BY <2>1, <2>2, EndKeepsDiscipline
<1>11. ASSUME NEW p \in Pids, BeginHooks(p) PROVE SlotDiscipline'
  BY <1>11
  DEF TypeOK, ReqType, ProcType, SlotDiscipline, StartsHoldTheirSlots, StartsAreApart, NumbersAreFresh,
      SlotsNameTheirOwn, RunningIsCompatible, Running, Polls, LetIn, BeginHooks
<1>12. ASSUME NEW p \in Pids, Report(p) PROVE SlotDiscipline'
  BY <1>12
  DEF TypeOK, ReqType, ProcType, SlotDiscipline, StartsHoldTheirSlots, StartsAreApart, NumbersAreFresh,
      SlotsNameTheirOwn, RunningIsCompatible, Running, Polls, LetIn, Report
<1>13. ASSUME NEW p \in Pids, NoteFailure(p) PROVE SlotDiscipline'
  BY <1>13
  DEF TypeOK, ReqType, ProcType, SlotDiscipline, StartsHoldTheirSlots, StartsAreApart, NumbersAreFresh,
      SlotsNameTheirOwn, RunningIsCompatible, Running, Polls, LetIn, NoteFailure
<1>14. ASSUME NEW s \in Stoppers, NEW k \in Keys, StopLooks(s, k) PROVE SlotDiscipline'
  BY <1>14
  DEF TypeOK, ReqType, ProcType, SlotDiscipline, StartsHoldTheirSlots, StartsAreApart, NumbersAreFresh,
      SlotsNameTheirOwn, RunningIsCompatible, Running, Polls, LetIn, StopLooks
<1>15. ASSUME NEW s \in Stoppers, StopFlags(s) PROVE SlotDiscipline'
  BY <1>15
  DEF TypeOK, ReqType, ProcType, SlotDiscipline, StartsHoldTheirSlots, StartsAreApart, NumbersAreFresh,
      SlotsNameTheirOwn, RunningIsCompatible, Running, Polls, LetIn, StopFlags
<1>16. ASSUME NEW s \in Stoppers, StopKills(s) PROVE SlotDiscipline'
  <2>1. CASE stopper[s].target \in Pids
    <3>1. PICK rc \in {"killed", "fail"} :
            proc' = IF proc[stopper[s].target].alive
                    THEN [proc EXCEPT ![stopper[s].target] = Ended(proc[stopper[s].target], rc)]
                    ELSE proc
      BY <1>16, <2>1 DEF StopKills
    <3>2. UNCHANGED <<slot, starts, waiter, req>>
      BY <1>16 DEF StopKills
    <3>3. CASE proc[stopper[s].target].alive
      BY <2>1, <3>1, <3>2, <3>3, EndKeepsDiscipline
    <3>4. CASE ~proc[stopper[s].target].alive
      BY <3>1, <3>2, <3>4
      DEF SlotDiscipline, StartsHoldTheirSlots, StartsAreApart, NumbersAreFresh,
          SlotsNameTheirOwn, RunningIsCompatible, Running, Polls, LetIn
    <3> QED
      BY <3>3, <3>4
  <2>2. CASE stopper[s].target \notin Pids
    BY <1>16, <2>2
    DEF TypeOK, ReqType, ProcType, SlotDiscipline, StartsHoldTheirSlots, StartsAreApart, NumbersAreFresh,
        SlotsNameTheirOwn, RunningIsCompatible, Running, Polls, LetIn, StopKills
  <2> QED
    BY <2>1, <2>2
<1>17. ASSUME Dies PROVE SlotDiscipline'
  BY <1>17
  DEF TypeOK, ReqType, ProcType, SlotDiscipline, StartsHoldTheirSlots, StartsAreApart, NumbersAreFresh,
      SlotsNameTheirOwn, RunningIsCompatible, Running, Polls, LetIn, Dies, Forget
<1>18. ASSUME StopWorkbench PROVE SlotDiscipline'
  BY <1>18, EndedTyped
  DEF TypeOK, ReqType, ProcType, SlotDiscipline, StartsHoldTheirSlots, StartsAreApart, NumbersAreFresh,
      SlotsNameTheirOwn, RunningIsCompatible, Running, Polls, LetIn, StopWorkbench, Forget
<1>19. ASSUME StartWorkbench PROVE SlotDiscipline'
  BY <1>19
  DEF TypeOK, ReqType, ProcType, SlotDiscipline, StartsHoldTheirSlots, StartsAreApart, NumbersAreFresh,
      SlotsNameTheirOwn, RunningIsCompatible, Running, Polls, LetIn, StartWorkbench
<1>20. ASSUME UNCHANGED vars PROVE SlotDiscipline'
  BY <1>20
  DEF TypeOK, ReqType, ProcType, SlotDiscipline, StartsHoldTheirSlots, StartsAreApart, NumbersAreFresh,
      SlotsNameTheirOwn, RunningIsCompatible, Running, Polls, LetIn, vars
<1> QED
  BY <1>1, <1>2, <1>3, <1>4, <1>5, <1>6, <1>7, <1>8, <1>10, <1>11, <1>12, <1>13, <1>14,
      <1>15, <1>16, <1>17, <1>18, <1>19, <1>20
  DEF Next, StartStep, WaiterStep

\* The inductive invariant.
THEOREM Disciplined == Spec => [](TypeOK /\ SlotDiscipline)
<1>1. TypeOK /\ SlotDiscipline /\ [Next]_vars => (TypeOK /\ SlotDiscipline)'
  BY TypeStep, SlotStep
<1> QED
  BY InitDiscipline, <1>1, PTL DEF Spec

\* Type correctness of start(), its waiter, stop() and the server's deaths.
THEOREM TypeCorrect == Spec => []TypeOK
  BY Disciplined, PTL

\* What the discipline says of a process of this server that is alive: its
\* command's slot is taken, by itself or by the start that registers it.
LEMMA MineIsRunning ==
  ASSUME TypeOK, SlotDiscipline, NEW p \in Pids, Mine(p)
  PROVE  /\ proc[p].key \in Running
         /\ \/ slot[proc[p].key] = p
            \/ slot[proc[p].key] = Starting /\ Registering(p)
<1>0. proc[p].key \in Keys
  BY DEF TypeOK, ReqType, ProcType
<1>1. CASE waiter[p] = "waiting"
  BY <1>0, <1>1 DEF SlotDiscipline, SlotsNameTheirOwn, Mine, Running, Polls
<1>2. CASE Registering(p)
  <2>1. PICK r \in Requests : req[r].pc = "register" /\ req[r].pid = p
    BY <1>2 DEF Registering
  <2> QED
    BY <1>0, <1>2, <2>1 DEF SlotDiscipline, StartsHoldTheirSlots, LetIn, Running, Polls
<1> QED
  BY <1>1, <1>2 DEF Mine

\* No command runs twice, whatever requests raced.
LEMMA OneRunnerHolds == TypeOK /\ SlotDiscipline => OneRunnerPerKey
<1> SUFFICES ASSUME TypeOK, SlotDiscipline, NEW p \in Pids, NEW q \in Pids,
                    p # q, Mine(p), Mine(q), proc[p].key = proc[q].key
             PROVE FALSE
  BY DEF OneRunnerPerKey
<1>1. CASE slot[proc[p].key] = p
  BY <1>1, MineIsRunning, Numbers
<1>2. CASE slot[proc[p].key] = Starting
  <2>1. Registering(p) /\ Registering(q)
    BY <1>2, MineIsRunning, Numbers
  <2>2. PICK r \in Requests : req[r].pc = "register" /\ req[r].pid = p
    BY <2>1 DEF Registering
  <2>3. PICK t \in Requests : req[t].pc = "register" /\ req[t].pid = q
    BY <2>1 DEF Registering
  <2> QED
    BY <2>2, <2>3 DEF SlotDiscipline, StartsAreApart, StartsHoldTheirSlots, LetIn
<1> QED
  BY <1>1, <1>2, MineIsRunning

LEMMA ExclusiveHolds == TypeOK /\ SlotDiscipline => OneExclusive /\ WorkbenchUndisturbed
<1> SUFFICES ASSUME TypeOK, SlotDiscipline, NEW p \in Pids, NEW q \in Pids, p # q, Mine(p), Mine(q)
             PROVE  /\ ~(Conflicts(proc[p].key) /\ Conflicts(proc[q].key))
                    /\ ChangesWorkbench(proc[p].key)
                         => IsWorkbench(proc[q].key) /\ ~ChangesWorkbench(proc[q].key)
  BY DEF OneExclusive, WorkbenchUndisturbed
<1>1. proc[p].key # proc[q].key
  BY OneRunnerHolds DEF OneRunnerPerKey
<1>2. proc[p].key \in Running /\ proc[q].key \in Running
  BY MineIsRunning
<1> QED
  BY <1>1, <1>2 DEF SlotDiscipline, RunningIsCompatible

\* No two processes of this server run the same command of the same job, at most
\* one rewrites or judges the working tree, and a change to the workbench has no
\* company but its own reads.
THEOREM RunsStayApart == Spec => []RunsApart
<1>1. TypeOK /\ SlotDiscipline => RunsApart
  BY OneRunnerHolds, ExclusiveHolds DEF RunsApart
<1> QED
  BY Disciplined, <1>1, PTL

\* Every registered process that is alive is in its slot, for running_now()
\* and stop() to find.
THEOREM NothingUnseen == Spec => []NothingRunsUnseen
<1>1. TypeOK /\ SlotDiscipline => NothingRunsUnseen
  BY DEF SlotDiscipline, SlotsNameTheirOwn, NothingRunsUnseen, Mine
<1> QED
  BY Disciplined, <1>1, PTL

-----------------------------------------------------------------------------
(* The slots implement CommandSlots *)

\* One process that ends takes at most its own command from the running ones.
LEMMA OneEnds ==
  ASSUME TypeOK, SlotDiscipline, NEW p \in Pids, NEW rc \in {"ok", "fail", "killed"},
         proc' = [proc EXCEPT ![p] = Ended(proc[p], rc)], slot' = slot
  PROVE  Promised!Step \/ Running' = Running
<1> DEFINE c == proc[p].key
<1>1. c \in Keys /\ (\A k \in Keys : slot[k] = p => k = c)
  BY DEF TypeOK, ReqType, ProcType, SlotDiscipline, SlotsNameTheirOwn
<1>2. Running' = Running \/ Running' = Running \ {c}
  BY <1>1, EndedTyped, Numbers DEF TypeOK, ReqType, ProcType, Running, Polls
<1> QED
  BY <1>1, <1>2 DEF Promised!Step, Promised!End, Promised!Commands, Keys

\* A step of the runner is, to the set of running commands, a begin, an end,
\* the end of all, or nothing.
LEMMA PromiseStep ==
  TypeOK /\ SlotDiscipline /\ [Next]_vars => [Promised!Step]_Running
<1> SUFFICES ASSUME TypeOK, SlotDiscipline, [Next]_vars
             PROVE Promised!Step \/ Running' = Running
  OBVIOUS
<1> USE Numbers
<1>1. ASSUME NEW r \in Requests, NEW k \in Keys, Request(r, k) PROVE Promised!Step \/ Running' = Running
  BY <1>1 DEF Request, Running, Polls
<1>2. ASSUME NEW r \in Requests, Reserve(r) PROVE Promised!Step \/ Running' = Running
  <2> DEFINE c == req[r].key
  <2>1. c \in Keys /\ slot' = [slot EXCEPT ![c] = Starting] /\ proc' = proc /\ MayRun(c)
    BY <1>2 DEF TypeOK, ReqType, ProcType, Reserve
  <2>2. Running' = Running \cup {c}
    BY <2>1 DEF TypeOK, ReqType, ProcType, Running, Polls
  <2>3. Promised!Begin(c)
    BY <2>1, <2>2
    DEF Promised!Begin, Promised!Beside, Promised!Rewrites, Promised!OfBench,
        MayRun, Conflicts, ChangesWorkbench, IsWorkbench
  <2> QED
    BY <2>1, <2>3 DEF Promised!Step, Promised!Commands, Keys
<1>3. ASSUME NEW r \in Requests, Refuse(r) PROVE Promised!Step \/ Running' = Running
  BY <1>3 DEF Refuse, Running, Polls
<1>4. ASSUME NEW r \in Requests, Announce(r) PROVE Promised!Step \/ Running' = Running
  BY <1>4 DEF Announce, Running, Polls
<1>5. ASSUME NEW r \in Requests, Spawn(r) PROVE Promised!Step \/ Running' = Running
  BY <1>5 DEF TypeOK, ReqType, ProcType, SlotDiscipline, StartsHoldTheirSlots, LetIn, Spawn, Running, Polls
<1>6. ASSUME NEW r \in Requests, SpawnFails(r) PROVE Promised!Step \/ Running' = Running
  <2> DEFINE c == req[r].key
  <2>1. c \in Keys /\ slot' = [slot EXCEPT ![c] = Empty] /\ proc' = proc
    BY <1>6 DEF TypeOK, ReqType, ProcType, SpawnFails
  <2>2. Running' = Running \ {c}
    BY <2>1 DEF TypeOK, ReqType, ProcType, Running, Polls
  <2> QED
    BY <2>1, <2>2 DEF Promised!Step, Promised!End, Promised!Commands, Keys
<1>7. ASSUME NEW r \in Requests, ReportFailed(r) PROVE Promised!Step \/ Running' = Running
  BY <1>7 DEF ReportFailed, Running, Polls
<1>8. ASSUME NEW r \in Requests, Register(r) PROVE Promised!Step \/ Running' = Running
  <2> DEFINE c == req[r].key
  <2>1. c \in Keys /\ slot' = [slot EXCEPT ![c] = req[r].pid] /\ proc' = proc /\ slot[c] = Starting
    BY <1>8 DEF TypeOK, ReqType, ProcType, Register, SlotDiscipline, StartsHoldTheirSlots, LetIn
  <2>2. Running' = Running \/ Running' = Running \ {c}
    BY <2>1 DEF TypeOK, ReqType, ProcType, Running, Polls
  <2> QED
    BY <2>1, <2>2 DEF Promised!Step, Promised!End, Promised!Commands, Keys
<1>10. ASSUME NEW p \in Pids, NEW rc \in {"ok", "fail"}, Exit(p, rc) PROVE Promised!Step \/ Running' = Running
  <2>1. proc' = [proc EXCEPT ![p] = Ended(proc[p], rc)]
    BY <1>10 DEF Exit
  <2>2. slot' = slot
    BY <1>10 DEF Exit
  <2> QED
    BY <2>1, <2>2, OneEnds
<1>11. ASSUME NEW p \in Pids, BeginHooks(p) PROVE Promised!Step \/ Running' = Running
  BY <1>11 DEF BeginHooks, Running, Polls
<1>12. ASSUME NEW p \in Pids, Report(p) PROVE Promised!Step \/ Running' = Running
  BY <1>12 DEF Report, Running, Polls
<1>13. ASSUME NEW p \in Pids, NoteFailure(p) PROVE Promised!Step \/ Running' = Running
  BY <1>13 DEF NoteFailure, Running, Polls
<1>14. ASSUME NEW s \in Stoppers, NEW k \in Keys, StopLooks(s, k) PROVE Promised!Step \/ Running' = Running
  BY <1>14 DEF StopLooks, Running, Polls
<1>15. ASSUME NEW s \in Stoppers, StopFlags(s) PROVE Promised!Step \/ Running' = Running
  BY <1>15 DEF StopFlags, Running, Polls
<1>16. ASSUME NEW s \in Stoppers, StopKills(s) PROVE Promised!Step \/ Running' = Running
  <2>1. CASE stopper[s].target \in Pids
    <3>1. PICK rc \in {"killed", "fail"} :
            proc' = IF proc[stopper[s].target].alive
                    THEN [proc EXCEPT ![stopper[s].target] = Ended(proc[stopper[s].target], rc)]
                    ELSE proc
      BY <1>16, <2>1 DEF StopKills
    <3>2. slot' = slot
      BY <1>16 DEF StopKills
    <3>3. CASE proc' = proc
      BY <3>2, <3>3 DEF Running, Polls
    <3> QED
      BY <2>1, <3>1, <3>2, <3>3, OneEnds
  <2>2. CASE stopper[s].target \notin Pids
    BY <1>16, <2>2 DEF StopKills, Running, Polls
  <2> QED
    BY <2>1, <2>2
<1>17. ASSUME Dies PROVE Promised!Step \/ Running' = Running
  <2>1. Running' = {}
    BY <1>17 DEF Dies, Forget, Running, Polls
  <2> QED
    BY <2>1 DEF Promised!Step, Promised!AllGone
<1>18. ASSUME StopWorkbench PROVE Promised!Step \/ Running' = Running
  <2>1. Running' = {}
    BY <1>18 DEF StopWorkbench, Forget, Running, Polls
  <2> QED
    BY <2>1 DEF Promised!Step, Promised!AllGone
<1>19. ASSUME StartWorkbench PROVE Promised!Step \/ Running' = Running
  BY <1>19 DEF StartWorkbench, Running, Polls
<1>20. ASSUME UNCHANGED vars PROVE Promised!Step \/ Running' = Running
  BY <1>20 DEF vars, Running, Polls
<1> QED
  BY <1>1, <1>2, <1>3, <1>4, <1>5, <1>6, <1>7, <1>8, <1>10, <1>11, <1>12, <1>13, <1>14,
      <1>15, <1>16, <1>17, <1>18, <1>19, <1>20
  DEF Next, StartStep, WaiterStep

\* With Stops, failures to start and deaths of the server: a command joins
\* only when it may run beside all that run, and leaves alone or with all.
THEOREM RunnerKeepsThePromise == Spec => KeepsThePromise
<1>1. Init => Promised!Nothing
  BY Numbers DEF Init, Promised!Nothing, Running, Polls
<1>2. TypeOK /\ SlotDiscipline /\ [Next]_vars => [Promised!Step]_Running
  BY PromiseStep
<1> QED
  BY <1>1, <1>2, Disciplined, PTL DEF Spec, KeepsThePromise, Promised!Promise

=============================================================================
