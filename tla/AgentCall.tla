------------------------------- MODULE AgentCall -------------------------------
(***************************************************************************)
(* One call of the AI Agent (cursor_call.py): run() waits, with a time     *)
(* limit, for a worker thread that opens a conversation, sends the prompt  *)
(* and reads what the agent says; a third thread watches for silence.      *)
(*                                                                         *)
(* The SDK is a library: a call of it may return, raise or hang, a run may *)
(* end at any time, a cancel may be confirmed or not. When run() gives up, *)
(* the worker is left where it is: still_wanted() is what stops it once    *)
(* the SDK lets go of it.                                                  *)
(*                                                                         *)
(* A text is "none" or whether answer_complete would take it: "whole" or   *)
(* "part"; with no answer_complete a text is a "part".                     *)
(***************************************************************************)
EXTENDS Naturals, Sequences

CONSTANTS
  Ways,        \* how the tools call it: records of the fields of Way
  Counts,      \* input tokens of a model call
  MaxMessages  \* bound: what the agent says in one call

\* one: there is an answer_complete; asks: there is a followup; limit, quiet:
\* deadline_seconds and quiet_seconds are not 0; again: there is a resume_id.
Way == [one : BOOLEAN, asks : BOOLEAN, limit : BOOLEAN, quiet : BOOLEAN, again : BOOLEAN]

ASSUME CallAssumption == Ways \subseteq Way /\ MaxMessages \in Nat

VARIABLES
  how,        \* this call's arguments
  caller,     \* where run() is, in bounded() and after it
  session,    \* the worker: its place, the run it reads, what it will end with, reopened
  pulse,      \* the watch: its place, the silence it has read
  runs,       \* (external) the first and the second turn's run
  calledOff,  \* runs somebody tried to cancel
  live,       \* live: the run to cancel (0: none yet), whether a cancel was confirmed
  stopped,    \* stopped: nobody waits for the worker any more
  quietStop,  \* quiet_stop
  quiet,      \* quiet_lock and quiet_handled: who is ending the run, if it is not done
  said,       \* what has come from the agent
  silence,    \* time since: 1 from AFTER_USAGE_QUIET and QUIET_FOR on, 2 from quiet_seconds on
  late,       \* the time limit has passed
  outcome     \* what run() returned or raised

ending == <<live, stopped, quietStop, quiet, calledOff>>
vars == <<how, caller, session, pulse, runs, ending, said, silence, late, outcome>>

Texts == {"none", "part", "whole"}
Pending == [end |-> "none", ok |-> TRUE, text |-> "none"]
NoOutcome == [kind |-> "none", text |-> "none", cancelled |-> FALSE]

\* ended, rerun: turn; edited, open: tools_done, a tool that has not finished (timing);
\* answers, writing, mark: segments, seg.open, mark.usage; spoke: words, not a plan.
Silent == [heard |-> 0, ended |-> FALSE, rerun |-> FALSE, edited |-> FALSE, open |-> FALSE,
           answers |-> <<>>, writing |-> FALSE, mark |-> 0, usages |-> {}, spoke |-> FALSE, answered |-> "none"]

Init ==
  /\ how \in Ways
  /\ caller = "waits" /\ outcome = NoOutcome
  /\ session = [pc |-> IF how.again THEN "reopens" ELSE "creates", run |-> 1, hold |-> Pending, reopened |-> FALSE]
  /\ pulse = [pc |-> "rests", seen |-> 0]
  /\ runs = [r \in 1..2 |-> "unsent"] /\ calledOff = {}
  /\ live = [run |-> 0, cancelled |-> FALSE]
  /\ stopped = FALSE /\ quietStop = FALSE /\ quiet = "open"
  /\ said = Silent /\ silence = 0 /\ late = FALSE

-----------------------------------------------------------------------------
(* What the threads share *)

\* A cancel of nothing, when there is no run in hand, that counts as confirmed.
CancelNothing(r, confirmed) ==
  /\ runs' = IF confirmed /\ r # 0 THEN [runs EXCEPT ![r] = "over"] ELSE runs
  /\ calledOff' = calledOff \cup ({r} \ {0})

\* _best_effort(run, "cancel"): confirmed, and then it has stopped, or not.
Cancel(r, confirmed) ==
  /\ confirmed => r # 0
  /\ runs' = IF confirmed THEN [runs EXCEPT ![r] = "over"] ELSE runs
  /\ calledOff' = calledOff \cup ({r} \ {0})

\* say(): a line of the log counts as a sign of life (once stopped, for nobody).
Say == silence' = 0

Goes(pc) == session' = [session EXCEPT !.pc = pc]

Pieces == IF how.one THEN {"part", "whole"} ELSE {"part"}

\* What the worker's function ends with, on its way out of the `with`.
Leaves(hold) == session' = [session EXCEPT !.pc = "leaves", !.hold = hold]
Raising(e) == [Pending EXCEPT !.end = e]
Value(ok, text) == [end |-> "value", ok |-> ok, text |-> text]

\* An exception of the SDK's: a TimeoutError, another (CursorAgentError too).
Errors == {"failed", "limit"}

\* still_wanted(agent, r): what nobody waits for any more is called off.
Abandons(r) ==
  /\ stopped
  /\ \E confirmed \in BOOLEAN : Cancel(r, confirmed)
  /\ Leaves(Raising("abandoned"))
  /\ UNCHANGED <<live, quiet, quietStop, stopped, silence>>

\* The answer to keep of a run that is ended from outside.
best_answer ==
  LET n == Len(said.answers)
      whole == {i \in 1..n : said.answers[i] = "whole"}
  IN IF n = 0 THEN "none"
     ELSE IF how.one /\ whole # {} THEN "whole"
     ELSE said.answers[n]

-----------------------------------------------------------------------------
(* The worker *)

others == <<how, caller, pulse, said, late, outcome>>

\* Agent.resume and the first send: the run is under way before anybody here
\* has it in hand. Whatever goes wrong, a new conversation is begun.
Reopen ==
  /\ session.pc = "reopens"
  /\ \/ /\ session' = [session EXCEPT !.pc = "opened", !.reopened = TRUE]
        /\ runs' = [runs EXCEPT ![1] = "live"]
     \/ Goes("creates") /\ UNCHANGED runs
  /\ Say
  /\ UNCHANGED <<others, ending>>

Create ==
  /\ session.pc = "creates"
  /\ \/ Goes("opened")
     \/ \E e \in Errors : session' = [session EXCEPT !.pc = "done", !.hold = Raising(e)]
  /\ UNCHANGED <<others, ending, runs, silence>>

\* The first still_wanted: the agent only, a run sent by Reopen is not named.
Enter ==
  /\ session.pc = "opened"
  /\ \/ Abandons(0)
     \/ /\ ~stopped /\ Goes(IF session.reopened THEN "sent" ELSE "sends")
        /\ UNCHANGED <<ending, runs, silence>>
  /\ UNCHANGED others

Send ==
  /\ session.pc = "sends"
  /\ \/ Goes("sent") /\ runs' = [runs EXCEPT ![1] = "live"]
     \/ \E e \in Errors : Leaves(Raising(e)) /\ UNCHANGED runs
  /\ UNCHANGED <<others, ending, silence>>

Holds ==
  /\ session.pc = "sent"
  /\ live' = [live EXCEPT !.run = 1] /\ Goes("checks")
  /\ UNCHANGED <<others, stopped, quietStop, quiet, calledOff, runs, silence>>

\* No look at who still waits once the prompt is sent.
CheckNothing ==
  /\ session.pc = "checks" /\ Goes("reads") /\ Say
  /\ UNCHANGED <<others, ending, runs>>

Check ==
  /\ session.pc = "checks"
  /\ \/ Abandons(1)
     \/ ~stopped /\ Goes("reads") /\ Say /\ UNCHANGED <<ending, runs>>
  /\ UNCHANGED others

\* A message of the run's: a sign of life, and the turn has not ended. (What an
\* abandoned worker hears after run() has returned is read by nobody.)
Hears ==
  /\ session.pc = "reads" /\ said.heard < MaxMessages /\ caller # "returned"
  /\ UNCHANGED <<how, caller, pulse, runs, live, stopped, quiet, calledOff, late, outcome>>

Heard == [said EXCEPT !.heard = @ + 1, !.ended = FALSE, !.writing = FALSE]

\* A piece of the answer, added to what was being written.
Text ==
  /\ Hears /\ Say
  /\ \E t \in Pieces :
       said' = [Heard EXCEPT !.writing = TRUE, !.spoke = TRUE,
                  !.answers = IF said.writing THEN [@ EXCEPT ![Len(@)] = t] ELSE Append(@, t)]
  /\ UNCHANGED <<session, quietStop>>

Plan ==
  /\ Hears /\ Say
  /\ \E t \in Pieces : said' = [Heard EXCEPT !.answers = Append(@, t)]
  /\ UNCHANGED <<session, quietStop>>

ToolBegins ==
  /\ Hears
  /\ said' = [Heard EXCEPT !.open = TRUE]
  /\ silence' = IF said.open THEN silence ELSE 0
  /\ UNCHANGED <<session, quietStop>>

ToolEnds ==
  /\ Hears /\ Say
  /\ \E edits \in BOOLEAN : said' = [Heard EXCEPT !.open = FALSE, !.edited = @ \/ edits]
  /\ UNCHANGED <<session, quietStop>>

\* Thinking, a status, a request; a user message is not said.
Other ==
  /\ Hears
  /\ said' = Heard
  /\ silence' \in {0, silence}
  /\ UNCHANGED <<session, quietStop>>

\* The answers written since the last usage line, or the last one.
Asked(answers) ==
  LET from == IF said.mark < Len(answers) THEN said.mark + 1 ELSE Len(answers)
  IN {answers[i] : i \in from..Len(answers)}

\* Any answer ends the run at the usage line, whole or not.
UsageTakesAny(n) ==
  LET answers == said.answers IN
  /\ Hears /\ Say
  /\ IF how.one /\ answers # <<>>
     THEN /\ said' = [Heard EXCEPT !.ended = TRUE, !.answered = answers[Len(answers)]]
          /\ quietStop' = TRUE /\ Goes("stream")
     ELSE said' = [Heard EXCEPT !.ended = TRUE, !.usages = @ \cup {n}] /\ UNCHANGED <<quietStop, session>>

\* A usage line ends a model call. It ends the run when its answer is whole,
\* or when the same request has run before (its number of tokens in).
Usage(n) ==
  LET known == n \in said.usages
      ended == [Heard EXCEPT !.ended = TRUE, !.usages = @ \cup {n}]
      whole == how.one /\ said.answered = "none" /\ said.answers # <<>> /\ "whole" \in Asked(said.answers)
  IN /\ Hears /\ Say
     /\ \/ /\ whole
           /\ said' = [ended EXCEPT !.answered = "whole"]
        \/ /\ ~whole
           /\ said' = [ended EXCEPT !.mark = Len(said.answers),
                         !.rerun = @ \/ (known /\ said.answered = "none")]
     /\ IF said'.answered # said.answered \/ said'.rerun # said.rerun
        THEN quietStop' = TRUE /\ Goes("stream")
        ELSE UNCHANGED <<quietStop, session>>

StreamEnds ==
  /\ session.pc = "reads"
  /\ Goes("stream") /\ Say
  /\ UNCHANGED <<others, ending, runs>>

\* An SDK call fails while the run is read or waited for; the second turn's
\* failure keeps the first turn's answer.
Breaks ==
  /\ session.pc \in {"reads", "waits"}
  /\ \/ session.run = 1 /\ \E e \in Errors : Leaves(Raising(e))
     \/ session.run = 2 /\ Leaves(session.hold)
  /\ UNCHANGED <<others, ending, runs, silence>>

\* Nothing more is read.
Stream ==
  /\ session.pc = "stream"
  /\ \/ /\ session.run = 1 /\ said.rerun /\ said.answered = "none"
        /\ Goes("yields") /\ UNCHANGED <<ending, runs>>
     \/ /\ session.run = 1 /\ said.answered # "none"
        /\ \E confirmed \in BOOLEAN : Cancel(1, confirmed) /\ live' = [live EXCEPT !.cancelled = confirmed]
        /\ Leaves(Value(TRUE, said.answered))
        /\ UNCHANGED <<stopped, quietStop, quiet>>
     \/ /\ session.run = 2 \/ (~said.rerun /\ said.answered = "none")
        /\ Goes("waits") /\ UNCHANGED <<ending, runs>>
  /\ UNCHANGED <<others, silence>>

\* run_.wait(): it returns once the run has ended.
Wait ==
  /\ session.pc = "waits" /\ runs[session.run] = "over"
  /\ \E ok \in BOOLEAN, text \in {"none"} \cup Pieces :
       \/ session.run = 1 /\ session' = [session EXCEPT !.pc = "judges", !.hold = Value(ok, text)]
       \/ /\ session.run = 2
          /\ Leaves(IF ok /\ text # "none" THEN Value(ok, text) ELSE session.hold)
  /\ UNCHANGED <<others, ending, runs, silence>>

\* No second, paid turn for nobody; and for an answer that is usable, or an error.
Judge ==
  /\ session.pc = "judges"
  /\ \/ Abandons(1)
     \/ /\ ~stopped /\ UNCHANGED <<ending, runs>>
        /\ \/ how.asks /\ session.hold.ok /\ session.hold.text # "whole" /\ Goes("asks") /\ Say
           \/ /\ ~(how.asks /\ session.hold.ok /\ session.hold.text # "whole")
              /\ Leaves(session.hold) /\ UNCHANGED silence
  /\ UNCHANGED others

Ask ==
  /\ session.pc = "asks"
  /\ \/ Goes("asked") /\ runs' = [runs EXCEPT ![2] = "live"]
     \/ Leaves(session.hold) /\ UNCHANGED runs
  /\ UNCHANGED <<others, ending, silence>>

HoldsSecond ==
  /\ session.pc = "asked"
  /\ live' = [live EXCEPT !.run = 2]
  /\ session' = [session EXCEPT !.pc = "reads", !.run = 2]
  /\ UNCHANGED <<others, stopped, quietStop, quiet, calledOff, runs, silence>>

\* The `with` closes the agent, which may fail too.
Leave ==
  /\ session.pc = "leaves"
  /\ \E e \in Errors \cup {session.hold.end} :
       session' = [session EXCEPT !.pc = "done", !.hold = IF e = @.end THEN @ ELSE Raising(e)]
  /\ UNCHANGED <<others, ending, runs, silence>>

-----------------------------------------------------------------------------
(* Ending a run that has gone quiet: the caller, or the worker at a re-run *)

\* went_quiet(): once; who comes second waits until it is done.
QuietBegins(who) ==
  /\ quiet = "open"
  /\ quiet' = who /\ stopped' = TRUE
  /\ UNCHANGED <<live, quietStop, calledOff, runs>>

QuietEnds(who) ==
  /\ quiet = who /\ quiet' = "handled"
  /\ \E confirmed \in BOOLEAN :
       Cancel(live.run, confirmed) /\ live' = [live EXCEPT !.cancelled = confirmed]
  /\ UNCHANGED <<stopped, quietStop>>

Yield ==
  /\ session.pc = "yields"
  /\ \/ (QuietBegins("session") \/ QuietEnds("session")) /\ UNCHANGED session
     \/ quiet = "handled" /\ Leaves(Raising("quiet")) /\ UNCHANGED <<ending, runs>>
  /\ UNCHANGED <<others, silence>>

-----------------------------------------------------------------------------
(* The caller: bounded() and what run() makes of it *)

waiting == <<how, session, pulse, said, silence, late>>

\* The worker has ended; it was told to stop waiting; the limit has passed.
Collects ==
  /\ caller = "waits" /\ session.pc = "done"
  /\ caller' = IF session.hold.end \in {"quiet", "limit"} THEN session.hold.end ELSE "collects"
  /\ UNCHANGED <<waiting, ending, runs, outcome>>

Notices ==
  /\ caller = "waits" /\ session.pc # "done" /\ quietStop
  /\ caller' = "quiets"
  /\ UNCHANGED <<waiting, ending, runs, outcome>>

\* Only a call that has a run to cancel is given up.
GivesUpRun ==
  /\ caller = "waits" /\ session.pc # "done" /\ ~quietStop /\ late /\ live.run # 0
  /\ caller' = "cancels" /\ stopped' = TRUE
  /\ UNCHANGED <<waiting, live, quietStop, quiet, calledOff, runs, outcome>>

GivesUp ==
  /\ caller = "waits" /\ session.pc # "done" /\ ~quietStop /\ late
  /\ caller' = "cancels" /\ stopped' = TRUE
  /\ UNCHANGED <<waiting, live, quietStop, quiet, calledOff, runs, outcome>>

gave_up ==
  /\ caller = "cancels"
  /\ \E confirmed \in BOOLEAN :
       Cancel(live.run, confirmed) /\ live' = [live EXCEPT !.cancelled = confirmed]
  /\ caller' = "limit"
  /\ UNCHANGED <<waiting, stopped, quietStop, quiet, outcome>>

Quiets ==
  /\ caller = "quiets"
  /\ \/ (QuietBegins("caller") \/ QuietEnds("caller")) /\ UNCHANGED caller
     \/ quiet = "handled" /\ caller' = "quiet" /\ UNCHANGED <<ending, runs>>
  /\ UNCHANGED <<waiting, outcome>>

Returns(kind, text) ==
  /\ caller' = "returned"
  /\ outcome' = [kind |-> kind, text |-> text, cancelled |-> live.cancelled]
  /\ UNCHANGED <<waiting, ending, runs>>

\* A whole answer that came is the answer, whatever else happened.
Answered ==
  /\ caller \in {"collects", "quiet", "limit"} /\ said.answered # "none"
  /\ Returns("answered", said.answered)

ReturnQuiet ==
  /\ caller = "quiet" /\ said.answered = "none"
  /\ Returns("quiet", best_answer)

\* An answer is kept at the limit when the run is known to have stopped.
ReturnLimit ==
  /\ caller = "limit" /\ said.answered = "none"
  /\ IF said.spoke /\ live.cancelled THEN Returns("timeout", best_answer) ELSE Returns("timed out", "none")

\* The worker's value or its exception. A run that ended in error keeps what it answered.
ReturnValue ==
  /\ caller = "collects" /\ said.answered = "none"
  /\ LET got == session.hold
         kept == IF got.text = "none" /\ how.one /\ best_answer = "whole" THEN best_answer ELSE got.text
     IN \/ got.end # "value" /\ Returns("failed", "none")
        \/ got.end = "value" /\ got.ok /\ Returns("done", got.text)
        \/ /\ got.end = "value" /\ ~got.ok
           /\ IF kept = "none" THEN Returns("failed", "none")
              ELSE Returns("error", IF best_answer # "none" THEN best_answer ELSE kept)

-----------------------------------------------------------------------------
(* The watch, the clock and the agent *)

rest == <<how, caller, session, runs, calledOff, live, stopped, quiet, late, outcome>>

\* A look at no silence, or when the run is being ended already, comes to nothing.
PulseLooks ==
  /\ pulse.pc = "rests" /\ caller # "returned" /\ silence > 0 /\ ~stopped /\ ~quietStop
  /\ pulse' = [pc |-> "looks", seen |-> silence]
  /\ UNCHANGED <<rest, quietStop, said, silence>>

\* The agent spoke and then nothing came; or its turn ended with its work done.
GoneQuiet == how.quiet /\ said.heard > 0 /\ pulse.seen = 2
TurnOver == said.ended /\ ~how.one /\ said.edited /\ pulse.seen >= 1 /\ ~said.open

PulseActs ==
  /\ pulse.pc = "looks" /\ caller # "returned"
  /\ IF ~stopped /\ (GoneQuiet \/ TurnOver)
     THEN quietStop' = TRUE /\ pulse' = [pc |-> "over", seen |-> 0]
     ELSE pulse' = [pc |-> "rests", seen |-> 0] /\ UNCHANGED quietStop
  /\ UNCHANGED <<rest, said, silence>>

Clock == session.pc # "done" /\ caller # "returned"

TimePasses ==
  /\ Clock /\ silence < 2 /\ silence' = silence + 1
  /\ UNCHANGED <<rest, pulse, quietStop, said>>

LimitPasses ==
  /\ Clock /\ how.limit /\ ~late /\ late' = TRUE
  /\ UNCHANGED <<how, caller, session, pulse, runs, ending, said, silence, outcome>>

\* A run ends: by itself, by a cancel that was not confirmed, with its agent closed.
RunEnds(r) ==
  /\ runs[r] = "live" /\ runs' = [runs EXCEPT ![r] = "over"]
  /\ UNCHANGED <<how, caller, session, pulse, ending, said, silence, late, outcome>>

Says == Text \/ Plan \/ ToolBegins \/ ToolEnds \/ Other \/ \E n \in Counts : Usage(n)

Worker ==
  \/ Reopen \/ Create \/ Enter \/ Send \/ Holds \/ Check \/ StreamEnds \/ Breaks
  \/ Stream \/ Wait \/ Judge \/ Ask \/ HoldsSecond \/ Leave
Caller == Collects \/ Notices \/ GivesUp \/ gave_up \/ Quiets
Return == Answered \/ ReturnQuiet \/ ReturnLimit \/ ReturnValue
Pulse == PulseLooks \/ PulseActs

Next == Says \/ Worker \/ Yield \/ Caller \/ Return \/ Pulse \/ TimePasses \/ LimitPasses
        \/ \E r \in 1..2 : RunEnds(r)

\* Threads go on, time passes, and _best_effort ends; nothing of the SDK need ever answer.
Fairness == WF_vars(Caller \/ Return) /\ WF_vars(Yield) /\ WF_vars(Pulse)
            /\ WF_vars(TimePasses) /\ WF_vars(LimitPasses)

Spec == Init /\ [][Next]_vars /\ Fairness

-----------------------------------------------------------------------------
(* Properties *)

SessionPcs == {"reopens", "creates", "opened", "sends", "sent", "checks", "reads", "stream", "yields",
               "waits", "judges", "asks", "asked", "leaves", "done"}
Holds_ == [end : {"none", "value", "quiet", "abandoned"} \cup Errors, ok : BOOLEAN, text : Texts]
Kinds == {"none", "answered", "quiet", "timeout", "timed out", "done", "error", "failed"}

TypeOK ==
  /\ how \in Ways
  /\ caller \in {"waits", "cancels", "quiets", "collects", "quiet", "limit", "returned"}
  /\ session \in [pc : SessionPcs, run : 1..2, hold : Holds_, reopened : BOOLEAN]
  /\ pulse \in [pc : {"rests", "looks", "over"}, seen : 0..2]
  /\ runs \in [1..2 -> {"unsent", "live", "over"}] /\ calledOff \subseteq 1..2
  /\ live \in [run : 0..2, cancelled : BOOLEAN]
  /\ stopped \in BOOLEAN /\ quietStop \in BOOLEAN
  /\ quiet \in {"open", "caller", "session", "handled"}
  /\ said \in [heard : 0..MaxMessages, ended : BOOLEAN, rerun : BOOLEAN, edited : BOOLEAN, open : BOOLEAN,
               answers : Seq({"part", "whole"}), writing : BOOLEAN, mark : Nat, usages : SUBSET Counts,
               spoke : BOOLEAN, answered : {"none", "whole"}]
  /\ silence \in 0..2 /\ late \in BOOLEAN
  /\ outcome \in [kind : Kinds, text : Texts, cancelled : BOOLEAN]
  /\ said.writing => said.answers # <<>>

\* Nobody waits for it, and nobody has called it off: a run of a new conversation
\* is in that state only until the worker comes to its check. (The limit may
\* pass while the SDK creates it or sends to it, before there is a run to cancel.)
GivenUpIsCalledOff ==
  caller \in {"quiet", "limit", "returned"} /\ stopped /\ ~session.reopened /\ runs[1] = "live"
  => 1 \in calledOff \/ session.pc \in {"sent", "checks"}

\* What the workbench is told has stopped is not writing any more: no run is
\* live after a call that ended with its cancel confirmed. (A call that may ask
\* a second time is not among those that edit files.)
CancelledMeansStopped ==
  outcome.kind # "none" /\ outcome.cancelled /\ ~how.asks => \A r \in 1..2 : runs[r] # "live"

\* With a time limit the call ends, whatever the SDK does. Without one, so does a
\* call whose agent spoke and fell silent, was asked the same again, or gave the
\* whole answer: no end of the run's own is needed.
CallReturns ==
  how.limit \/ (how.quiet /\ said.heard > 0) \/ said.rerun \/ said.answered # "none" ~> caller = "returned"

=============================================================================
