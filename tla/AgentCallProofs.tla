---------------------------- MODULE AgentCallProofs ----------------------------
(***************************************************************************)
(* Proofs about AgentCall, for any ways of calling, any counts of tokens   *)
(* and any number of messages.                                             *)
(***************************************************************************)
EXTENDS AgentCall, SequenceTheorems, TLAPS

-----------------------------------------------------------------------------
(* Types *)

LEMMA BestAnswer ==
  ASSUME TypeOK
  PROVE  /\ best_answer \in Texts
         /\ how.one /\ (\E i \in DOMAIN said.answers : said.answers[i] = "whole") => best_answer = "whole"
<1>1. said.answers \in Seq({"part", "whole"}) /\ Len(said.answers) \in Nat
  BY DEF TypeOK
<1>2. DOMAIN said.answers = 1..Len(said.answers) /\ \A i \in 1..Len(said.answers) : said.answers[i] \in {"part", "whole"}
  BY <1>1
<1> QED
  BY <1>1, <1>2 DEF best_answer, Texts

LEMMA InitTyped == CallAssumption /\ Init => TypeOK
<1> SUFFICES ASSUME CallAssumption, Init PROVE TypeOK
  OBVIOUS
<1>1. said \in [heard : 0..MaxMessages, ended : BOOLEAN, rerun : BOOLEAN, edited : BOOLEAN, open : BOOLEAN,
               answers : Seq({"part", "whole"}), writing : BOOLEAN, mark : Nat, usages : SUBSET Counts,
               spoke : BOOLEAN, answered : {"none", "whole"}] /\ ~said.writing
  BY DEF Init, Silent, CallAssumption
<1>2. session \in [pc : SessionPcs, run : 1..2, hold : Holds_, reopened : BOOLEAN]
  BY DEF Init, Pending, SessionPcs, Holds_, Texts, Errors
<1>3. outcome \in [kind : Kinds, text : Texts, cancelled : BOOLEAN]
  BY DEF Init, NoOutcome, Kinds, Texts
<1>4. runs \in [1..2 -> {"unsent", "live", "over"}] /\ live \in [run : 0..2, cancelled : BOOLEAN]
  BY DEF Init
<1>5. pulse \in [pc : {"rests", "looks", "over"}, seen : 0..2] /\ silence \in 0..2
  BY DEF Init
<1> QED
  BY <1>1, <1>2, <1>3, <1>4, <1>5 DEF Init, TypeOK

\* A message is heard while the answer is read; it changes nothing but what was
\* said, and may end the reading.
LEMMA SaysChanges ==
  ASSUME Says
  PROVE  /\ Hears /\ silence' \in {0, silence}
         /\ UNCHANGED <<session, quietStop>> \/ (Goes("stream") /\ quietStop' = TRUE)
<1>1. CASE Text \/ Plan \/ ToolBegins \/ ToolEnds \/ Other
  BY <1>1 DEF Text, Plan, ToolBegins, ToolEnds, Other, Say
<1>2. ASSUME NEW n \in Counts, Usage(n)
      PROVE  Hears /\ Say /\ (UNCHANGED <<session, quietStop>> \/ (Goes("stream") /\ quietStop' = TRUE))
  BY <1>2 DEF Usage
<1> QED
  BY <1>1, <1>2 DEF Says, Say

\* What a message leaves of what was said.
LEMMA SaysTyped ==
  ASSUME CallAssumption, TypeOK, Says
  PROVE  TypeOK'
<1> DEFINE S == [heard : 0..MaxMessages, ended : BOOLEAN, rerun : BOOLEAN, edited : BOOLEAN, open : BOOLEAN,
               answers : Seq({"part", "whole"}), writing : BOOLEAN, mark : Nat, usages : SUBSET Counts,
               spoke : BOOLEAN, answered : {"none", "whole"}]
<1>1. said \in S /\ Hears /\ said.heard + 1 \in 0..MaxMessages
  BY SaysChanges DEF TypeOK, Hears, CallAssumption
<1>2. Heard \in S /\ Heard.answers = said.answers /\ ~Heard.writing
  BY <1>1 DEF Heard
<1>3. silence' \in 0..2
  BY SaysChanges DEF TypeOK
<1>4. said' \in S /\ (said'.writing => said'.answers # <<>>)
  <2>1. CASE Text
    <3> PICK t \in {"part", "whole"} :
          said' = [Heard EXCEPT !.writing = TRUE, !.spoke = TRUE,
                     !.answers = IF said.writing THEN [@ EXCEPT ![Len(@)] = t] ELSE Append(@, t)]
      BY <2>1 DEF Text, Pieces
    <3> DEFINE new == IF said.writing THEN [said.answers EXCEPT ![Len(said.answers)] = t] ELSE Append(said.answers, t)
    <3>1. new \in Seq({"part", "whole"}) /\ new # <<>>
      <4>1. CASE said.writing
        <5>1. said.answers \in Seq({"part", "whole"}) /\ said.answers # <<>>
          BY <1>1, <4>1 DEF TypeOK
        <5>2. [said.answers EXCEPT ![Len(said.answers)] = t] \in Seq({"part", "whole"})
          BY <5>1, ExceptSeq, LenProperties
        <5>3. Len(said.answers) \in DOMAIN said.answers
          BY <5>1
        <5> QED
          BY <4>1, <5>1, <5>2, <5>3
      <4>2. CASE ~said.writing
        BY <1>1, <4>2, AppendProperties
      <4> QED
        BY <4>1, <4>2
    <3>2. said' = [Heard EXCEPT !.writing = TRUE, !.spoke = TRUE, !.answers = new]
      BY <1>2
    <3> QED
      BY <1>2, <3>1, <3>2
  <2>2. CASE Plan
    <3> PICK t \in {"part", "whole"} : said' = [Heard EXCEPT !.answers = Append(@, t)]
      BY <2>2 DEF Plan, Pieces
    <3>1. Append(said.answers, t) \in Seq({"part", "whole"})
      BY <1>1
    <3> QED
      BY <1>2, <3>1
  <2>3. CASE ToolBegins \/ ToolEnds \/ Other
    BY <1>2, <2>3 DEF ToolBegins, ToolEnds, Other
  <2>4. ASSUME NEW n \in Counts, Usage(n) PROVE said' \in S /\ ~said'.writing
    <3> DEFINE ended == [Heard EXCEPT !.ended = TRUE, !.usages = @ \cup {n}]
    <3>1. ended \in S /\ ~ended.writing
      BY <1>2
    <3>2. \/ said' = [ended EXCEPT !.answered = "whole"]
          \/ \E b \in BOOLEAN : said' = [ended EXCEPT !.mark = Len(said.answers), !.rerun = b]
      BY <1>1, <3>1, <2>4 DEF Usage
    <3>3. Len(said.answers) \in Nat
      BY <1>1
    <3> QED
      BY <3>1, <3>2, <3>3
  <2> QED
    BY <2>1, <2>2, <2>3, <2>4 DEF Says
<1>5. session' \in [pc : SessionPcs, run : 1..2, hold : Holds_, reopened : BOOLEAN] /\ quietStop' \in BOOLEAN
  BY SaysChanges DEF Goes, TypeOK, SessionPcs
<1> QED
  BY <1>1, <1>3, <1>4, <1>5 DEF TypeOK, Hears

LEMMA CancelTyped ==
  ASSUME TypeOK, NEW r \in 0..2, NEW confirmed \in BOOLEAN, Cancel(r, confirmed)
  PROVE  runs' \in [1..2 -> {"unsent", "live", "over"}] /\ calledOff' \subseteq 1..2
  BY DEF TypeOK, Cancel

LEMMA NextTyped ==
  ASSUME CallAssumption, TypeOK, [Next]_vars
  PROVE  TypeOK'
<1> DEFINE SessionType == [pc : SessionPcs, run : 1..2, hold : Holds_, reopened : BOOLEAN]
           RunsType == [1..2 -> {"unsent", "live", "over"}]
           LiveType == [run : 0..2, cancelled : BOOLEAN]
<1>0. session \in SessionType /\ session.hold \in Holds_ /\ live \in LiveType /\ runs \in RunsType
  BY DEF TypeOK
<1>1. CASE Says
  BY <1>1, SaysTyped
<1>2. ASSUME Worker PROVE TypeOK'
  <2>1. session' \in SessionType
    <3>1. ASSUME NEW h \in Holds_, Leaves(h) PROVE session' \in SessionType
      BY <1>0, <3>1 DEF Leaves, SessionPcs
    <3>2. ASSUME NEW p \in SessionPcs, Goes(p) PROVE session' \in SessionType
      BY <1>0, <3>2 DEF Goes
    <3>3. \A e \in Errors \cup {"abandoned"} : Raising(e) \in Holds_
      BY DEF Raising, Pending, Holds_, Errors, Texts
    <3>4. \A ok \in BOOLEAN, t \in Texts : Value(ok, t) \in Holds_
      BY DEF Value, Holds_
    <3>5. said.answered \in Texts /\ Pieces \subseteq Texts /\ "none" \in Texts
      BY DEF TypeOK, Texts, Pieces
    <3>6. CASE Reopen
      <4>1. session' = [session EXCEPT !.pc = "opened", !.reopened = TRUE] \/ Goes("creates")
        BY <3>6 DEF Reopen
      <4>2. [session EXCEPT !.pc = "opened", !.reopened = TRUE] \in SessionType
        <5>1. "opened" \in SessionPcs /\ TRUE \in BOOLEAN
          BY DEF SessionPcs
        <5> QED
          BY <1>0, <5>1
      <4> QED
        BY <3>2, <4>1, <4>2 DEF SessionPcs
    <3>7. CASE Create
      <4>1. Goes("opened") => session' \in SessionType
        BY <3>2 DEF SessionPcs
      <4>2. ASSUME NEW e \in Errors, session' = [session EXCEPT !.pc = "done", !.hold = Raising(e)]
            PROVE  session' \in SessionType
        BY <1>0, <3>3, <4>2 DEF SessionPcs
      <4> QED
        BY <3>7, <4>1, <4>2 DEF Create
    <3>8. CASE Enter \/ Send \/ Holds \/ Check \/ StreamEnds
      BY <1>0, <3>1, <3>2, <3>3, <3>8 DEF Enter, Send, Holds, Check, StreamEnds, Abandons, SessionPcs
    <3>9. CASE Breaks \/ Stream
      BY <1>0, <3>1, <3>2, <3>3, <3>4, <3>5, <3>9 DEF Breaks, Stream, SessionPcs
    <3>10. CASE Wait
      <4> PICK ok \in BOOLEAN, t \in {"none"} \cup Pieces :
            \/ session' = [session EXCEPT !.pc = "judges", !.hold = Value(ok, t)]
            \/ Leaves(Value(ok, t)) \/ Leaves(session.hold)
        BY <3>10 DEF Wait
      <4>1. Value(ok, t) \in Holds_
        BY <3>4, <3>5
      <4>2. [session EXCEPT !.pc = "judges", !.hold = Value(ok, t)] \in SessionType
        BY <1>0, <4>1 DEF SessionPcs
      <4> QED
        BY <1>0, <3>1, <4>1, <4>2
    <3>11. CASE Judge \/ Ask \/ HoldsSecond
      <4>0. HoldsSecond => session' = [session EXCEPT !.pc = "reads", !.run = 2]
        BY DEF HoldsSecond
      <4>1. HoldsSecond => session' \in SessionType
        <5>1. "reads" \in SessionPcs /\ 2 \in 1..2
          BY DEF SessionPcs
        <5>2. [session EXCEPT !.pc = "reads", !.run = 2] \in SessionType
          BY <1>0, <5>1
        <5> QED
          BY <4>0, <5>2
      <4>2. Judge => Leaves(Raising("abandoned")) \/ Goes("asks") \/ Leaves(session.hold)
        BY DEF Judge, Abandons
      <4>3. Ask => Goes("asked") \/ Leaves(session.hold)
        BY DEF Ask
      <4> QED
        BY <1>0, <3>1, <3>2, <3>3, <3>11, <4>1, <4>2, <4>3 DEF SessionPcs
    <3>12. CASE Leave
      <4> PICK e \in Errors \cup {session.hold.end} :
            session' = [session EXCEPT !.pc = "done", !.hold = IF e = @.end THEN @ ELSE Raising(e)]
        BY <3>12 DEF Leave
      <4>1. (IF e = session.hold.end THEN session.hold ELSE Raising(e)) \in Holds_
        BY <1>0, <3>3
      <4> QED
        BY <1>0, <4>1 DEF SessionPcs
    <3> QED
      BY <1>2, <3>6, <3>7, <3>8, <3>9, <3>10, <3>11, <3>12 DEF Worker
  <2>2. runs' \in RunsType /\ calledOff' \subseteq 1..2
    <3>1. CASE Enter \/ Check \/ Judge
      <4>1. \/ UNCHANGED <<ending, runs>>
            \/ \E r \in 0..2, confirmed \in BOOLEAN : Cancel(r, confirmed)
        BY <3>1 DEF Enter, Check, Judge, Abandons
      <4>2. CASE UNCHANGED <<ending, runs>>
        BY <4>2 DEF ending, TypeOK
      <4>3. ASSUME NEW r \in 0..2, NEW confirmed \in BOOLEAN, Cancel(r, confirmed)
            PROVE  runs' \in RunsType /\ calledOff' \subseteq 1..2
        BY <4>3, CancelTyped
      <4> QED
        BY <4>1, <4>2, <4>3
    <3>2. CASE Stream
      <4>1. \/ UNCHANGED <<ending, runs>>
            \/ \E r \in 0..2, confirmed \in BOOLEAN : Cancel(r, confirmed)
        <5>1. UNCHANGED <<ending, runs>> \/ \E confirmed \in BOOLEAN : Cancel(1, confirmed)
          BY <3>2 DEF Stream
        <5> QED
          BY <5>1
      <4>2. CASE UNCHANGED <<ending, runs>>
        BY <4>2 DEF ending, TypeOK
      <4>3. ASSUME NEW r \in 0..2, NEW confirmed \in BOOLEAN, Cancel(r, confirmed)
            PROVE  runs' \in RunsType /\ calledOff' \subseteq 1..2
        BY <4>3, CancelTyped
      <4> QED
        BY <4>1, <4>2, <4>3
    <3>3. CASE Reopen \/ Create \/ Send \/ Holds \/ StreamEnds \/ Breaks \/ Wait \/ Ask \/ HoldsSecond \/ Leave
      BY <1>0, <3>3 DEF Reopen, Create, Send, Holds, StreamEnds, Breaks, Wait, Ask, HoldsSecond, Leave,
           ending, TypeOK
    <3> QED
      BY <1>2, <3>1, <3>2, <3>3 DEF Worker
  <2>3. live' \in LiveType /\ silence' \in 0..2
    <3>1. /\ UNCHANGED live \/ live' = [live EXCEPT !.run = 1] \/ live' = [live EXCEPT !.run = 2]
             \/ \E confirmed \in BOOLEAN : live' = [live EXCEPT !.cancelled = confirmed]
          /\ silence' \in {0, silence}
      <4>1. CASE Reopen \/ Create \/ Enter \/ Send \/ Holds \/ Check \/ StreamEnds \/ Breaks
        BY <4>1 DEF Reopen, Create, Enter, Send, Holds, Check, StreamEnds, Breaks, Abandons, Say, ending
      <4>2. CASE Stream \/ Wait \/ Judge \/ Ask \/ HoldsSecond \/ Leave
        BY <4>2 DEF Stream, Wait, Judge, Ask, HoldsSecond, Leave, Abandons, Say, ending
      <4> QED
        BY <1>2, <4>1, <4>2 DEF Worker
    <3> QED
      BY <1>0, <3>1 DEF TypeOK
  <2>4. UNCHANGED <<others, stopped, quietStop, quiet>>
    BY <1>2 DEF Worker, Reopen, Create, Enter, Send, Holds, Check, StreamEnds, Breaks, Stream, Wait, Judge,
         Ask, HoldsSecond, Leave, Abandons, ending
  <2> QED
    BY <2>1, <2>2, <2>3, <2>4 DEF TypeOK, others
<1>3. ASSUME NEW who \in {"caller", "session"}, QuietBegins(who) \/ QuietEnds(who)
      PROVE  /\ runs' \in RunsType /\ calledOff' \subseteq 1..2 /\ live' \in LiveType
             /\ stopped' \in BOOLEAN /\ quietStop' = quietStop
             /\ quiet' \in {"open", "caller", "session", "handled"}
  <2>1. CASE QuietBegins(who)
    BY <1>0, <2>1 DEF QuietBegins, TypeOK
  <2>2. ASSUME QuietEnds(who) PROVE \E confirmed \in BOOLEAN :
          Cancel(live.run, confirmed) /\ live' = [live EXCEPT !.cancelled = confirmed]
    BY <2>2 DEF QuietEnds
  <2>3. live.run \in 0..2
    BY <1>0
  <2>4. CASE QuietEnds(who)
    <3> PICK confirmed \in BOOLEAN : Cancel(live.run, confirmed) /\ live' = [live EXCEPT !.cancelled = confirmed]
      BY <2>2, <2>4
    <3>1. runs' \in RunsType /\ calledOff' \subseteq 1..2
      BY <2>3, CancelTyped
    <3> QED
      BY <1>0, <2>4, <3>1 DEF QuietEnds, TypeOK
  <2> QED
    BY <1>3, <2>1, <2>4
<1>4. CASE Yield
  <2>1. session' \in SessionType
    <3>1. Raising("quiet") \in Holds_
      BY DEF Raising, Pending, Holds_, Texts
    <3>2. UNCHANGED session \/ Leaves(Raising("quiet"))
      BY <1>4 DEF Yield
    <3> QED
      BY <1>0, <3>1, <3>2 DEF Leaves, SessionPcs
  <2>2. CASE QuietBegins("session") \/ QuietEnds("session")
    BY <1>3, <1>4, <2>1, <2>2 DEF Yield, others, TypeOK
  <2>3. CASE UNCHANGED <<ending, runs>>
    BY <1>4, <2>1, <2>3 DEF Yield, others, ending, TypeOK
  <2> QED
    BY <1>4, <2>2, <2>3 DEF Yield
<1>5. CASE Collects \/ Notices \/ GivesUp
  <2>1. /\ UNCHANGED <<waiting, live, quietStop, quiet, calledOff, runs, outcome>> /\ stopped' \in BOOLEAN
        /\ caller' \in {"quiet", "limit", "collects", "quiets", "cancels"}
    BY <1>5 DEF Collects, Notices, GivesUp, ending, TypeOK
  <2> QED
    BY <2>1 DEF waiting, TypeOK
<1>6. CASE gave_up
  BY <1>0, <1>6, CancelTyped DEF gave_up, waiting, TypeOK
<1>7. CASE Quiets
  <2>1. CASE QuietBegins("caller") \/ QuietEnds("caller")
    <3>1. UNCHANGED <<waiting, outcome, caller>>
      BY <1>7, <2>1 DEF Quiets, QuietBegins, QuietEnds
    <3> QED
      BY <1>3, <2>1, <3>1 DEF waiting, TypeOK
  <2>2. CASE UNCHANGED <<ending, runs>>
    BY <1>7, <2>2 DEF Quiets, waiting, ending, TypeOK
  <2> QED
    BY <1>7, <2>1, <2>2 DEF Quiets
<1>8. CASE Return
  <2>1. PICK kind \in Kinds, text \in Texts : Returns(kind, text)
    <3>1. session.hold.text \in Texts /\ said.answered \in Texts
      BY <1>0 DEF TypeOK, Holds_, Texts
    <3> QED
      BY <1>8, <3>1, BestAnswer DEF Return, Answered, ReturnQuiet, ReturnLimit, ReturnValue, Kinds, Texts
  <2> QED
    BY <1>0, <2>1 DEF Returns, waiting, ending, TypeOK
<1>9. CASE Pulse
  <2>1. pulse' \in [pc : {"rests", "looks", "over"}, seen : 0..2] /\ quietStop' \in BOOLEAN /\ UNCHANGED <<rest, said, silence>>
    <3>1. CASE PulseLooks
      BY <3>1 DEF PulseLooks, rest, TypeOK
    <3>2. CASE PulseActs
      <4>1. /\ pulse' \in {[pc |-> "over", seen |-> 0], [pc |-> "rests", seen |-> 0]}
            /\ quietStop' \in {TRUE, quietStop}
            /\ UNCHANGED <<rest, said, silence>>
        BY <3>2 DEF PulseActs
      <4> QED
        <5>1. pulse' \in [pc : {"rests", "looks", "over"}, seen : 0..2]
          BY <4>1
        <5>2. quietStop' \in BOOLEAN
          BY <4>1 DEF TypeOK
        <5> QED
          BY <4>1, <5>1, <5>2
    <3> QED
      BY <1>9, <3>1, <3>2 DEF Pulse
  <2> QED
    BY <2>1 DEF rest, TypeOK
<1>10. CASE TimePasses \/ LimitPasses
  <2>1. silence' \in 0..2 /\ late' \in BOOLEAN /\ UNCHANGED <<how, caller, session, pulse, runs, ending, said, outcome>>
    <3>1. CASE TimePasses
      BY <3>1 DEF TimePasses, rest, ending, TypeOK
    <3>2. CASE LimitPasses
      BY <3>2 DEF LimitPasses, TypeOK
    <3> QED
      BY <1>10, <3>1, <3>2
  <2> QED
    BY <2>1 DEF ending, TypeOK
<1>11. ASSUME NEW r \in 1..2, RunEnds(r) PROVE TypeOK'
  BY <1>0, <1>11 DEF RunEnds, ending, TypeOK
<1>12. CASE UNCHANGED vars
  BY <1>12 DEF vars, ending, TypeOK
<1> QED
  BY <1>1, <1>2, <1>4, <1>5, <1>6, <1>7, <1>8, <1>9, <1>10, <1>11, <1>12 DEF Next, Caller

\* The threads keep their types, and an answer that ends a call is a whole one.
THEOREM CallTypes == CallAssumption => (Spec => []TypeOK)
<1> SUFFICES ASSUME CallAssumption PROVE Spec => []TypeOK
  OBVIOUS
<1>1. TypeOK /\ [Next]_vars => TypeOK'
  BY NextTyped
<1> QED
  BY <1>1, InitTyped, PTL DEF Spec

-----------------------------------------------------------------------------
(* What is said of an ending *)

\* A prompt is sent once, by the worker, which then takes its run in hand; a
\* second turn comes after the first has ended.
Order ==
  /\ session.pc \in {"reopens", "creates", "opened", "sends", "sent"} => live.run = 0
  /\ session.pc \in {"reopens", "creates", "sends"} => runs[1] = "unsent" /\ ~session.reopened
  /\ session.pc = "opened" => runs[1] = "unsent" \/ session.reopened
  /\ live.run = 0 /\ runs[1] = "live" => session.reopened \/ session.pc = "sent"
  /\ session.pc \in {"judges", "asks", "asked"} \/ session.run = 2 \/ live.run = 2 => runs[1] = "over"

\* Who gives a call up: the caller at the limit; the caller or the worker after a
\* silence, one at a time. Otherwise run() returns after its worker.
Ending ==
  /\ quiet # "open" => stopped
  /\ stopped /\ caller \in {"waits", "quiets"} => quiet # "open"
  /\ (quiet = "session" => session.pc = "yields") /\ (quiet = "caller" => caller = "quiets")
  /\ session.hold.end = "quiet" \/ caller = "quiet" => quiet = "handled"
  /\ caller = "collects" /\ stopped => quiet = "handled"
  /\ caller = "collects" => session.pc = "done"
  /\ caller \in {"limit", "quiet", "returned"} => stopped \/ session.pc = "done"
  /\ caller = "cancels" => stopped

\* A run of a new conversation goes on after an ending only before the check.
CalledOff ==
  quiet = "handled" \/ (caller \in {"limit", "returned"} /\ stopped)
  => session.reopened \/ runs[1] # "live" \/ 1 \in calledOff \/ session.pc \in {"sent", "checks"}

\* A call that does not ask again has one run, and a confirmed cancel is of that one.
OneRun ==
  ~how.asks =>
    /\ session.run = 1 /\ runs[2] = "unsent" /\ session.pc \notin {"asks", "asked"} /\ live.run # 2
    /\ live.cancelled \/ (outcome.kind # "none" /\ outcome.cancelled) => runs[1] = "over"

\* What going on and going out change of the worker's state.
LEMMA Moves ==
  ASSUME TypeOK
  PROVE  /\ \A p : Goes(p) => /\ session'.pc = p /\ session'.run = session.run
                              /\ session'.hold = session.hold /\ session'.reopened = session.reopened
         /\ \A h : Leaves(h) => /\ session'.pc = "leaves" /\ session'.run = session.run
                                /\ session'.hold = h /\ session'.reopened = session.reopened
<1>1. session \in [pc : SessionPcs, run : 1..2, hold : Holds_, reopened : BOOLEAN]
  BY DEF TypeOK
<1> QED
  BY <1>1 DEF Goes, Leaves

\* A cancel ends a run that was sent, or leaves it; no run begins by it.
LEMMA Cancels ==
  ASSUME TypeOK, NEW r \in 0..2, NEW confirmed \in BOOLEAN, Cancel(r, confirmed)
  PROVE  /\ \A q \in 1..2 : runs'[q] = runs[q] \/ (runs'[q] = "over" /\ q = r)
         /\ confirmed => r # 0 /\ runs'[r] = "over"
         /\ calledOff \subseteq calledOff' /\ (r # 0 => r \in calledOff')
<1>1. runs \in [1..2 -> {"unsent", "live", "over"}]
  BY DEF TypeOK
<1> QED
  BY <1>1 DEF Cancel

LEMMA OrderKept ==
  ASSUME TypeOK, TypeOK', Order, [Next]_vars
  PROVE  Order'
<1> DEFINE Fresh == {"reopens", "creates", "opened", "sends", "sent"}
<1>0. /\ session \in [pc : SessionPcs, run : 1..2, hold : Holds_, reopened : BOOLEAN]
      /\ live \in [run : 0..2, cancelled : BOOLEAN] /\ live.run \in 0..2
      /\ runs \in [1..2 -> {"unsent", "live", "over"}] /\ runs[1] \in {"unsent", "live", "over"}
  BY DEF TypeOK
\* A step that only cancels a run, or ends one, with the worker where it was.
<1>1. ASSUME UNCHANGED session, UNCHANGED live.run,
             runs'[1] = runs[1] \/ (runs'[1] = "over" /\ (runs[1] = "live" \/ live.run # 0 \/ session.pc \notin Fresh))
      PROVE  Order'
  BY <1>1 DEF Order
\* The worker leaves, is done or goes on reading.
<1>2. ASSUME session'.pc \in {"leaves", "done", "stream", "reads", "yields", "waits", "checks"},
             session'.run = session.run, session'.reopened = session.reopened,
             live'.run = live.run, session.pc # "sent",
             runs'[1] = runs[1] \/ runs'[1] = "over"
      PROVE  Order'
  BY <1>2 DEF Order
<1>3. CASE Says
  <2>1. UNCHANGED <<runs, live>> /\ session.pc = "reads"
    BY <1>3, SaysChanges DEF Hears
  <2>2. UNCHANGED session \/ Goes("stream")
    BY <1>3, SaysChanges
  <2> QED
    BY <1>1, <1>2, <2>1, <2>2, Moves
<1>4. CASE Reopen
  <2>1. runs[1] = "unsent" /\ live.run = 0 /\ session.run # 2 /\ UNCHANGED live
    BY <1>4 DEF Reopen, ending, Order
  <2>2. \/ session'.pc = "opened" /\ session'.reopened /\ session'.run = session.run
        \/ Goes("creates") /\ UNCHANGED runs /\ ~session.reopened
    <3>1. ~session.reopened
      BY <1>4 DEF Reopen, Order
    <3>2. session' = [session EXCEPT !.pc = "opened", !.reopened = TRUE]
          => session'.pc = "opened" /\ session'.reopened /\ session'.run = session.run
      BY <1>0
    <3> QED
      BY <1>4, <3>1, <3>2 DEF Reopen
  <2> QED
    BY <2>1, <2>2, Moves DEF Order
<1>5. CASE Create
  <2>1. ASSUME NEW e \in Errors, session' = [session EXCEPT !.pc = "done", !.hold = Raising(e)]
        PROVE  session'.pc = "done" /\ session'.run = session.run /\ session'.reopened = session.reopened
    BY <1>0, <2>1
  <2> QED
    <3>1. CASE Goes("opened")
      <4>1. runs[1] = "unsent" /\ live.run = 0 /\ session.run # 2 /\ UNCHANGED <<live, runs>>
        BY <1>5 DEF Create, ending, Order
      <4>2. session'.pc = "opened" /\ session'.run = session.run
        BY <3>1, Moves
      <4> QED
        BY <4>1, <4>2 DEF Order
    <3>2. CASE \E e \in Errors : session' = [session EXCEPT !.pc = "done", !.hold = Raising(e)]
      BY <1>2, <1>5, <2>1, <3>2 DEF Create, ending
    <3> QED
      BY <1>5, <3>1, <3>2 DEF Create
<1>6. CASE Enter \/ Check \/ Judge
  <2>1. ASSUME NEW r \in {0, 1}, Abandons(r), session.pc \in {"opened", "checks", "judges"} PROVE Order'
    <3> PICK confirmed \in BOOLEAN : Cancel(r, confirmed)
      BY <2>1 DEF Abandons
    <3>1. runs'[1] = runs[1] \/ runs'[1] = "over"
      BY Cancels
    <3>2. Leaves(Raising("abandoned")) /\ UNCHANGED live
      BY <2>1 DEF Abandons
    <3> QED
      BY <1>2, <2>1, <3>1, <3>2, Moves
  <2>2. CASE Enter
    BY <1>0, <2>1, <2>2, Moves DEF Enter, ending, Order
  <2>3. CASE Check
    BY <1>2, <2>1, <2>3, Moves DEF Check, ending
  <2>4. CASE Judge
    BY <1>0, <2>1, <2>4, Moves DEF Judge, ending, Order
  <2> QED
    BY <1>6, <2>2, <2>3, <2>4
<1>7. CASE Send
  <2>1. runs[1] = "unsent" /\ ~session.reopened /\ live.run = 0 /\ session.run # 2
    BY <1>7 DEF Send, Order
  <2>2. runs'[1] \in {runs[1], "live"} /\ UNCHANGED live
    BY <1>0, <1>7 DEF Send, ending
  <2>3. session'.pc \in {"sent", "leaves"} /\ session'.run = session.run /\ session'.reopened = session.reopened
    BY <1>7, Moves DEF Send
  <2>4. session'.pc = "leaves" => runs'[1] = "unsent"
    BY <1>7, <2>1, Moves DEF Send
  <2> QED
    BY <2>1, <2>2, <2>3, <2>4 DEF Order
<1>8. CASE Holds
  <2>1. live'.run = 1 /\ UNCHANGED runs /\ session'.pc = "checks" /\ session'.run = session.run
    BY <1>0, <1>8, Moves DEF Holds
  <2> QED
    BY <2>1 DEF Order
<1>9. CASE StreamEnds \/ Breaks
  <2>1. UNCHANGED <<live, runs>> /\ session.pc # "sent" /\ (Goes("stream") \/ \E h : Leaves(h))
    BY <1>9 DEF StreamEnds, Breaks, ending
  <2> QED
    BY <1>2, <2>1, Moves
<1>10. CASE Stream
  <2>1. session'.pc \in {"yields", "waits", "leaves"} /\ session'.run = session.run
        /\ session'.reopened = session.reopened
    BY <1>10, Moves DEF Stream
  <2>2. live'.run = live.run /\ session.pc # "sent"
    BY <1>0, <1>10 DEF Stream, ending
  <2>3. UNCHANGED runs \/ \E confirmed \in BOOLEAN : Cancel(1, confirmed)
    BY <1>10 DEF Stream
  <2>4. runs'[1] = runs[1] \/ runs'[1] = "over"
    BY <2>3, Cancels
  <2> QED
    BY <1>2, <2>1, <2>2, <2>4
<1>11. CASE Wait
  <2>1. \/ \E h : session' = [session EXCEPT !.pc = "judges", !.hold = h] /\ runs[1] = "over"
        \/ \E h : Leaves(h)
    BY <1>11 DEF Wait
  <2>2. UNCHANGED <<live, runs>> /\ session.pc = "waits"
    BY <1>11 DEF Wait, ending
  <2>3. CASE \E h : Leaves(h)
    BY <1>2, <2>2, <2>3, Moves
  <2>4. CASE \E h : session' = [session EXCEPT !.pc = "judges", !.hold = h] /\ runs[1] = "over"
    <3>1. session'.pc = "judges" /\ runs[1] = "over"
      BY <1>0, <2>4
    <3> QED
      BY <2>2, <3>1 DEF Order
  <2> QED
    BY <2>1, <2>3, <2>4
<1>12. CASE Ask
  <2>1. runs[1] = "over" /\ runs'[1] = runs[1] /\ UNCHANGED live
    BY <1>0, <1>12 DEF Ask, ending, Order
  <2>2. session'.pc \in {"asked", "leaves"}
    BY <1>12, Moves DEF Ask
  <2> QED
    BY <2>1, <2>2 DEF Order
<1>13. CASE HoldsSecond
  <2>1. runs'[1] = "over" /\ session'.pc = "reads" /\ live'.run = 2
    BY <1>0, <1>13 DEF HoldsSecond, Order
  <2> QED
    BY <2>1 DEF Order
<1>14. CASE Leave
  <2>1. session'.pc = "done" /\ session'.run = session.run /\ session'.reopened = session.reopened
    BY <1>0, <1>14 DEF Leave
  <2> QED
    BY <1>2, <1>14, <2>1 DEF Leave, ending
<1>15. ASSUME NEW who, QuietBegins(who) \/ QuietEnds(who)
       PROVE  live'.run = live.run /\ (runs'[1] = runs[1] \/ (runs'[1] = "over" /\ live.run = 1))
  <2>1. CASE QuietBegins(who)
    BY <2>1 DEF QuietBegins
  <2>2. CASE QuietEnds(who)
    <3> PICK confirmed \in BOOLEAN : Cancel(live.run, confirmed) /\ live' = [live EXCEPT !.cancelled = confirmed]
      BY <2>2 DEF QuietEnds
    <3> QED
      BY <1>0, Cancels
  <2> QED
    BY <1>15, <2>1, <2>2
<1>16. CASE Yield
  <2>1. CASE UNCHANGED session
    BY <1>1, <1>15, <1>16, <2>1 DEF Yield, ending
  <2>2. CASE Leaves(Raising("quiet")) /\ UNCHANGED <<ending, runs>>
    BY <1>2, <1>16, <2>2, Moves DEF Yield, ending
  <2> QED
    BY <1>16, <2>1, <2>2 DEF Yield
<1>17. CASE Quiets
  BY <1>1, <1>15, <1>17 DEF Quiets, waiting, ending
<1>18. CASE gave_up
  <2> PICK confirmed \in BOOLEAN : Cancel(live.run, confirmed) /\ live' = [live EXCEPT !.cancelled = confirmed]
    BY <1>18 DEF gave_up
  <2>1. live'.run = live.run /\ (runs'[1] = runs[1] \/ (runs'[1] = "over" /\ live.run = 1))
    BY <1>0, Cancels
  <2> QED
    BY <1>1, <1>18, <2>1 DEF gave_up, waiting
<1>19. CASE Collects \/ Notices \/ GivesUp \/ Return
  BY <1>1, <1>19 DEF Collects, Notices, GivesUp, Return, Answered, ReturnQuiet, ReturnLimit, ReturnValue, Returns,
     waiting, ending
<1>20. CASE Pulse \/ TimePasses \/ LimitPasses
  BY <1>1, <1>20 DEF Pulse, PulseLooks, PulseActs, TimePasses, LimitPasses, rest, ending
<1>21. ASSUME NEW r \in 1..2, RunEnds(r) PROVE Order'
  <2>1. runs'[1] = runs[1] \/ (runs'[1] = "over" /\ runs[1] = "live")
    BY <1>0, <1>21 DEF RunEnds
  <2> QED
    BY <1>1, <1>21, <2>1 DEF RunEnds, ending
<1>22. CASE UNCHANGED vars
  BY <1>1, <1>22 DEF vars, ending
<1> QED
  BY <1>3, <1>4, <1>5, <1>6, <1>7, <1>8, <1>9, <1>10, <1>11, <1>12, <1>13, <1>14, <1>16, <1>17, <1>18, <1>19,
     <1>20, <1>21, <1>22 DEF Next, Worker, Caller

LEMMA EndingKept ==
  ASSUME TypeOK, TypeOK', Ending, [Next]_vars
  PROVE  Ending'
<1>0. /\ session \in [pc : SessionPcs, run : 1..2, hold : Holds_, reopened : BOOLEAN]
      /\ quiet \in {"open", "caller", "session", "handled"}
      /\ caller \in {"waits", "cancels", "quiets", "collects", "quiet", "limit", "returned"}
  BY DEF TypeOK
\* The worker goes on by itself, and ends with nothing but a value or an error.
<1>1. ASSUME UNCHANGED <<stopped, quiet, caller>>, session.pc \notin {"yields", "done"},
             session'.hold.end = "quiet" => session.hold.end = "quiet"
      PROVE  Ending'
  BY <1>1 DEF Ending
\* Nobody moves but the watch, the clock and the agent.
<1>2. ASSUME UNCHANGED <<stopped, quiet, caller, session>>
      PROVE  Ending'
  BY <1>2 DEF Ending
<1>3. CASE Says
  <2>1. UNCHANGED <<stopped, quiet, caller>> /\ session.pc = "reads" /\ session'.hold = session.hold
    BY <1>3, SaysChanges, Moves DEF Hears
  <2> QED
    BY <1>1, <2>1
<1>4. CASE Worker
  <2>1. UNCHANGED <<stopped, quiet, caller>> /\ session.pc \notin {"yields", "done"}
    <3>1. CASE Reopen \/ Create \/ Enter \/ Send \/ Holds \/ Check \/ StreamEnds \/ Breaks
      BY <3>1 DEF Reopen, Create, Enter, Send, Holds, Check, StreamEnds, Breaks, Abandons, others, ending
    <3>2. CASE Stream \/ Wait \/ Judge \/ Ask \/ HoldsSecond \/ Leave
      BY <3>2 DEF Stream, Wait, Judge, Ask, HoldsSecond, Leave, Abandons, others, ending
    <3> QED
      BY <1>4, <3>1, <3>2 DEF Worker
  <2>2. \A e \in Errors \cup {"abandoned"} : Raising(e).end # "quiet"
    BY DEF Raising, Pending, Errors
  <2>3. \A ok, text : Value(ok, text).end # "quiet"
    BY DEF Value
  <2>4. session'.hold.end = "quiet" => session.hold.end = "quiet"
    <3>1. CASE Reopen \/ Holds \/ HoldsSecond
      BY <1>0, <3>1, Moves DEF Reopen, Holds, HoldsSecond
    <3>2. CASE Create
      <4>1. ASSUME NEW e \in Errors, session' = [session EXCEPT !.pc = "done", !.hold = Raising(e)]
            PROVE  session'.hold = Raising(e)
        BY <1>0, <4>1
      <4> QED
        BY <2>2, <3>2, <4>1, Moves DEF Create
    <3>3. CASE Enter \/ Check \/ Judge
      <4>1. (\E p : Goes(p)) \/ Leaves(Raising("abandoned")) \/ Leaves(session.hold)
        BY <3>3 DEF Enter, Check, Judge, Abandons
      <4> QED
        BY <2>2, <4>1, Moves
    <3>4. CASE Send \/ StreamEnds \/ Breaks \/ Ask
      <4>1. (\E p : Goes(p)) \/ (\E e \in Errors : Leaves(Raising(e))) \/ Leaves(session.hold)
        BY <3>4 DEF Send, StreamEnds, Breaks, Ask
      <4> QED
        BY <2>2, <4>1, Moves
    <3>5. CASE Stream
      <4>1. (\E p : Goes(p)) \/ Leaves(Value(TRUE, said.answered))
        BY <3>5 DEF Stream
      <4> QED
        BY <2>3, <4>1, Moves
    <3>6. CASE Wait
      <4>1. \/ \E ok, text : session' = [session EXCEPT !.pc = "judges", !.hold = Value(ok, text)]
            \/ \E ok, text : Leaves(Value(ok, text))
            \/ Leaves(session.hold)
        BY <3>6 DEF Wait
      <4>2. ASSUME NEW v, session' = [session EXCEPT !.pc = "judges", !.hold = v]
            PROVE  session'.hold = v
        BY <1>0, <4>2
      <4>3. ASSUME NEW ok, NEW text,
                   \/ session' = [session EXCEPT !.pc = "judges", !.hold = Value(ok, text)]
                   \/ Leaves(Value(ok, text))
            PROVE  session'.hold.end # "quiet"
        <5>1. session'.hold = Value(ok, text)
          BY <4>2, <4>3, Moves
        <5> QED
          BY <2>3, <5>1
      <4> QED
        BY <4>1, <4>3, Moves
    <3>7. CASE Leave
      <4> PICK e \in Errors \cup {session.hold.end} :
            session' = [session EXCEPT !.pc = "done", !.hold = IF e = @.end THEN @ ELSE Raising(e)]
        BY <3>7 DEF Leave
      <4>1. session'.hold = IF e = session.hold.end THEN session.hold ELSE Raising(e)
        BY <1>0
      <4> QED
        BY <2>2, <4>1
    <3> QED
      BY <1>4, <3>1, <3>2, <3>3, <3>4, <3>5, <3>6, <3>7 DEF Worker
  <2> QED
    BY <1>1, <2>1, <2>4
<1>5. CASE Yield
  <2>1. session.pc = "yields" /\ UNCHANGED caller
    BY <1>5 DEF Yield, others
  <2>2. CASE QuietBegins("session") /\ UNCHANGED session
    BY <2>1, <2>2 DEF QuietBegins, Ending
  <2>3. CASE QuietEnds("session") /\ UNCHANGED session
    BY <2>1, <2>3 DEF QuietEnds, Ending
  <2>4. CASE quiet = "handled" /\ Leaves(Raising("quiet")) /\ UNCHANGED <<ending, runs>>
    <3>1. session'.pc = "leaves" /\ UNCHANGED <<stopped, quiet>>
      BY <2>4, Moves DEF ending
    <3> QED
      BY <2>1, <2>4, <3>1 DEF Ending
  <2> QED
    BY <1>5, <2>2, <2>3, <2>4 DEF Yield
<1>6. CASE Quiets
  <2>1. caller = "quiets" /\ UNCHANGED session
    BY <1>6 DEF Quiets, waiting
  <2>2. CASE QuietBegins("caller") /\ UNCHANGED caller
    BY <2>1, <2>2 DEF QuietBegins, Ending
  <2>3. CASE QuietEnds("caller") /\ UNCHANGED caller
    BY <2>1, <2>3 DEF QuietEnds, Ending
  <2>4. CASE quiet = "handled" /\ caller' = "quiet" /\ UNCHANGED <<ending, runs>>
    BY <2>1, <2>4 DEF ending, Ending
  <2> QED
    BY <1>6, <2>2, <2>3, <2>4 DEF Quiets
<1>7. CASE Collects
  <2>1. session.pc = "done" /\ caller = "waits" /\ UNCHANGED <<session, stopped, quiet>>
    BY <1>7 DEF Collects, waiting, ending
  <2>2. stopped => quiet = "handled"
    BY <1>0, <2>1 DEF Ending
  <2>3. caller' = IF session.hold.end \in {"quiet", "limit"} THEN session.hold.end ELSE "collects"
    BY <1>7 DEF Collects
  <2> QED
    BY <2>1, <2>2, <2>3 DEF Ending
<1>8. CASE Notices
  BY <1>8 DEF Notices, waiting, ending, Ending
<1>9. CASE GivesUp
  BY <1>9 DEF GivesUp, waiting, Ending
<1>10. CASE gave_up
  BY <1>10 DEF gave_up, waiting, Ending
<1>11. CASE Return
  BY <1>11 DEF Return, Answered, ReturnQuiet, ReturnLimit, ReturnValue, Returns, waiting, ending, Ending
<1>12. CASE Pulse \/ TimePasses \/ LimitPasses \/ \E r \in 1..2 : RunEnds(r)
  BY <1>2, <1>12 DEF Pulse, PulseLooks, PulseActs, TimePasses, LimitPasses, RunEnds, rest, ending
<1>13. CASE UNCHANGED vars
  BY <1>2, <1>13 DEF vars, ending
<1> QED
  BY <1>3, <1>4, <1>5, <1>6, <1>7, <1>8, <1>9, <1>10, <1>11, <1>12, <1>13 DEF Next, Caller

LEMMA CalledOffKept ==
  ASSUME TypeOK, TypeOK', Order, Ending, Ending', CalledOff, [Next]_vars
  PROVE  CalledOff'
<1> DEFINE Given == quiet = "handled" \/ (caller \in {"limit", "returned"} /\ stopped)
           Ended == \/ session.reopened \/ runs[1] # "live" \/ 1 \in calledOff
                    \/ session.pc \in {"sent", "checks"}
<1>0. /\ session \in [pc : SessionPcs, run : 1..2, hold : Holds_, reopened : BOOLEAN]
      /\ live \in [run : 0..2, cancelled : BOOLEAN] /\ live.run \in 0..2
      /\ runs \in [1..2 -> {"unsent", "live", "over"}] /\ runs[1] \in {"unsent", "live", "over"}
  BY DEF TypeOK
<1>1. Given => stopped
  BY DEF Ending
\* It was given up already, and nothing took its end back; nor was it before.
<1>2. ASSUME Given' => Given, Ended => Ended' PROVE CalledOff'
  BY <1>2 DEF CalledOff
\* The worker's own steps give nothing up.
<1>3. ASSUME UNCHANGED <<quiet, caller, stopped>>, session.pc \notin {"sent", "checks"},
             session'.reopened = session.reopened, runs'[1] = runs[1] \/ runs'[1] = "over",
             calledOff \subseteq calledOff'
      PROVE  CalledOff'
  BY <1>2, <1>3
\* A cancel of the run in hand ends what was given up.
<1>4. ASSUME NEW confirmed \in BOOLEAN, Cancel(live.run, confirmed), UNCHANGED session PROVE Ended'
  <2>1. runs'[1] # "live" \/ runs'[1] = runs[1]
    BY <1>0, <1>4, Cancels
  <2>2. live.run = 1 => 1 \in calledOff'
    BY <1>0, <1>4, Cancels
  <2>3. live.run = 2 => runs[1] = "over"
    BY DEF Order
  <2>4. live.run = 0 /\ runs[1] = "live" => session.reopened \/ session.pc = "sent"
    BY DEF Order
  <2> QED
    BY <1>0, <1>4, <2>1, <2>2, <2>3, <2>4
<1>5. CASE Says
  <2>1. UNCHANGED <<quiet, caller, stopped, runs, calledOff>> /\ session.pc = "reads"
    BY <1>5, SaysChanges DEF Hears
  <2>2. session'.reopened = session.reopened
    BY <1>5, SaysChanges, Moves
  <2> QED
    BY <1>3, <2>1, <2>2
<1>6. CASE Reopen
  <2>1. UNCHANGED <<quiet, caller, stopped, calledOff>> /\ session.pc = "reopens"
    BY <1>6 DEF Reopen, others, ending
  <2>2. session'.reopened \/ (session'.reopened = session.reopened /\ UNCHANGED runs)
    BY <1>0, <1>6, Moves DEF Reopen
  <2> QED
    BY <1>2, <2>1, <2>2
<1>7. CASE Create \/ Leave
  <2>1. UNCHANGED <<quiet, caller, stopped, calledOff, runs>> /\ session.pc \in {"creates", "leaves"}
    BY <1>7 DEF Create, Leave, others, ending
  <2>2. session'.reopened = session.reopened
    <3>1. (\E p : Goes(p)) \/ \E h : session' = [session EXCEPT !.pc = "done", !.hold = h]
      BY <1>7 DEF Create, Leave
    <3> QED
      BY <1>0, <3>1, Moves
  <2> QED
    BY <1>3, <2>1, <2>2
<1>8. CASE Send
  <2>1. UNCHANGED <<quiet, caller, stopped, calledOff>> /\ session'.reopened = session.reopened
        /\ session.pc = "sends"
    BY <1>8, Moves DEF Send, others, ending
  <2>2. session'.pc = "sent" \/ UNCHANGED runs
    BY <1>8, Moves DEF Send
  <2> QED
    BY <1>2, <2>1, <2>2
<1>9. CASE Holds
  <2>1. session'.pc = "checks"
    BY <1>9, Moves DEF Holds
  <2> QED
    BY <2>1 DEF CalledOff
<1>10. ASSUME NEW r \in {0, 1}, Abandons(r), UNCHANGED others, session.pc = "checks" => r = 1,
              session.pc \in {"opened", "checks", "judges"}
       PROVE  CalledOff'
  <2> PICK confirmed \in BOOLEAN : Cancel(r, confirmed)
    BY <1>10 DEF Abandons
  <2>1. UNCHANGED <<quiet, caller, stopped>> /\ session'.reopened = session.reopened
    BY <1>10, Moves DEF Abandons, others
  <2>2. /\ runs'[1] = runs[1] \/ runs'[1] = "over"
        /\ calledOff \subseteq calledOff' /\ (r = 1 => 1 \in calledOff')
    BY Cancels
  <2>3. CASE session.pc = "checks"
    BY <1>10, <2>2, <2>3 DEF CalledOff
  <2>4. CASE session.pc # "checks"
    BY <1>3, <1>10, <2>1, <2>2, <2>4
  <2> QED
    BY <2>3, <2>4
<1>11. CASE Enter
  <2>1. CASE Abandons(0)
    BY <1>10, <1>11, <2>1 DEF Enter
  <2>2. CASE ~stopped /\ UNCHANGED <<ending, runs>>
    BY <1>1, <1>11, <2>2 DEF Enter, others, ending, CalledOff
  <2> QED
    BY <1>11, <2>1, <2>2 DEF Enter
<1>12. CASE Check
  <2>1. CASE Abandons(1)
    BY <1>10, <1>12, <2>1 DEF Check
  <2>2. CASE ~stopped /\ UNCHANGED <<ending, runs>>
    BY <1>1, <1>12, <2>2 DEF Check, others, ending, CalledOff
  <2> QED
    BY <1>12, <2>1, <2>2 DEF Check
<1>13. CASE Judge
  <2>1. CASE Abandons(1)
    BY <1>10, <1>13, <2>1 DEF Judge
  <2>2. CASE ~stopped /\ UNCHANGED <<ending, runs>>
    BY <1>1, <1>13, <2>2 DEF Judge, others, ending, CalledOff
  <2> QED
    BY <1>13, <2>1, <2>2 DEF Judge
<1>14. CASE StreamEnds \/ Breaks
  <2>1. /\ UNCHANGED <<quiet, caller, stopped, calledOff, runs>>
        /\ session.pc \notin {"sent", "checks"} /\ (Goes("stream") \/ \E h : Leaves(h))
    BY <1>14 DEF StreamEnds, Breaks, others, ending
  <2> QED
    BY <1>3, <2>1, Moves
<1>15. CASE Stream
  <2>1. UNCHANGED <<quiet, caller, stopped>> /\ session.pc = "stream"
    BY <1>15 DEF Stream, others, ending
  <2>2. session'.reopened = session.reopened
    BY <1>15, Moves DEF Stream
  <2>3. UNCHANGED <<ending, runs>> \/ \E confirmed \in BOOLEAN : Cancel(1, confirmed)
    BY <1>15 DEF Stream
  <2>4. (runs'[1] = runs[1] \/ runs'[1] = "over") /\ calledOff \subseteq calledOff'
    BY <2>3, Cancels DEF ending
  <2> QED
    BY <1>3, <2>1, <2>2, <2>4
<1>16. CASE Wait \/ HoldsSecond
  <2>1. UNCHANGED <<quiet, caller, stopped, calledOff, runs>> /\ session.pc \in {"waits", "asked"}
    BY <1>16 DEF Wait, HoldsSecond, others, ending
  <2>2. session'.reopened = session.reopened
    <3>1. \/ \E h : session' = [session EXCEPT !.pc = "judges", !.hold = h]
          \/ session' = [session EXCEPT !.pc = "reads", !.run = 2]
          \/ \E h : Leaves(h)
      BY <1>16 DEF Wait, HoldsSecond
    <3> QED
      BY <1>0, <3>1, Moves
  <2> QED
    BY <1>3, <2>1, <2>2
<1>17. CASE Ask
  <2>1. UNCHANGED <<quiet, caller, stopped, calledOff>> /\ session.pc = "asks" /\ runs'[1] = runs[1]
    BY <1>0, <1>17 DEF Ask, others, ending
  <2> QED
    BY <1>3, <1>17, <2>1, Moves DEF Ask
<1>18. CASE Yield
  <2>1. session.pc = "yields" /\ UNCHANGED caller
    BY <1>18 DEF Yield, others
  <2>2. CASE QuietBegins("session") /\ UNCHANGED session
    <3>1. quiet' # "handled" /\ (caller \in {"limit", "returned"} => stopped)
      BY <2>1, <2>2 DEF QuietBegins, Ending
    <3> QED
      BY <1>2, <2>1, <2>2, <3>1 DEF QuietBegins
  <2>3. CASE QuietEnds("session") /\ UNCHANGED session
    BY <1>4, <2>3 DEF QuietEnds, CalledOff
  <2>4. CASE quiet = "handled" /\ Leaves(Raising("quiet")) /\ UNCHANGED <<ending, runs>>
    BY <1>3, <2>1, <2>4, Moves DEF ending
  <2> QED
    BY <1>18, <2>2, <2>3, <2>4 DEF Yield
<1>19. CASE Quiets
  <2>1. caller = "quiets" /\ UNCHANGED session
    BY <1>19 DEF Quiets, waiting
  <2>2. CASE QuietBegins("caller") /\ UNCHANGED caller
    BY <2>1, <2>2 DEF QuietBegins, CalledOff
  <2>3. CASE QuietEnds("caller") /\ UNCHANGED caller
    BY <1>4, <2>1, <2>3 DEF QuietEnds, CalledOff
  <2>4. CASE quiet = "handled" /\ caller' = "quiet" /\ UNCHANGED <<ending, runs>>
    BY <1>2, <2>1, <2>4 DEF ending
  <2> QED
    BY <1>19, <2>2, <2>3, <2>4 DEF Quiets
<1>20. CASE gave_up
  <2> PICK confirmed \in BOOLEAN : Cancel(live.run, confirmed)
    BY <1>20 DEF gave_up
  <2> QED
    BY <1>4, <1>20 DEF gave_up, waiting, CalledOff
<1>21. CASE Collects
  <2>1. session.pc = "done" /\ caller = "waits" /\ UNCHANGED <<session, stopped, quiet, runs, calledOff>>
    BY <1>21 DEF Collects, waiting, ending
  <2>2. stopped => quiet = "handled"
    BY <2>1 DEF Ending, TypeOK
  <2> QED
    BY <1>2, <2>1, <2>2
<1>22. CASE Notices \/ GivesUp
  <2>1. UNCHANGED <<session, quiet, runs, calledOff>> /\ caller' \in {"quiets", "cancels"}
    BY <1>22 DEF Notices, GivesUp, waiting, ending
  <2> QED
    BY <1>2, <2>1
<1>23. CASE Return
  <2>1. UNCHANGED <<session, quiet, runs, calledOff, stopped>> /\ caller \in {"collects", "quiet", "limit"}
    BY <1>23 DEF Return, Answered, ReturnQuiet, ReturnLimit, ReturnValue, Returns, waiting, ending
  <2>2. stopped => Given
    BY <2>1 DEF Ending
  <2> QED
    BY <1>1, <1>2, <2>1, <2>2
<1>24. CASE Pulse \/ TimePasses \/ LimitPasses
  <2>1. UNCHANGED <<session, quiet, runs, calledOff, stopped, caller>>
    BY <1>24 DEF Pulse, PulseLooks, PulseActs, TimePasses, LimitPasses, rest, ending
  <2> QED
    BY <1>2, <2>1
<1>25. ASSUME NEW r \in 1..2, RunEnds(r) PROVE CalledOff'
  <2>1. UNCHANGED <<session, quiet, calledOff, stopped, caller>> /\ (runs'[1] = runs[1] \/ runs'[1] = "over")
    BY <1>0, <1>25 DEF RunEnds, ending
  <2> QED
    BY <1>2, <2>1
<1>26. CASE UNCHANGED vars
  <2>1. UNCHANGED <<session, quiet, runs, calledOff, stopped, caller>>
    BY <1>26 DEF vars, ending
  <2> QED
    BY <1>2, <2>1
<1> QED
  BY <1>5, <1>6, <1>7, <1>8, <1>9, <1>11, <1>12, <1>13, <1>14, <1>15, <1>16, <1>17, <1>18, <1>19, <1>20, <1>21,
     <1>22, <1>23, <1>24, <1>25, <1>26 DEF Next, Worker, Caller

LEMMA OneRunKept ==
  ASSUME TypeOK, TypeOK', Order, OneRun, [Next]_vars
  PROVE  OneRun'
<1> SUFFICES ASSUME ~how.asks, UNCHANGED how PROVE OneRun'
  <2>1. UNCHANGED how
    <3>1. CASE Says
      BY <3>1, SaysChanges DEF Hears
    <3>2. CASE Worker
      BY <3>2 DEF Worker, Reopen, Create, Enter, Send, Holds, Check, StreamEnds, Breaks, Stream, Wait, Judge, Ask,
         HoldsSecond, Leave, others
    <3>3. CASE Yield \/ Caller \/ Return
      BY <3>3 DEF Yield, Caller, Collects, Notices, GivesUp, gave_up, Quiets, Return, Answered, ReturnQuiet,
         ReturnLimit, ReturnValue, Returns, others, waiting
    <3>4. CASE Pulse \/ TimePasses \/ LimitPasses \/ \E r \in 1..2 : RunEnds(r)
      BY <3>4 DEF Pulse, PulseLooks, PulseActs, TimePasses, LimitPasses, RunEnds, rest
    <3>5. CASE UNCHANGED vars
      BY <3>5 DEF vars
    <3> QED
      BY <3>1, <3>2, <3>3, <3>4, <3>5 DEF Next
  <2> QED
    BY <2>1 DEF OneRun
<1>0. /\ session \in [pc : SessionPcs, run : 1..2, hold : Holds_, reopened : BOOLEAN]
      /\ live \in [run : 0..2, cancelled : BOOLEAN] /\ live.run \in 0..2
      /\ runs \in [1..2 -> {"unsent", "live", "over"}] /\ runs[1] \in {"unsent", "live", "over"}
      /\ runs[2] \in {"unsent", "live", "over"}
  BY DEF TypeOK
<1>1. /\ session.run = 1 /\ runs[2] = "unsent" /\ session.pc \notin {"asks", "asked"} /\ live.run # 2
      /\ live.cancelled => runs[1] = "over"
      /\ outcome.kind # "none" /\ outcome.cancelled => runs[1] = "over"
  BY DEF OneRun
\* What keeps its hands off the second run, and brings the first no life.
<1>2. ASSUME session'.run = session.run, session'.pc \notin {"asks", "asked"}, runs'[2] = runs[2], live'.run # 2,
             runs[1] = "over" => runs'[1] = "over", UNCHANGED outcome,
             live'.cancelled => live.cancelled \/ runs'[1] = "over"
      PROVE  OneRun'
  BY <1>1, <1>2 DEF OneRun
<1>3. ASSUME NEW confirmed \in BOOLEAN, Cancel(live.run, confirmed), UNCHANGED <<session, outcome>>,
             live' = [live EXCEPT !.cancelled = confirmed]
      PROVE  OneRun'
  <2>1. live'.run = live.run /\ live'.cancelled = confirmed
    BY <1>0, <1>3
  <2>2. runs'[2] = runs[2] /\ (runs'[1] = runs[1] \/ runs'[1] = "over") /\ (confirmed => runs'[1] = "over")
    BY <1>0, <1>1, <1>3, Cancels
  <2> QED
    BY <1>1, <1>2, <1>3, <2>1, <2>2
<1>4. ASSUME UNCHANGED <<session, runs, live, outcome>> PROVE OneRun'
  BY <1>1, <1>2, <1>4
<1>5. CASE Says
  <2>1. UNCHANGED <<runs, live, outcome>> /\ session.pc = "reads" /\ (UNCHANGED session \/ Goes("stream"))
    BY <1>5, SaysChanges DEF Hears
  <2>2. session'.run = session.run /\ session'.pc \in {"reads", "stream"}
    BY <2>1, Moves
  <2> QED
    BY <1>1, <1>2, <2>1, <2>2
<1>6. CASE Reopen \/ Send
  <2>1. /\ UNCHANGED <<live, outcome>> /\ runs[1] = "unsent"
        /\ UNCHANGED runs \/ runs' = [runs EXCEPT ![1] = "live"]
        /\ \/ session' = [session EXCEPT !.pc = "opened", !.reopened = TRUE]
           \/ Goes("creates") \/ Goes("sent") \/ \E h : Leaves(h)
    BY <1>6 DEF Reopen, Send, others, ending, Order
  <2>2. session'.run = session.run /\ session'.pc \notin {"asks", "asked"}
    <3>1. session' = [session EXCEPT !.pc = "opened", !.reopened = TRUE]
          => session'.run = session.run /\ session'.pc = "opened"
      BY <1>0
    <3> QED
      BY <2>1, <3>1, Moves
  <2>3. runs'[2] = runs[2]
    BY <1>0, <2>1
  <2> QED
    BY <1>1, <1>2, <2>1, <2>2, <2>3
<1>7. CASE Create \/ StreamEnds \/ Breaks \/ Leave
  <2>1. /\ UNCHANGED <<live, outcome, runs>>
        /\ \/ Goes("opened") \/ Goes("stream") \/ \E h : Leaves(h)
           \/ \E h : session' = [session EXCEPT !.pc = "done", !.hold = h]
    BY <1>7 DEF Create, StreamEnds, Breaks, Leave, others, ending
  <2>2. session'.run = session.run /\ session'.pc \notin {"asks", "asked"}
    <3>1. ASSUME NEW h, session' = [session EXCEPT !.pc = "done", !.hold = h]
          PROVE  session'.run = session.run /\ session'.pc = "done"
      BY <1>0, <3>1
    <3>2. ASSUME NEW h, Leaves(h) PROVE session'.run = session.run /\ session'.pc = "leaves"
      BY <3>2, Moves
    <3>3. CASE Goes("opened") \/ Goes("stream")
      BY <3>3, Moves
    <3> QED
      BY <2>1, <3>1, <3>2, <3>3
  <2> QED
    BY <1>1, <1>2, <2>1, <2>2
<1>8. ASSUME NEW r \in {0, 1}, Abandons(r), UNCHANGED others PROVE OneRun'
  <2> PICK confirmed \in BOOLEAN : Cancel(r, confirmed)
    BY <1>8 DEF Abandons
  <2>1. session'.run = session.run /\ session'.pc = "leaves" /\ UNCHANGED <<live, outcome>>
    BY <1>8, Moves DEF Abandons, others
  <2>2. runs'[2] = runs[2] /\ (runs'[1] = runs[1] \/ runs'[1] = "over")
    BY Cancels
  <2> QED
    BY <1>1, <1>2, <2>1, <2>2
<1>9. CASE Enter \/ Check \/ Judge
  <2>1. \/ (Abandons(0) \/ Abandons(1)) /\ UNCHANGED others
        \/ /\ UNCHANGED <<live, runs, outcome>>
           /\ Goes("sent") \/ Goes("sends") \/ Goes("reads") \/ \E h : Leaves(h)
    BY <1>9 DEF Enter, Check, Judge, others, ending
  <2>2. CASE (Abandons(0) \/ Abandons(1)) /\ UNCHANGED others
    BY <1>8, <2>2
  <2>3. CASE /\ UNCHANGED <<live, runs, outcome>>
             /\ Goes("sent") \/ Goes("sends") \/ Goes("reads") \/ \E h : Leaves(h)
    <3>1. session'.run = session.run /\ session'.pc \notin {"asks", "asked"}
      BY <2>3, Moves
    <3> QED
      BY <1>1, <1>2, <2>3, <3>1
  <2> QED
    BY <2>1, <2>2, <2>3
<1>10. CASE Holds
  <2>1. UNCHANGED <<runs, outcome>> /\ session'.run = session.run /\ session'.pc = "checks"
    BY <1>10, Moves DEF Holds, others
  <2>2. live'.run = 1 /\ live'.cancelled = live.cancelled
    BY <1>0, <1>10 DEF Holds
  <2> QED
    BY <1>1, <1>2, <2>1, <2>2
<1>11. CASE Stream
  <2>1. session'.pc \in {"yields", "waits", "leaves"} /\ session'.run = session.run
    BY <1>11, Moves DEF Stream
  <2>2. \/ UNCHANGED <<live, runs>>
        \/ \E confirmed \in BOOLEAN : Cancel(1, confirmed) /\ live' = [live EXCEPT !.cancelled = confirmed]
    BY <1>11 DEF Stream, ending
  <2>3. ASSUME NEW confirmed \in BOOLEAN, Cancel(1, confirmed), live' = [live EXCEPT !.cancelled = confirmed]
        PROVE  /\ live'.run = live.run /\ live'.cancelled = confirmed /\ runs'[2] = runs[2]
               /\ runs'[1] = runs[1] \/ runs'[1] = "over"
               /\ confirmed => runs'[1] = "over"
    BY <1>0, <2>3, Cancels
  <2>4. UNCHANGED outcome
    BY <1>11 DEF Stream, others
  <2> QED
    BY <1>1, <1>2, <2>1, <2>2, <2>3, <2>4
<1>12. CASE Wait
  <2>1. /\ UNCHANGED <<live, outcome, runs>>
        /\ \/ \E h : Leaves(h)
           \/ \E h : session' = [session EXCEPT !.pc = "judges", !.hold = h]
    BY <1>12 DEF Wait, others, ending
  <2>2. session'.run = session.run /\ session'.pc \notin {"asks", "asked"}
    <3>1. ASSUME NEW h, session' = [session EXCEPT !.pc = "judges", !.hold = h]
          PROVE  session'.run = session.run /\ session'.pc = "judges"
      BY <1>0, <3>1
    <3>2. ASSUME NEW h, Leaves(h) PROVE session'.run = session.run /\ session'.pc = "leaves"
      BY <3>2, Moves
    <3> QED
      BY <2>1, <3>1, <3>2
  <2> QED
    BY <1>1, <1>2, <2>1, <2>2
<1>13. CASE Ask \/ HoldsSecond
  BY <1>1, <1>13 DEF Ask, HoldsSecond
<1>14. ASSUME NEW who, QuietBegins(who) \/ QuietEnds(who), UNCHANGED <<session, outcome>> PROVE OneRun'
  BY <1>3, <1>4, <1>14 DEF QuietBegins, QuietEnds
<1>15. CASE Yield
  <2>1. CASE Leaves(Raising("quiet")) /\ UNCHANGED <<ending, runs>>
    <3>1. UNCHANGED <<live, runs, outcome>> /\ session'.run = session.run /\ session'.pc = "leaves"
      BY <1>15, <2>1, Moves DEF Yield, others, ending
    <3> QED
      BY <1>1, <1>2, <3>1
  <2> QED
    BY <1>14, <1>15, <2>1 DEF Yield, others
<1>16. CASE Quiets
  <2>1. CASE UNCHANGED <<ending, runs>>
    BY <1>4, <1>16, <2>1 DEF Quiets, waiting, ending
  <2> QED
    BY <1>14, <1>16, <2>1 DEF Quiets, waiting
<1>17. CASE gave_up
  BY <1>3, <1>17 DEF gave_up, waiting
<1>18. CASE Collects \/ Notices \/ GivesUp \/ Pulse \/ TimePasses \/ LimitPasses
  BY <1>4, <1>18 DEF Collects, Notices, GivesUp, Pulse, PulseLooks, PulseActs, TimePasses, LimitPasses, waiting,
     ending, rest
<1>19. CASE Return
  <2>1. PICK kind, text : Returns(kind, text)
    BY <1>19 DEF Return, Answered, ReturnQuiet, ReturnLimit, ReturnValue
  <2>2. outcome'.cancelled = live.cancelled /\ UNCHANGED <<session, runs, live>>
    BY <2>1 DEF Returns, waiting, ending
  <2> QED
    BY <1>1, <2>2 DEF OneRun
<1>20. ASSUME NEW r \in 1..2, RunEnds(r) PROVE OneRun'
  <2>1. UNCHANGED <<session, live, outcome>> /\ runs'[2] = runs[2] /\ (runs'[1] = runs[1] \/ runs'[1] = "over")
    BY <1>0, <1>1, <1>20 DEF RunEnds, ending
  <2> QED
    BY <1>1, <1>2, <2>1
<1>21. CASE UNCHANGED vars
  BY <1>4, <1>21 DEF vars, ending
<1> QED
  BY <1>5, <1>6, <1>7, <1>9, <1>10, <1>11, <1>12, <1>13, <1>15, <1>16, <1>17, <1>18, <1>19, <1>20, <1>21
     DEF Next, Worker, Caller

-----------------------------------------------------------------------------
(* What a call promises *)

IInv == TypeOK /\ Order /\ Ending /\ CalledOff /\ OneRun

LEMMA CallInvariant == CallAssumption => (Spec => []IInv)
<1> SUFFICES ASSUME CallAssumption PROVE Spec => []IInv
  OBVIOUS
<1>1. Init => IInv
  <2> SUFFICES ASSUME Init PROVE IInv
    OBVIOUS
  <2>1. session.pc \in {"reopens", "creates"} /\ session.run = 1 /\ ~session.reopened /\ session.hold.end = "none"
    BY DEF Init, Pending
  <2>2. runs[1] = "unsent" /\ runs[2] = "unsent" /\ live.run = 0 /\ ~live.cancelled /\ outcome.kind = "none"
    BY DEF Init, NoOutcome
  <2>3. caller = "waits" /\ ~stopped /\ quiet = "open"
    BY DEF Init
  <2> QED
    BY <2>1, <2>2, <2>3, InitTyped DEF IInv, Order, Ending, CalledOff, OneRun
<1>2. IInv /\ [Next]_vars => IInv'
  <2> SUFFICES ASSUME IInv, [Next]_vars PROVE IInv'
    OBVIOUS
  <2>1. TypeOK'
    BY NextTyped DEF IInv
  <2>2. Order' /\ Ending'
    BY <2>1, OrderKept, EndingKept DEF IInv
  <2> QED
    BY <2>1, <2>2, CalledOffKept, OneRunKept DEF IInv
<1> QED
  BY <1>1, <1>2, PTL DEF Spec

\* Once run() has given a call up, the run of a new conversation is over or was
\* called off, or the worker has still to come to its check.
THEOREM GivenUpEnds == CallAssumption => (Spec => []GivenUpIsCalledOff)
<1> SUFFICES ASSUME CallAssumption PROVE Spec => []GivenUpIsCalledOff
  OBVIOUS
<1>1. IInv => GivenUpIsCalledOff
  BY DEF IInv, CalledOff, Ending, GivenUpIsCalledOff
<1> QED
  BY <1>1, CallInvariant, PTL

\* A call of one turn that ended with its cancel confirmed has no run left.
THEOREM CancelledStops == CallAssumption => (Spec => []CancelledMeansStopped)
<1> SUFFICES ASSUME CallAssumption PROVE Spec => []CancelledMeansStopped
  OBVIOUS
<1>1. IInv => CancelledMeansStopped
  <2> SUFFICES ASSUME IInv, outcome.kind # "none", outcome.cancelled, ~how.asks, NEW r \in 1..2
               PROVE  runs[r] # "live"
    BY DEF CancelledMeansStopped
  <2>1. r = 1 \/ r = 2
    OBVIOUS
  <2> QED
    BY <2>1 DEF IInv, OneRun
<1> QED
  BY <1>1, CallInvariant, PTL

\* Only run()'s return gives an outcome.
LEMMA Outcomes ==
  ASSUME [Next]_vars, outcome'.kind # outcome.kind
  PROVE  Return
<1>1. CASE Says
  BY <1>1, SaysChanges DEF Hears
<1>2. CASE Worker
  BY <1>2 DEF Worker, Reopen, Create, Enter, Send, Holds, Check, StreamEnds, Breaks, Stream, Wait, Judge, Ask,
     HoldsSecond, Leave, others
<1>3. CASE Yield \/ Caller
  BY <1>3 DEF Yield, Caller, Collects, Notices, GivesUp, gave_up, Quiets, others
<1>4. CASE Pulse \/ TimePasses \/ LimitPasses \/ \E r \in 1..2 : RunEnds(r)
  BY <1>4 DEF Pulse, PulseLooks, PulseActs, TimePasses, LimitPasses, RunEnds, rest
<1>5. CASE UNCHANGED vars
  BY <1>5 DEF vars
<1> QED
  BY <1>1, <1>2, <1>3, <1>4, <1>5 DEF Next

\* A whole answer that came before run() returned is what it returns: at the limit,
\* after a silence or a re-run, and when closing the session fails.
AnswerIsKept ==
  [][outcome'.kind # outcome.kind /\ said.answered # "none"
     => outcome'.kind = "answered" /\ outcome'.text = said.answered]_vars

\* Of several rounds of one request the whole one is kept: a call that was ended
\* from outside, or ended in error, returns no part of an answer it has whole.
WholeIsPreferred ==
  [][outcome'.kind # outcome.kind /\ outcome'.kind \in {"quiet", "timeout", "error"} /\ how.one
     => outcome'.text # "part" \/ ~\E i \in DOMAIN said.answers : said.answers[i] = "whole"]_vars

\* A whole answer that came is what run() returns, however the call ended.
THEOREM AnswersAreKept == Spec => AnswerIsKept
<1>1. [Next]_vars => (outcome'.kind # outcome.kind /\ said.answered # "none"
                     => outcome'.kind = "answered" /\ outcome'.text = said.answered)
  <2> SUFFICES ASSUME [Next]_vars, outcome'.kind # outcome.kind, said.answered # "none"
               PROVE  outcome'.kind = "answered" /\ outcome'.text = said.answered
    OBVIOUS
  <2>1. Answered
    BY Outcomes DEF Return, ReturnQuiet, ReturnLimit, ReturnValue
  <2> QED
    BY <2>1 DEF Answered, Returns
<1> QED
  BY <1>1, PTL DEF Spec, AnswerIsKept

\* A call ended from outside, or ended in error, returns the whole answer it has.
THEOREM WholeAnswers == CallAssumption => (Spec => WholeIsPreferred)
<1> SUFFICES ASSUME CallAssumption PROVE Spec => WholeIsPreferred
  OBVIOUS
<1>1. TypeOK /\ [Next]_vars =>
        (outcome'.kind # outcome.kind /\ outcome'.kind \in {"quiet", "timeout", "error"} /\ how.one
         => outcome'.text # "part" \/ ~\E i \in DOMAIN said.answers : said.answers[i] = "whole")
  <2> SUFFICES ASSUME TypeOK, [Next]_vars, outcome'.kind # outcome.kind,
                      outcome'.kind \in {"quiet", "timeout", "error"}, how.one,
                      \E i \in DOMAIN said.answers : said.answers[i] = "whole"
               PROVE  outcome'.text # "part"
    OBVIOUS
  <2>1. best_answer = "whole"
    BY BestAnswer
  <2>2. CASE Answered
    BY <2>2 DEF Answered, Returns
  <2>3. CASE ReturnQuiet
    BY <2>1, <2>3 DEF ReturnQuiet, Returns
  <2>4. CASE ReturnLimit
    <3>1. \/ outcome' = [kind |-> "timeout", text |-> best_answer, cancelled |-> live.cancelled]
          \/ outcome' = [kind |-> "timed out", text |-> "none", cancelled |-> live.cancelled]
      BY <2>4 DEF ReturnLimit, Returns
    <3>2. CASE outcome' = [kind |-> "timeout", text |-> best_answer, cancelled |-> live.cancelled]
      <4>1. outcome'.text = best_answer
        BY <3>2
      <4> QED
        BY <2>1, <4>1
    <3>3. CASE outcome' = [kind |-> "timed out", text |-> "none", cancelled |-> live.cancelled]
      <4>1. outcome'.text = "none"
        BY <3>3
      <4> QED
        BY <4>1
    <3> QED
      BY <3>1, <3>2, <3>3
  <2>5. CASE ReturnValue
    BY <2>1, <2>5 DEF ReturnValue, Returns
  <2> QED
    BY <2>2, <2>3, <2>4, <2>5, Outcomes DEF Return
<1> QED
  BY <1>1, CallTypes, PTL DEF Spec, WholeIsPreferred

=============================================================================
