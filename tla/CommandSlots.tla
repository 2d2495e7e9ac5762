---------------------------- MODULE CommandSlots ----------------------------
(***************************************************************************)
(* What the workbench promises about commands, whatever its threads do:    *)
(* a set of commands is under way, a command joins only when it may run    *)
(* beside all of them, and leaves alone or with every other (the server    *)
(* went). JobRunner implements this with the slots of _RUNNING.            *)
(***************************************************************************)
CONSTANTS Jobs, WorkbenchJobs, Runnables, Exclusive, AgentRunnables

VARIABLE underWay

Commands == Jobs \X Runnables
Rewrites(c) == c[2] \in Exclusive
OfBench(c) == c[1] \in WorkbenchJobs

\* May c begin while `others` are under way?
Beside(c, others) ==
  /\ c \notin others
  /\ Rewrites(c) => \A o \in others : ~Rewrites(o)
  /\ OfBench(c) /\ c[2] \in AgentRunnables => others = {}
  /\ ~OfBench(c) => \A o \in others : ~OfBench(o)

Nothing == underWay = {}

Begin(c) == Beside(c, underWay) /\ underWay' = underWay \cup {c}
End(c) == c \in underWay /\ underWay' = underWay \ {c}
AllGone == underWay' = {}

Step == (\E c \in Commands : Begin(c) \/ End(c)) \/ AllGone

Promise == Nothing /\ [][Step]_underWay

\* At most one command under way rewrites or judges the working tree.
OneRewrites ==
  \A c, d \in underWay : Rewrites(c) /\ Rewrites(d) => c = d

\* A workbench job's command has no story's command beside it, unless it
\* began there as a review or a question: never a change.
BenchApart ==
  \A c, d \in underWay : OfBench(c) /\ c[2] \in AgentRunnables => OfBench(d)

=============================================================================
