---------------------------- MODULE MCReviewCycle ----------------------------
(***************************************************************************)
(* Small instances of ReviewCycle: a file of the write roots that is in    *)
(* HEAD, one that is not, and a file outside the roots.                    *)
(***************************************************************************)
EXTENDS ReviewCycle, TLC

CONSTANTS kept, new, outside,      \* files
          t0, agents, yours,       \* contents
          jobA, jobB

MCFirstTree == [f \in Files |-> IF f = new THEN Absent ELSE t0]

\* The agent may write anywhere, or each job's in a file of its own.
AgentAnywhere == [j \in Jobs |-> Files]
AgentApart == [j \in Jobs |-> IF j = jobA THEN {kept} ELSE {new}]

=============================================================================
