---------------------------- MODULE MCJobRunner ----------------------------
(***************************************************************************)
(* Small instances of JobRunner: one story's job and one workbench job,    *)
(* one command of each kind that start() tells apart.                      *)
(***************************************************************************)
EXTENDS JobRunner, TLC

CONSTANTS story, bench,                \* jobs
          convert, generate, review, tests,  \* runnables
          testsResult                  \* a result file

MCJobs == {story, bench}
MCWorkbenchJobs == {bench} \cap Jobs
MCExclusive == {convert, generate, tests} \cap Runnables
MCAgentRunnables == {generate} \cap Runnables
MCWorkbenchRunnables == {generate, review} \cap Runnables

\* mvn-test writes mvnrun-result.json.
MCFileOf == [r \in Runnables |-> IF r = tests THEN testsResult ELSE NoFile]

\* The request threads take no part in the next-state relation but by name.
Threads == Permutations(Requests) \cup Permutations(Stoppers)

=============================================================================
