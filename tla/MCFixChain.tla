----------------------------- MODULE MCFixChain -----------------------------
(***************************************************************************)
(* Small instances of FixChain: one job, its runs and its own fixes.       *)
(***************************************************************************)
EXTENDS FixChain, TLC

CONSTANTS a, c1

\* A run's failures go to its own job.
MCOwn == [j \in Jobs |-> j]

\* What a person starts.
MCPressed == {<<a, "mvn-compile", TRUE>>, <<a, "convert", FALSE>>}

=============================================================================
