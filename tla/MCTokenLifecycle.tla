--------------------------- MODULE MCTokenLifecycle ---------------------------
(***************************************************************************)
(* Small instances of TokenLifecycle: two tests side by side.              *)
(***************************************************************************)
EXTENDS TokenLifecycle, TLC

CONSTANTS t1, t2, k1, k2

\* To be let in; refused as the row wants it; refused by another service.
MCSteps == {<<TRUE, FALSE, FALSE>>, <<TRUE, TRUE, FALSE>>, <<FALSE, FALSE, FALSE>>}

MCTokens == Permutations({k1, k2})

=============================================================================
