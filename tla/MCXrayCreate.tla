----------------------------- MODULE MCXrayCreate -----------------------------
(***************************************************************************)
(* Small instances of XrayCreate: two cases, three texts.                   *)
(***************************************************************************)
EXTENDS XrayCreate, TLC

CONSTANTS j1, j2

\* Two titles that share words, and one with the steps of another.
MCTexts == {<<"x", "s">>, <<"y", "t">>, <<"z", "s">>}
MCLooks == {<<"x", "x">>, <<"y", "y">>, <<"z", "z">>, <<"x", "y">>, <<"y", "x">>}

\* One case; and that case under another id, after one that looks like it.
MCDesigns == {<<<<"x", "s">>, NoText>>, <<<<"y", "t">>, <<"x", "s">>>>}

\* At first the jobs' designs differ: Redesign makes them the same.
MCInit == Init /\ \A j, k \in Jobs : design[j] = design[k] => j = k
MCSpec == MCInit /\ [][Next]_vars

MCJobs == Permutations({j1, j2})

=============================================================================
