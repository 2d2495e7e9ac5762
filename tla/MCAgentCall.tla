------------------------------ MODULE MCAgentCall ------------------------------
(***************************************************************************)
(* Small instances of AgentCall: the ways the tools call it.               *)
(***************************************************************************)
EXTENDS AgentCall, TLC

CONSTANTS n1, n2

Call(one, asks, limit, still, again) ==
  [one |-> one, asks |-> asks, limit |-> limit, quiet |-> still, again |-> again]

\* A change and its repair (loop.py), with no limits (the policy's 0) too; a
\* design and its second ask (design.py).
Change == Call(FALSE, FALSE, TRUE, TRUE, FALSE)
Repair == Call(FALSE, FALSE, TRUE, TRUE, TRUE)
Unlimited == Call(FALSE, FALSE, FALSE, FALSE, TRUE)
Design == Call(TRUE, TRUE, TRUE, TRUE, FALSE)
DesignAgain == Call(TRUE, FALSE, TRUE, TRUE, TRUE)
DesignUnlimited == Call(TRUE, TRUE, FALSE, TRUE, FALSE)

\* Every way of ending, with and without a limit, a second ask and an old
\* conversation (which a change without one falls back from).
MCWays == {Repair, Design, DesignUnlimited}
Every == {Change, Unlimited, DesignAgain} \cup MCWays

=============================================================================
