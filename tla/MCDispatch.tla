----------------------------- MODULE MCDispatch -----------------------------
(* Instances of Dispatch for TLC: one account.                             *)
EXTENDS Dispatch, TLC

CONSTANTS Account
MCGroups == {Account}
MCRateGroup == [j \in Jobs |-> Account]
RunnerSymmetry == Permutations(Runners)
=============================================================================
