---------------------------- MODULE MCAgentJobs ----------------------------
(* AgentJobs on small instances.                                           *)
EXTENDS AgentJobs, TLC

CONSTANTS p1, p2

TwoAttempts == [p \in Proposals |-> 2]
ToolBudgets == [p \in Proposals |-> IF p \in External THEN 1 ELSE 2]
Symmetry == Permutations(Workers)
=============================================================================
