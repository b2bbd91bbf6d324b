-------------------------- MODULE MCAgentScheduler --------------------------
(* Small instances of AgentScheduler for TLC, and the properties they check. *)
EXTENDS AgentScheduler, TLC

CONSTANTS a1, a2, s1

OneSpace == [a \in Agents |-> s1]
RunSymmetry == Permutations(Runs)
MailSymmetry == RunSymmetry \cup Permutations(Senders) \cup Permutations(Keys)
=============================================================================
