---------------------------- MODULE MCAgentJobs ----------------------------
(***************************************************************************)
(* AgentJobs on small instances.  Job ids are numbers because the sweeper  *)
(* takes them in primary-key order, so jobs are not interchangeable; the   *)
(* run-due requests are.                                                   *)
(***************************************************************************)
EXTENDS AgentJobs, TLC

DrainSymmetry == Permutations(Drains)
=============================================================================
