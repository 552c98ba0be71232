----------------------------- MODULE MCAgentJobs -----------------------------
(* Model values for AgentJobsOpen.  The calls of one lane are interchangeable,
   and so are the workers of the main pool. *)
EXTENDS AgentJobsOpen, TLC

MainSymmetry ==
  Permutations(Requests \ ReadRequests) \cup Permutations(Workers \ ReadWorkers)
=============================================================================
