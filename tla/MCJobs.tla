-------------------------------- MODULE MCJobs --------------------------------
(* Jobs on small instances: two agents, two visits.                        *)
EXTENDS Jobs, TLC

Agents == Permutations(Agent)
=============================================================================
