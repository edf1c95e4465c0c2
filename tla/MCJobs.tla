------------------------------- MODULE MCJobs -------------------------------
EXTENDS SyncJobs, TLC
CONSTANTS j1, j2, j3
Ids == Permutations(JobIds)
=============================================================================
