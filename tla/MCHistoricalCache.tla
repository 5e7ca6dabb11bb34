-------------------------- MODULE MCHistoricalCache --------------------------
EXTENDS HistoricalCache, TLC
CONSTANTS job1, job2, job3
JobSymmetry == Permutations({job1, job2, job3})
=============================================================================
