--------------------------- MODULE MCRetentionPurge ---------------------------
EXTENDS RetentionPurge, TLC

\* The run has the first plan.  The second, with Media = {"recording"},
\* UserDeleted = {} and Derived = {"transcript"}, is an instance with derived data.
CategoryPlan == <<"recording", "voicemail">>
DerivedPlan  == <<"recording", "transcript">>
Symmetry     == Permutations(Jobs) \cup Permutations(Recordings)
===============================================================================
