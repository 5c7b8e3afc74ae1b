----------------------------- MODULE MCPatchReview -----------------------------
EXTENDS PatchReview, TLC

Symmetry == Permutations(Requests) \cup Permutations(Patches) \cup Permutations(Diffs)
===============================================================================
