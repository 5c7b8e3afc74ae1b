----------------------- MODULE MCEnterpriseLifecycle -----------------------
(* A small instance of EnterpriseLifecycle for TLC: API requests that run   *)
(* concurrently are interchangeable.                                        *)
EXTENDS EnterpriseLifecycle, TLC

Symmetry == Permutations(Requests)
=============================================================================
