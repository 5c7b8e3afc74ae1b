------------------------- MODULE MCPublishLifecycle -------------------------
(* A small instance of PublishLifecycle for TLC.                           *)
EXTENDS PublishLifecycle, TLC

\* The request slots are the only constants with more than one exchangeable
\* element in the instances below; no property names one of them.
Symmetry == Permutations(Requests)
=============================================================================
