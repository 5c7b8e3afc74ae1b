---------------------------- MODULE MCInboundRoutes ----------------------------
EXTENDS InboundRoutes, TLC

Symmetry == Permutations(Requests) \cup Permutations(Routes) \cup Permutations(Tenants)
===============================================================================
