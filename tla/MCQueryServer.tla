---------------------------- MODULE MCQueryServer ----------------------------
EXTENDS QueryServer, TLC

Symmetry == Permutations(Requests) \cup Permutations(Ips)
=============================================================================
