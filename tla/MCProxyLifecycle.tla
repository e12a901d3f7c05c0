--------------------------- MODULE MCProxyLifecycle ---------------------------
(* ProxyLifecycle with the symmetry of its safety runs.                      *)
EXTENDS ProxyLifecycle, TLC

Symmetry == Permutations(Tasks) \cup Permutations(Sessions \ {CliSession})
=============================================================================
