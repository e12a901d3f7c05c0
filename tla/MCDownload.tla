------------------------------ MODULE MCDownload ------------------------------
(* Download with the symmetry of its runs.                                   *)
EXTENDS Download, TLC

Symmetry == Permutations(Http) \cup Permutations(Cli) \cup Permutations(Peers)
              \cup Permutations(Paths)
=============================================================================
