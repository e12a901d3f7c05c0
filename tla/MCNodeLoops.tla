----------------------------- MODULE MCNodeLoops -----------------------------
(* NodeLoops with the symmetry of its safety runs.                          *)
EXTENDS NodeLoops, TLC

\* Calls, requests and local events are interchangeable: none is named in the
\* specification.
Symmetry ==
    Permutations(Calls) \cup Permutations(RRRequests)
        \cup Permutations(StreamRequests) \cup Permutations(Locals)
=============================================================================
