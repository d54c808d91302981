--------------------------- MODULE MCSuspendPolicy ---------------------------
(* Instances of SuspendPolicy for TLC.                                     *)
EXTENDS SuspendPolicy, TLC

\* Questions are interchangeable, and so are processes; holds and leases are
\* numbered.
Symmetry == Permutations(Incident) \cup Permutations(Pid)
=============================================================================
