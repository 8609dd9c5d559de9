--------------------------- MODULE MCMonitorQueue ---------------------------
(* Instances of MonitorQueue for TLC. *)
EXTENDS MonitorQueue, TLC

\* Workers and keys are interchangeable.
Symmetry == Permutations(Workers) \cup Permutations(Keys)

=============================================================================
