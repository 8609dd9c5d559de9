------------------------- MODULE MCSelfWriteTracker -------------------------
(* Instances of SelfWriteTracker for TLC. *)
EXTENDS SelfWriteTracker

=============================================================================
