---------------------------- MODULE MCProcessor ----------------------------
(* Instances of Processor for TLC. *)
EXTENDS ProcessorRefines

\* With a re-sync window of two the jitter of every key is one.
MCHash == [k \in Keys |-> 3]

\* Unlimited retries: a cfg cannot write a negative number.
Unlimited == -1

=============================================================================
