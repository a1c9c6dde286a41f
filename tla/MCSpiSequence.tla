---- MODULE MCSpiSequence ----
(* SpiSequence for TLC: every remainder, with no, one and several whole bytes
   before it. *)
EXTENDS SpiSequence
====
