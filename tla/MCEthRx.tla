---- MODULE MCEthRx ----
(* EthRx for TLC: a ring of three with one spare buffer. *)
EXTENDS EthRx
====
