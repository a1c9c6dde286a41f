---- MODULE MCSwdBlock ----
(* SwdBlock for TLC: blocks of up to five words of every kind. *)
EXTENDS SwdBlock
====
