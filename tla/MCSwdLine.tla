---- MODULE MCSwdLine ----
(* SwdLine for TLC: every answer, and every bit of a word disturbed. *)
EXTENDS SwdLine
====
