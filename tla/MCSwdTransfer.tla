---- MODULE MCSwdTransfer ----
(* SwdTransfer for TLC: every command of up to three requests, so that every kind
   of request follows every other with a third behind them. *)
EXTENDS SwdTransfer
====
