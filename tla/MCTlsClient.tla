---- MODULE MCTlsClient ----
(* TlsClient for TLC.  Five altcp pcbs make two pairs. *)
EXTENDS TlsClient
====
