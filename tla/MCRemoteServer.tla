---- MODULE MCRemoteServer ----
(* RemoteServer for TLC: the firmware's pool has five pcbs. *)
EXTENDS RemoteServer
====
