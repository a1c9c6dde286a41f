--------------------------- MODULE ReconnectingLink ---------------------------
(***************************************************************************)
(* What the gateway promises about its outbound connection to the relay,  *)
(* whatever transport carries it: at any moment there is at most one relay *)
(* connection; only that connection can come up or be lost; and a relay    *)
(* that stays reachable is eventually reached again after every loss       *)
(* (tls_client.c:11, TLS_FORWARDING.md section 7).                         *)
(*                                                                         *)
(* RemoteServer (plain TCP) implements this specification; TlsClient       *)
(* implements it only until the TLS adapter meets a fatal error.          *)
(***************************************************************************)
CONSTANT Conn            \* identities of connections

VARIABLES
  live,                  \* the relay connections that exist: none, or one
  up                     \* is the connection usable by the relay's peer?

lvars == <<live, up>>

TypeOK ==
  /\ live \in SUBSET Conn
  /\ up \in BOOLEAN

Init ==
  /\ live = {}
  /\ up = FALSE

\* A connection attempt starts; it needs that no other connection exists.
Attempt ==
  /\ live = {}
  /\ \E c \in Conn : live' = {c}
  /\ UNCHANGED up

\* The attempt in progress succeeds.
Establish ==
  /\ live # {}
  /\ ~up
  /\ up' = TRUE
  /\ UNCHANGED live

\* The attempt fails, or the connection ends: nothing of it is left.
Lose ==
  /\ live # {}
  /\ live' = {}
  /\ up' = FALSE

Next == Attempt \/ Establish \/ Lose

\* The environment is the relay: reachable again and again.
Fairness == SF_lvars(Attempt) /\ SF_lvars(Establish)

Spec == Init /\ [][Next]_lvars /\ Fairness
=============================================================================
