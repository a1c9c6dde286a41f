------------------------------- MODULE InOrderRpc -------------------------------
(***************************************************************************)
(* What one DAP connection promises its client: requests are executed in   *)
(* the order they were sent, each once; every executed request is answered *)
(* before the next one is executed; only the last answer can be missing,   *)
(* and only when the service ends with it.  Requests are numbered, so each *)
(* variable is the number of the last one that has got so far.             *)
(***************************************************************************)
EXTENDS Naturals

VARIABLES
  issued,                \* requests sent by the client
  executed,              \* requests executed by the probe
  answered,              \* requests whose response was accepted by the transport
  open,                  \* does the service go on?
  heard                  \* do requests get through?  That is up to the transport and the
                         \* client, and may change at any time.

rvars == <<issued, executed, answered, open>>

Init ==
  /\ issued = 0
  /\ executed = 0
  /\ answered = 0
  /\ open = TRUE

\* The client may go on writing to a service that has ended.
Issue ==
  /\ issued' = issued + 1
  /\ UNCHANGED <<executed, answered, open>>

\* Some of the waiting requests are executed and answered.
Serve ==
  /\ open
  /\ executed' \in executed + 1..issued
  /\ answered' = executed'
  /\ UNCHANGED <<issued, open>>

\* The service ends, possibly after serving some, possibly between the execution
\* of the last one and its answer.
Break ==
  /\ open
  /\ open' = FALSE
  /\ executed' \in executed..issued
  /\ \/ answered' = executed'
     \/ executed' > executed /\ answered' = executed' - 1
  /\ UNCHANGED issued

Next == Issue \/ Serve \/ Break

\* The service owes nothing to a client it does not hear.
Spec == Init /\ [][Next]_rvars /\ WF_rvars(heard /\ Serve)
=================================================================================
