---- MODULE MCDapStream ----
(* DapStream for TLC: a header of two bytes and a window of four, so that one callback
   can bring two short frames and part of a third; payloads of up to four bytes fit
   the packet of the WAN server and the TLS client, of up to two the LAN server's
   buffer, and one of five is refused by all.  Torn headers are refused or ask for no,
   one or two bytes, depending on whose bytes and which. *)
EXTENDS DapStream

Ok(l) == [len |-> l, head |-> "ok"]
Bad == [len |-> 0, head |-> "signature"]

\* A frame with header h that reads as t wherever it is torn.
Like(h, t) == [len |-> h.len, head |-> h.head, torn |-> [k \in 1..Hdr + h.len |-> t]]

\* One whose signature survives at its first byte only, with the length l behind it.
Signed(h, l) ==
  [Like(h, Bad) EXCEPT !.torn = [@ EXCEPT ![1] = Ok(l)]]

\* Requests whose bytes look like a header nowhere but in their headers.
MCPlain == {Like(Ok(l), Bad) : l \in 0..2}

MCFrame ==
  {Like(Ok(0), Ok(1)), Signed(Ok(1), 2), Like(Ok(2), Ok(0)), Like(Ok(5), Bad),
   Like([len |-> 0, head |-> "type"], Ok(1)), Like([len |-> 0, head |-> "signature"], Bad)}
====
