------------------------------ MODULE MCCdpConn -----------------------------
(* Two invocations of Call: they overlap on the wire, or the second starts *)
(* after the first was abandoned and its reply is still to come.           *)
EXTENDS CdpConn
=============================================================================
