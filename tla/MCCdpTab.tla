------------------------------ MODULE MCCdpTab ------------------------------
(* Two documents replaced or frames loaded, three operations of any kind   *)
(* and order that the tab allows, and Detach.                              *)
EXTENDS CdpTab
=============================================================================
