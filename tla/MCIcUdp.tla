------------------------------ MODULE MCIcUdp ------------------------------
(* TLC instances of IcUdp.                                                 *)
EXTENDS IcUdp, TLC
============================================================================
