------------------------------ MODULE MCDevices ------------------------------
(* A small instance of DeviceSessions: sessions one after the other or, with    *)
(* Overlap, at once, on one phone.                                          *)
EXTENDS DeviceSessions

CONSTANTS d1
OnePhone == [s \in Sessions |-> d1]
=============================================================================
