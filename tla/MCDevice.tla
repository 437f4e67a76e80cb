------------------------------ MODULE MCDevice ------------------------------
(* Device for TLC.                                                          *)
EXTENDS Device
=============================================================================
