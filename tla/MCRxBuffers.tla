---------------------------- MODULE MCRxBuffers ----------------------------
(* RxBuffers for TLC: buffers of a few bytes, so that every overflow of     *)
(* Buffer<2048> happens within a behaviour of MaxBytes bytes.               *)
EXTENDS RxBuffers
=============================================================================
