------------------------------ MODULE MCUdpIfc ------------------------------
(* A stream of four packets over a receive ring of two, with loss based     *)
(* flow control: a second connection shares the pool of three send buffers. *)
EXTENDS UdpIfc
=============================================================================
