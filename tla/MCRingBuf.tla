----------------------------- MODULE MCRingBuf ------------------------------
(* RingBuf for TLC.  CPUs are model values; there is no symmetry reduction,  *)
(* because the runs check liveness.                                          *)
EXTENDS RingBuf
=============================================================================
