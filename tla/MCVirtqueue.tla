----------------------------- MODULE MCVirtqueue -----------------------------
(* Model checking of Virtqueue; the instance is in the .cfg file.          *)
EXTENDS Virtqueue
=============================================================================
