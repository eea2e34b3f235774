------------------------------ MODULE MCSched ------------------------------
(* Three tasks on two CPUs: a kernel thread pinned to CPU 0, a parent and  *)
(* its child.                                                              *)
EXTENDS Sched

MCPin == <<0, 2, 2>>
=============================================================================
