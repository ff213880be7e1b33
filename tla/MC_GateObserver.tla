-------------------------- MODULE MC_GateObserver --------------------------
(***************************************************************************)
(* The senseGate as it is built (senseGate/Makefile, main.c): one reed     *)
(* contact, no distance sensor.                                            *)
(***************************************************************************)
EXTENDS GateObserver
=============================================================================
