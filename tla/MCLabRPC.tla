------------------------------ MODULE MCLabRPC ------------------------------
(* An instance of LabRPC for TLC.                                          *)
EXTENDS LabRPC

CONSTANTS p0, p1, r1
=============================================================================
