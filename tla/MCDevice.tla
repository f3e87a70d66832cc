------------------------------- MODULE MCDevice --------------------------------
(* Model values for the configurations of Device. *)
EXTENDS Device
CONSTANTS b1, b2, w1, w2
================================================================================
