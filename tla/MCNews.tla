------------------------------- MODULE MCNews -------------------------------
(* UpdateNews alone, with the fairness of its timer and of the services it  *)
(* asks: whether an update is ever announced.                               *)
EXTENDS UpdateNews
=============================================================================
