-------------------------- MODULE MCResultDelivery --------------------------
EXTENDS ResultDelivery

(* The set of runs and the run of the root session in it are model values. *)
=============================================================================
