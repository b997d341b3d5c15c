----------------------------- MODULE MCDelivery ------------------------------
(* One simulator and a process that may be started three times.                   *)
EXTENDS Simulator

MCAttempts == 0..2

=============================================================================
