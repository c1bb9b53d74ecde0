----------------------- MODULE MCMachineExecutors -----------------------
(* Every machine, with the thresholds of the generated constants.          *)
EXTENDS MachineExecutors
=============================================================================
