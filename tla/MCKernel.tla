------------------------------ MODULE MCKernel ------------------------------
(* Kernel on a small instance: a few threads, one semaphore that a device  *)
(* handler signals too.                                                    *)
EXTENDS Kernel, TLC

MCInitialValue == [s \in Sems |-> 0]
MCDeviceSem == [d \in Devices |-> CHOOSE s \in Sems : TRUE]
=============================================================================
