-------------------------- MODULE MC_DeviceQueues --------------------------
(* A small instance of DeviceQueues for TLC. *)
EXTENDS DeviceQueues

=============================================================================
