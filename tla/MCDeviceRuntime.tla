-------------------------- MODULE MCDeviceRuntime --------------------------
(* Instances of DeviceDaemon, with its DeviceRuntime, for TLC.             *)
EXTENDS DeviceDaemon
=============================================================================
