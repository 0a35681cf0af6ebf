-------------------------- MODULE MCDeviceLifecycle --------------------------
(* DeviceLifecycle with two applications and one reader of its sensors.    *)
EXTENDS DeviceLifecycle
==============================================================================
