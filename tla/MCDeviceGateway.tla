---------------------------- MODULE MCDeviceGateway ----------------------------
(* Instances of DeviceGateway for TLC: one device with a few connections.    *)
EXTENDS DeviceGateway, TLC

\* The connections of the device are alike (safety runs only).
Symmetry == Permutations(Sockets)
=============================================================================
