-------------------------- MODULE MCDeviceBinding --------------------------
(***************************************************************************)
(* Bounds for checking DeviceBinding with TLC.                             *)
(***************************************************************************)
EXTENDS DeviceBinding, TLC

CONSTANTS s1, s2, d1, d2

\* Each device on a socket of its own, or one device that connects again.
OneDevice == s1 :> d1 @@ s2 :> d1

Symmetry == Permutations(Tasks)
=============================================================================
